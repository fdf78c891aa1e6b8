------------------------------ MODULE CallProofs ------------------------------
(***************************************************************************)
(* Proofs about the calls that block, for every table size and workload.   *)
(*                                                                         *)
(* Message passing: what msg.c does with queues is what module Rendezvous  *)
(* promises without them.  Every step of the dispatcher is shown to be a   *)
(* step of Rendezvous or to leave the calls and the memory of the          *)
(* processes alone; that a send and its receive never miss each other is   *)
(* then a property of Rendezvous.                                          *)
(*                                                                         *)
(* Sleep: the deltas along the list are positive, their running sums are   *)
(* the ticks that are left, so inserting and removing a sleeper changes    *)
(* nobody else's and a tick takes one from all: the delta list is a set of *)
(* countdowns (module Countdown).  Last, what every call returns.          *)
(***************************************************************************)
EXTENDS DispProofs

USE DEF READY, STOPPED, RUNNING, BLOCKED, SENDER, RECEIVER, WAITING, RECEIVE_ANY, SLEEP,
        DEVICE, NO_BLOCKER, NULL

\* p has a send or a receive pending.
InCall(p) ==
    curr_state[p] = BLOCKED /\ blocking_queue_name[p] \in {SENDER, RECEIVER, RECEIVE_ANY}

\* What the simulation needs to know besides IInv: a pending call that a death
\* would end returns SYSPID_DNE, and a receive from one process has been told
\* the pid of that process.
FailureChosen ==
    \A p \in Slots :
        curr_state[p] = BLOCKED /\ blocking_queue_name[p] \in {SENDER, RECEIVER}
            => ret[p] = SYSPID_DNE
PeerNamed ==
    \A p \in Slots :
        curr_state[p] = BLOCKED /\ blocking_queue_name[p] = RECEIVER
            => from_pid[p] = pid[blocking_proc[p]]
MsgInv ==
    /\ DOMAIN ret = Procs /\ DOMAIN buffer = Procs /\ DOMAIN from_pid = Procs
    /\ DOMAIN pid = Procs
    /\ FailureChosen /\ PeerNamed

\* The two steps that a step of the dispatcher may be.
Simulates == R!Next \/ UNCHANGED <<call, buffer, from_pid>>

\* The calls of Rendezvous are told apart by what they are and by their peer.
LEMMA CallsDiffer ==
    ASSUME NEW x, NEW y
    PROVE  /\ R!Recv(x) # R!Send(y) /\ R!Recv(x) # R!NoCall /\ R!Send(x) # R!NoCall
           /\ R!Recv(x) = R!Recv(y) => x = y
           /\ R!Send(x) = R!Send(y) => x = y
BY DEF R!Recv, R!Send, R!NoCall

\* The abstract call of a process, by what it is blocked in.
LEMMA CallFacts ==
    ASSUME IInv, NEW p \in Slots
    PROVE  /\ ~InCall(p) => call[p] = R!NoCall
           /\ InCall(p) /\ blocking_queue_name[p] = SENDER => call[p] = R!Send(blocking_proc[p])
           /\ InCall(p) /\ blocking_queue_name[p] = RECEIVER => call[p] = R!Recv(blocking_proc[p])
           /\ InCall(p) /\ blocking_queue_name[p] = RECEIVE_ANY => call[p] = R!Recv(NULL)
           /\ InCall(p) => call[p] # R!NoCall
<1>1. blocking_queue_name[p] = RECEIVE_ANY => blocking_proc[p] = NULL
  BY SlotFacts, IInvTypes DEF IInv, BlockersMatchStates, Queues
<1> QED BY <1>1 DEF call, InCall, R!NoCall, R!Send, R!Recv

\* The same of the next state.
LEMMA CallFactsNext ==
    ASSUME IInv', NEW p \in Slots
    PROVE  /\ ~InCall(p)' => call'[p] = R!NoCall
           /\ InCall(p)' /\ blocking_queue_name'[p] = SENDER
                => call'[p] = R!Send(blocking_proc'[p])
           /\ InCall(p)' /\ blocking_queue_name'[p] = RECEIVER
                => call'[p] = R!Recv(blocking_proc'[p])
           /\ InCall(p)' /\ blocking_queue_name'[p] = RECEIVE_ANY => call'[p] = R!Recv(NULL)
<1>1. blocking_queue_name'[p] = RECEIVE_ANY => blocking_proc'[p] = NULL
  BY SlotFacts DEF IInv, BlockersMatchStates, Queues
<1> QED BY <1>1 DEF call, InCall, R!NoCall, R!Send, R!Recv

\* The call of each process, spelled out.
LEMMA CallIsFunction ==
    /\ call = [p \in Slots |-> call[p]] /\ call' = [p \in Slots |-> call'[p]]
BY DEF call

\* A process that has not stopped keeps its pid.
LEMMA PidsKept ==
    ASSUME IInv, MsgInv, Next
    PROVE  /\ DOMAIN pid' = Procs
           /\ \A p \in Slots : curr_state[p] # STOPPED => pid'[p] = pid[p]
<1>1. CASE pid' = pid
  BY <1>1 DEF MsgInv
<1>2. CASE create /\ pid' # pid
  <2>1. stopped # <<>> /\ \E n : pid' = [pid EXCEPT ![Head(stopped)] = n]
    BY <1>2 DEF create, Asserting, pcbVars
  <2>2. curr_state[Head(stopped)] = STOPPED
    BY <2>1, NextFree
  <2> QED BY <2>1, <2>2, SlotFacts DEF MsgInv
<1> QED BY <1>1, <1>2, NextPids

-----------------------------------------------------------------------------
\* MsgInv holds again if the calls that pend after the step have their failure
\* code and, if they are receives from one process, its pid.
LEMMA KeepMsgInv ==
    ASSUME IInv, MsgInv, Next,
           DOMAIN ret' = Procs, DOMAIN buffer' = Procs, DOMAIN from_pid' = Procs,
           \A p \in Slots : curr_state'[p] = BLOCKED /\ blocking_queue_name'[p] = SENDER
               => ret'[p] = SYSPID_DNE,
           \A p \in Slots : curr_state'[p] = BLOCKED /\ blocking_queue_name'[p] = RECEIVER
               => /\ ret'[p] = SYSPID_DNE
                  /\ blocking_proc'[p] \in Slots /\ curr_state[blocking_proc'[p]] # STOPPED
                  /\ from_pid'[p] = pid[blocking_proc'[p]]
    PROVE  MsgInv'
BY PidsKept DEF MsgInv, FailureChosen, PeerNamed

\* What a pending receive from one process is known to satisfy.
LEMMA PeerAlive ==
    ASSUME IInv, NEW p \in Slots, curr_state[p] = BLOCKED, blocking_queue_name[p] \in Queues
    PROVE  blocking_proc[p] \in Slots /\ curr_state[blocking_proc[p]] # STOPPED
BY IInvTypes, SlotFacts DEF IInv, BlockersMatchStates, NoOrphans

\* A pending call whose fields stay the same is pending still, the same call.
LEMMA CallStays ==
    ASSUME IInv, IInv', SigInv, Next, NEW p \in Slots, InCall(p),
           blocking_queue_name'[p] = blocking_queue_name[p]
    PROVE  StaysBlocked(p) /\ InCall(p)' /\ call'[p] = call[p]
<1> USE SlotFacts
<1>1. p # currproc
  BY IInvTypes DEF InCall
<1>2. curr_state'[p] \in ProcStates /\ curr_state'[p] # STOPPED
  BY <1>1, NextStopped DEF InCall, IInv, StructTypes
<1>3. curr_state'[p] = BLOCKED
  BY <1>2 DEF InCall, IInv, BlockersMatchStates, ProcStates
<1>4. StaysBlocked(p)
  BY <1>1, <1>3, NextBlocked DEF BlockedAfter, SigInv
<1>5. InCall(p)'
  BY <1>3, <1>4 DEF InCall, StaysBlocked
<1> QED BY <1>4, <1>5 DEF StaysBlocked, InCall, call

\* A step in which nobody makes or ends a send or a receive.
LEMMA QuietStep ==
    ASSUME IInv, IInv', SigInv, MsgInv, Next, UNCHANGED <<buffer, from_pid>>, DOMAIN ret' = Procs,
           \A p \in Slots : InCall(p) => /\ blocking_queue_name'[p] = blocking_queue_name[p]
                                         /\ ret'[p] = ret[p],
           \A p \in Slots : p = currproc => ~InCall(p)'
    PROVE  MsgInv' /\ UNCHANGED <<call, buffer, from_pid>>
<1> USE SlotFacts
<1>1. \A p \in Slots : InCall(p) => StaysBlocked(p) /\ InCall(p)' /\ call'[p] = call[p]
  BY CallStays
<1>2. \A p \in Slots : InCall(p)' => InCall(p)
  <2>1. BlockedAfter
    BY NextBlocked DEF SigInv
  <2> QED BY <2>1 DEF BlockedAfter, StaysBlocked, InCall
<1>3. \A p \in Slots : call'[p] = call[p]
  <2> SUFFICES ASSUME NEW p \in Slots PROVE call'[p] = call[p]
    OBVIOUS
  <2>1. CASE InCall(p)
    BY <2>1, <1>1
  <2>2. CASE ~InCall(p)
    <3>1. call[p] = R!NoCall
      BY <2>2, CallFacts
    <3>2. call'[p] = R!NoCall
      BY <2>2, <1>2, CallFactsNext
    <3> QED BY <3>1, <3>2
  <2> QED BY <2>1, <2>2
<1>4. call' = call
  BY <1>3, CallIsFunction
<1>5. MsgInv'
  <2>1. ASSUME NEW p \in Slots, curr_state'[p] = BLOCKED, blocking_queue_name'[p] \in {SENDER, RECEIVER}
        PROVE  /\ ret'[p] = SYSPID_DNE
               /\ blocking_queue_name'[p] = RECEIVER =>
                    /\ blocking_proc'[p] \in Slots /\ curr_state[blocking_proc'[p]] # STOPPED
                    /\ from_pid'[p] = pid[blocking_proc'[p]]
    <3>1. InCall(p) /\ StaysBlocked(p) /\ ret'[p] = ret[p]
      BY <2>1, <1>1, <1>2 DEF InCall
    <3> QED BY <2>1, <3>1, PeerAlive DEF StaysBlocked, MsgInv, FailureChosen, PeerNamed, Queues
  <2> QED BY <2>1, KeepMsgInv DEF MsgInv
<1> QED BY <1>4, <1>5

\* A step that ends the calls of some processes with a failure and writes to
\* nobody's memory but the running process's.
LEMMA CancelStep ==
    ASSUME IInv, IInv', SigInv, MsgInv, Next, currproc \in Slots, NEW S \in SUBSET Slots,
           DOMAIN ret' = Procs, DOMAIN buffer' = Procs, DOMAIN from_pid' = Procs,
           \A p \in Slots \ {currproc} : buffer'[p] = buffer[p] /\ from_pid'[p] = from_pid[p],
           \A p \in Slots : p \in S => /\ InCall(p) /\ curr_state'[p] # BLOCKED
                                       /\ ret'[p] \in {SYSPID_DNE, PROC_SIGNALLED},
           \A p \in Slots : InCall(p) /\ p \notin S =>
               blocking_queue_name'[p] = blocking_queue_name[p] /\ ret'[p] = ret[p],
           \A p \in Slots : p = currproc => ~InCall(p)'
    PROVE  MsgInv' /\ Simulates
<1> USE SlotFacts
<1>1. ASSUME NEW p \in Slots, InCall(p), p \notin S
      PROVE  StaysBlocked(p) /\ InCall(p)' /\ call'[p] = call[p] /\ ret'[p] = ret[p]
  BY <1>1, CallStays
<1>2. ASSUME NEW p \in Slots, InCall(p)'
      PROVE  InCall(p) /\ p \notin S /\ p # currproc
  <2>1. BlockedAfter
    BY NextBlocked DEF SigInv
  <2> QED BY <1>2, <2>1 DEF BlockedAfter, StaysBlocked, InCall
<1>3. ASSUME NEW p \in Slots
      PROVE  call'[p] = IF p \in S THEN R!NoCall ELSE call[p]
  <2>1. CASE p \in S
    <3>1. ~InCall(p)'
      BY <2>1 DEF InCall
    <3> QED BY <2>1, <3>1, CallFactsNext
  <2>2. CASE p \notin S /\ InCall(p)
    BY <2>2, <1>1
  <2>3. CASE p \notin S /\ ~InCall(p)
    <3>1. call[p] = R!NoCall
      BY <2>3, CallFacts
    <3>2. call'[p] = R!NoCall
      BY <2>3, <1>2, CallFactsNext
    <3> QED BY <2>3, <3>1, <3>2
  <2> QED BY <2>1, <2>2, <2>3
<1>4. MsgInv'
  <2>1. ASSUME NEW p \in Slots, curr_state'[p] = BLOCKED, blocking_queue_name'[p] \in {SENDER, RECEIVER}
        PROVE  /\ ret'[p] = SYSPID_DNE
               /\ blocking_queue_name'[p] = RECEIVER =>
                    /\ blocking_proc'[p] \in Slots /\ curr_state[blocking_proc'[p]] # STOPPED
                    /\ from_pid'[p] = pid[blocking_proc'[p]]
    <3>1. InCall(p)'
      BY <2>1 DEF InCall
    <3>2. InCall(p) /\ p # currproc /\ StaysBlocked(p) /\ ret'[p] = ret[p]
      BY <3>1, <1>1, <1>2
    <3> QED BY <2>1, <3>2, PeerAlive DEF StaysBlocked, MsgInv, FailureChosen, PeerNamed, Queues
  <2> QED BY <2>1, KeepMsgInv
<1>5. R!Cancel(currproc)
  <2>1. call[currproc] = R!NoCall
    <3>1. ~InCall(currproc)
      BY IInvTypes DEF InCall
    <3> QED BY <3>1, CallFacts
  <2>2. S \in SUBSET {q \in Slots : call[q] # R!NoCall}
    BY CallFacts
  <2>3. call' = [q \in Slots |-> IF q \in S THEN R!NoCall ELSE call[q]]
    BY <1>3, CallIsFunction
  <2>4. \A q \in S : ret'[q] \in {SYSPID_DNE, PROC_SIGNALLED}
    OBVIOUS
  <2>5. R!Untouched(Slots \ {currproc})
    BY DEF R!Untouched
  <2> QED BY <2>1, <2>2, <2>3, <2>4, <2>5 DEF R!Cancel
<1> QED BY <1>4, <1>5 DEF Simulates, R!Next

\* The running process makes a call that waits: no other call of the kernel
\* matches it.
LEMMA PostStep ==
    ASSUME IInv, IInv', SigInv, MsgInv, Next, currproc \in Slots,
           DOMAIN ret' = Procs, DOMAIN buffer' = Procs, DOMAIN from_pid' = Procs,
           \A p \in Slots \ {currproc} : /\ buffer'[p] = buffer[p] /\ from_pid'[p] = from_pid[p]
                                         /\ ret'[p] = ret[p]
                                         /\ blocking_queue_name'[p] = blocking_queue_name[p],
           NEW c, call'[currproc] = c,
           \/ \E q \in Slots : c = R!Send(q)
           \/ \E q \in Slots \cup {NULL} : c = R!Recv(q),
           \A q \in Slots : ~R!Match(currproc, c, q, call[q]) /\ ~R!Match(q, call[q], currproc, c),
           \A p \in Slots : p = currproc =>
              /\ curr_state'[p] = BLOCKED
              /\ blocking_queue_name'[p] = SENDER => ret'[p] = SYSPID_DNE
              /\ blocking_queue_name'[p] = RECEIVER =>
                    /\ ret'[p] = SYSPID_DNE
                    /\ blocking_proc'[p] \in Slots /\ curr_state[blocking_proc'[p]] # STOPPED
                    /\ from_pid'[p] = pid[blocking_proc'[p]]
    PROVE  MsgInv' /\ Simulates
<1> USE SlotFacts
<1>1. ASSUME NEW p \in Slots, InCall(p)
      PROVE  p # currproc /\ StaysBlocked(p) /\ InCall(p)' /\ call'[p] = call[p]
  <2>1. p # currproc
    BY <1>1, IInvTypes DEF InCall
  <2> QED BY <1>1, <2>1, CallStays
<1>2. ASSUME NEW p \in Slots \ {currproc}, InCall(p)'
      PROVE  InCall(p)
  <2>1. BlockedAfter
    BY NextBlocked DEF SigInv
  <2> QED BY <1>2, <2>1 DEF BlockedAfter, StaysBlocked, InCall
<1>3. ASSUME NEW p \in Slots \ {currproc}
      PROVE  call'[p] = call[p]
  <2>1. CASE InCall(p)
    BY <2>1, <1>1
  <2>2. CASE ~InCall(p)
    <3>1. call[p] = R!NoCall
      BY <2>2, CallFacts
    <3>2. call'[p] = R!NoCall
      BY <2>2, <1>2, CallFactsNext
    <3> QED BY <3>1, <3>2
  <2> QED BY <2>1, <2>2
<1>4. MsgInv'
  <2>1. ASSUME NEW p \in Slots, curr_state'[p] = BLOCKED, blocking_queue_name'[p] \in {SENDER, RECEIVER}
        PROVE  /\ ret'[p] = SYSPID_DNE
               /\ blocking_queue_name'[p] = RECEIVER =>
                    /\ blocking_proc'[p] \in Slots /\ curr_state[blocking_proc'[p]] # STOPPED
                    /\ from_pid'[p] = pid[blocking_proc'[p]]
    <3>1. CASE p = currproc
      BY <2>1, <3>1
    <3>2. CASE p # currproc
      <4>1. InCall(p)'
        BY <2>1 DEF InCall
      <4>2. InCall(p) /\ StaysBlocked(p) /\ ret'[p] = ret[p]
        BY <3>2, <4>1, <1>1, <1>2
      <4> QED BY <2>1, <3>2, <4>2, PeerAlive DEF StaysBlocked, MsgInv, FailureChosen, PeerNamed, Queues
    <3> QED BY <3>1, <3>2
  <2> QED BY <2>1, KeepMsgInv
<1>5. R!Post(currproc, c)
  <2>1. call[currproc] = R!NoCall
    <3>1. ~InCall(currproc)
      BY IInvTypes DEF InCall
    <3> QED BY <3>1, CallFacts
  <2>2. call' = [call EXCEPT ![currproc] = c]
    BY <1>3, CallIsFunction
  <2>3. R!Untouched(Slots \ {currproc})
    BY DEF R!Untouched
  <2> QED BY <2>1, <2>2, <2>3 DEF R!Post
<1> QED BY <1>4, <1>5 DEF Simulates, R!Next

\* The running process completes the call of q.
LEMMA MeetStep ==
    ASSUME IInv, IInv', SigInv, MsgInv, Next, currproc \in Slots, NEW q \in Slots, InCall(q),
           DOMAIN ret' = Procs, DOMAIN buffer' = Procs, DOMAIN from_pid' = Procs,
           curr_state'[q] # BLOCKED,
           \A p \in Slots \ {q} : blocking_queue_name'[p] = blocking_queue_name[p],
           \A p \in Slots \ {q, currproc} : ret'[p] = ret[p] /\ from_pid'[p] = from_pid[p],
           \A p \in Slots : p = currproc => ~InCall(p)'
    PROVE  /\ MsgInv'
           /\ q # currproc /\ call[currproc] = R!NoCall
           /\ call' = [call EXCEPT ![q] = R!NoCall]
<1> USE SlotFacts
<1>0. q # currproc /\ ~InCall(currproc)
  BY IInvTypes DEF InCall
<1>1. ASSUME NEW p \in Slots, InCall(p), p # q
      PROVE  /\ StaysBlocked(p) /\ InCall(p)' /\ call'[p] = call[p]
             /\ ret'[p] = ret[p] /\ from_pid'[p] = from_pid[p]
  <2>1. p # currproc
    BY <1>1, IInvTypes DEF InCall
  <2> QED BY <1>1, <2>1, CallStays
<1>2. ASSUME NEW p \in Slots, InCall(p)'
      PROVE  InCall(p) /\ p # q
  <2>1. BlockedAfter
    BY NextBlocked DEF SigInv
  <2> QED BY <1>2, <2>1 DEF BlockedAfter, StaysBlocked, InCall
<1>3. ASSUME NEW p \in Slots
      PROVE  call'[p] = IF p = q THEN R!NoCall ELSE call[p]
  <2>1. CASE p = q
    <3>1. ~InCall(p)'
      BY <2>1 DEF InCall
    <3> QED BY <2>1, <3>1, CallFactsNext
  <2>2. CASE p # q /\ InCall(p)
    BY <2>2, <1>1
  <2>3. CASE p # q /\ ~InCall(p)
    <3>1. call[p] = R!NoCall
      BY <2>3, CallFacts
    <3>2. call'[p] = R!NoCall
      BY <2>3, <1>2, CallFactsNext
    <3> QED BY <2>3, <3>1, <3>2
  <2> QED BY <2>1, <2>2, <2>3
<1>4. MsgInv'
  <2>1. ASSUME NEW p \in Slots, curr_state'[p] = BLOCKED, blocking_queue_name'[p] \in {SENDER, RECEIVER}
        PROVE  /\ ret'[p] = SYSPID_DNE
               /\ blocking_queue_name'[p] = RECEIVER =>
                    /\ blocking_proc'[p] \in Slots /\ curr_state[blocking_proc'[p]] # STOPPED
                    /\ from_pid'[p] = pid[blocking_proc'[p]]
    <3>1. InCall(p)'
      BY <2>1 DEF InCall
    <3>2. InCall(p) /\ StaysBlocked(p) /\ ret'[p] = ret[p] /\ from_pid'[p] = from_pid[p]
      BY <3>1, <1>1, <1>2
    <3> QED BY <2>1, <3>2, PeerAlive DEF StaysBlocked, MsgInv, FailureChosen, PeerNamed, Queues
  <2> QED BY <2>1, KeepMsgInv
<1>5. call[currproc] = R!NoCall
  BY <1>0, CallFacts
<1>6. call' = [call EXCEPT ![q] = R!NoCall]
  BY <1>3, CallIsFunction
<1> QED BY <1>0, <1>4, <1>5, <1>6

-----------------------------------------------------------------------------
(* The handlers *)

\* Nobody in a send or a receive is asleep, so what sleep.c does to the delta
\* list touches no call.
LEMMA CallersAwake ==
    ASSUME IInv, NEW p \in Slots, InCall(p)
    PROVE  p \notin ToSet(sleeping) /\ \A i \in 1..Len(sleeping) : sleeping[i] # p
<1>1. ToSet(sleeping) = Asleep /\ sleeping \in Seq(Slots)
  BY IInvTypes, IInvLists DEF Lists
<1>2. p \notin Asleep
  BY DEF Asleep, InCall
<1>3. DOMAIN sleeping = 1..Len(sleeping)
  BY <1>1
<1> QED BY <1>1, <1>2, <1>3 DEF ToSet

\* The clock ends no send and no receive.
LEMMA TimerMsg ==
    ASSUME IInv, IInv', SigInv, MsgInv, Next, timer_handler
    PROVE  MsgInv' /\ Simulates
<1> USE SlotFacts
<1> DEFINE woken == SubSeq(sleeping, 1, expired)
<1>1. UNCHANGED <<buffer, from_pid>>
  BY DEF timer_handler, Asserting, userVars
<1>2. \A p \in Slots : p = currproc => ~InCall(p)'
  <2>1. curr_state'[currproc] # BLOCKED
    <3>1. CASE UNCHANGED pcbVars
      BY <3>1, IInvTypes DEF pcbVars
    <3>2. CASE \E r : get_next_proc(r, [p \in Procs |->
                                          IF p = currproc \/ p \in ToSet(woken) THEN READY
                                          ELSE curr_state[p]])
      BY <3>2, IInvTypes DEF get_next_proc
    <3> QED BY <3>1, <3>2 DEF timer_handler, Asserting
  <2> QED BY <2>1 DEF InCall
<1>3. DOMAIN ret' = Procs
  BY DEF timer_handler, Asserting, MsgInv
<1>4. ASSUME NEW p \in Slots, InCall(p)
      PROVE  blocking_queue_name'[p] = blocking_queue_name[p] /\ ret'[p] = ret[p]
  <2>1. p \notin ToSet(sleeping)
    BY <1>4, CallersAwake
  <2>2. p \notin ToSet(woken)
    <3>1. sleeping \in Seq(Slots) /\ Lists(sleeping, Asleep) /\ Asleep = ToSet(sleeping)
      BY IInvTypes, IInvLists DEF Lists
    <3>2. ToSet(woken) \subseteq Asleep
      BY <3>1, ExpiredRange, CutLists
    <3> QED BY <2>1, <3>1, <3>2
  <2> HIDE DEF woken
  <2>3. CASE UNCHANGED <<pcbVars, ret>>
    BY <2>3 DEF pcbVars
  <2>4. CASE /\ blocking_queue_name' = [x \in Procs |-> IF x \in ToSet(woken) THEN NO_BLOCKER
                                                        ELSE blocking_queue_name[x]]
             /\ ret' = [x \in Procs |-> IF x \in ToSet(woken) THEN ticked(x) * TICK_LENGTH_IN_MS
                                        ELSE IF x \in ToSet(sleeping) THEN ticked(x) ELSE ret[x]]
    BY <2>1, <2>2, <2>4
  <2> QED BY <2>3, <2>4 DEF timer_handler, Asserting, woken
<1> QED BY <1>1, <1>2, <1>3, <1>4, QuietStep DEF Simulates

\* A process that goes to sleep neither sends nor receives.
LEMMA SleepMsg ==
    ASSUME IInv, IInv', SigInv, MsgInv, Next, NEW milliseconds, sleep(milliseconds)
    PROVE  MsgInv' /\ Simulates
<1> USE SlotFacts
<1> DEFINE i == insert_position(ticks(milliseconds))
           delta == ticks(milliseconds) - ticks_until[i - 1]
<1>1. /\ UNCHANGED <<buffer, from_pid>>
      /\ ret' = inserted_ret(i, delta)
      /\ blocking_queue_name' = [blocking_queue_name EXCEPT ![currproc] = SLEEP]
  BY DEF sleep, userVars
<1>2. \A p \in Slots : p = currproc => ~InCall(p)'
  BY <1>1, IInvTypes DEF InCall
<1>3. DOMAIN ret' = Procs
  BY <1>1 DEF inserted_ret
<1>4. i \in 1..(Len(sleeping) + 1)
  BY InsertRange
<1> HIDE DEF i, delta
<1>5. ASSUME NEW p \in Slots, InCall(p)
      PROVE  blocking_queue_name'[p] = blocking_queue_name[p] /\ ret'[p] = ret[p]
  <2>1. p # currproc
    BY <1>5, IInvTypes DEF InCall
  <2>2. Len(sleeping) \in Nat
    BY IInvTypes
  <2>3. i <= Len(sleeping) => sleeping[i] # p
    BY <1>4, <1>5, <2>2, CallersAwake
  <2> QED BY <1>1, <2>1, <2>3, IInvTypes DEF inserted_ret
<1> QED BY <1>1, <1>2, <1>3, <1>5, QuietStep DEF Simulates

\* A signal ends at most one call, and not with success.
LEMMA KillMsg ==
    ASSUME IInv, IInv', SigInv, MsgInv, Next, currproc \in Slots,
           NEW proc \in Slots, NEW signal, set_proc_signal(proc, signal)
    PROVE  MsgInv' /\ Simulates
<1> USE SlotFacts
<1>0. UNCHANGED <<buffer, from_pid>> /\ currproc' = currproc /\ curr_state[currproc] = RUNNING
  BY IInvTypes DEF set_proc_signal, resolve_blocking, Asserting, userVars, listVars
<1>c. \A p \in Slots : p = currproc => ~InCall(p)'
  BY <1>0 DEF InCall, IInv, OneRunning
<1>1. CASE /\ UNCHANGED pcbVars
           /\ ret' = [ret EXCEPT ![currproc] = 0] \/ ret' = ret
  <2>1. DOMAIN ret' = Procs /\ \A p \in Slots : InCall(p) => ret'[p] = ret[p]
    BY <1>1, <1>0 DEF MsgInv, InCall
  <2> QED BY <1>0, <1>c, <1>1, <2>1, QuietStep DEF Simulates, pcbVars
<1>2. CASE curr_state[proc] = BLOCKED /\ resolve_blocking(proc)
  <2>1. /\ blocking_queue_name' = [blocking_queue_name EXCEPT ![proc] = NO_BLOCKER]
        /\ ret' = [interrupted_ret(proc) EXCEPT ![currproc] = 0]
        /\ curr_state' = [curr_state EXCEPT ![proc] = READY]
        /\ proc # currproc
    BY <1>0, <1>2 DEF resolve_blocking
  <2>2. CASE blocking_queue_name[proc] = SLEEP
    <3> DEFINE i == CHOOSE j \in DOMAIN sleeping : sleeping[j] = proc
    <3>1. interrupted_ret(proc) = woken_ret(proc)
      BY <2>2 DEF interrupted_ret
    <3>2. i \in DOMAIN sleeping /\ DOMAIN sleeping = 1..Len(sleeping) /\ Len(sleeping) \in Nat
      <4>1. proc \in ToSet(sleeping)
        BY <1>2, <2>2, IInvLists DEF Lists, Asleep
      <4>2. \E j \in DOMAIN sleeping : sleeping[j] = proc
        BY <4>1 DEF ToSet
      <4> QED BY <4>2, IInvTypes
    <3> HIDE DEF i
    <3>3. ASSUME NEW p \in Slots, InCall(p)
          PROVE  blocking_queue_name'[p] = blocking_queue_name[p] /\ ret'[p] = ret[p]
      <4>1. p # proc /\ p # currproc
        BY <2>2, <3>3, <1>0 DEF InCall
      <4>2. i < Len(sleeping) => sleeping[i + 1] # p
        BY <3>2, <3>3, CallersAwake
      <4> QED BY <2>1, <3>1, <4>1, <4>2, IInvTypes DEF woken_ret, i
    <3>4. DOMAIN ret' = Procs
      BY <2>1, <3>1 DEF woken_ret
    <3> QED BY <1>0, <1>c, <3>3, <3>4, QuietStep DEF Simulates
  <2>3. CASE blocking_queue_name[proc] # SLEEP
    <3>1. PICK code : /\ interrupted_ret(proc) = [ret EXCEPT ![proc] = code]
                      /\ InCall(proc) => code = PROC_SIGNALLED
      BY <2>3 DEF interrupted_ret, InCall
    <3>2. DOMAIN ret' = Procs /\ ret'[proc] = code
          /\ \A p \in Slots \ {proc, currproc} : ret'[p] = ret[p]
      BY <2>1, <3>1 DEF MsgInv
    <3>3. \A p \in Slots \ {proc} : blocking_queue_name'[p] = blocking_queue_name[p]
      BY <2>1, IInvTypes
    <3>4. \A p \in Slots : InCall(p) => p # currproc
      BY <1>0 DEF InCall
    <3>5. CASE InCall(proc)
      <4> DEFINE S == {proc}
      <4>1. \A p \in Slots : p \in S => /\ InCall(p) /\ curr_state'[p] # BLOCKED
                                        /\ ret'[p] \in {SYSPID_DNE, PROC_SIGNALLED}
        BY <2>1, <3>1, <3>2, <3>5, IInvTypes
      <4>2. \A p \in Slots : InCall(p) /\ p \notin S =>
               blocking_queue_name'[p] = blocking_queue_name[p] /\ ret'[p] = ret[p]
        BY <3>2, <3>3, <3>4
      <4>3. S \in SUBSET Slots
        OBVIOUS
      <4>4. DOMAIN buffer' = Procs /\ DOMAIN from_pid' = Procs
        BY <1>0 DEF MsgInv
      <4> HIDE DEF S
      <4> QED BY <1>0, <1>c, <3>2, <4>1, <4>2, <4>3, <4>4, CancelStep
    <3>6. CASE ~InCall(proc)
      <4>1. \A p \in Slots : InCall(p) => /\ blocking_queue_name'[p] = blocking_queue_name[p]
                                          /\ ret'[p] = ret[p]
        BY <3>2, <3>3, <3>4, <3>6
      <4> QED BY <1>0, <1>c, <3>2, <4>1, QuietStep DEF Simulates
    <3> QED BY <3>5, <3>6
  <2> QED BY <2>2, <2>3
<1> QED BY <1>1, <1>2 DEF set_proc_signal, Asserting

\* A call that answers at once: only the return value of the caller changes.
LEMMA AnswerMsg ==
    ASSUME IInv, IInv', SigInv, MsgInv, Next, UNCHANGED <<pcbVars, userVars>>,
           DOMAIN ret' = Procs, \A p \in Procs \ {currproc} : ret'[p] = ret[p]
    PROVE  MsgInv' /\ Simulates
<1> USE SlotFacts
<1>1. UNCHANGED <<buffer, from_pid, curr_state, blocking_queue_name>>
  BY DEF pcbVars, userVars
<1>2. \A p \in Slots : p = currproc => ~InCall(p)'
  BY <1>1, IInvTypes DEF InCall
<1>3. \A p \in Slots : InCall(p) => p # currproc
  BY IInvTypes DEF InCall
<1> QED BY <1>1, <1>2, <1>3, QuietStep DEF Simulates

\* The running process dies: the calls of everybody in its queues fail.
LEMMA CleanupMsg ==
    ASSUME IInv, IInv', SigInv, MsgInv, Next, currproc \in Slots, cleanup_proc
    PROVE  MsgInv' /\ Simulates
<1> USE SlotFacts
<1> DEFINE notified == UNION {ToSet(blocking_queue[currproc][q]) : q \in Queues}
           st == [w \in Procs |-> IF w = currproc THEN STOPPED
                                  ELSE IF w \in notified THEN READY ELSE curr_state[w]]
           S == {p \in Slots : InCall(p) /\ p \in notified}
<1>0. /\ \E r : get_next_proc(r, st)
      /\ blocking_queue_name' = [w \in Procs |-> IF w \in notified THEN NO_BLOCKER
                                                 ELSE blocking_queue_name[w]]
      /\ buffer' = [buffer EXCEPT ![currproc] = <<>>]
      /\ from_pid' = [from_pid EXCEPT ![currproc] = 0]
      /\ ret' = ret
  <2>1. halted' = halted
    BY CleanupAsserts
  <2>2. CASE /\ blocking_queue_name[currproc] = NO_BLOCKER
             /\ \A q \in Queues : \A w \in ToSet(blocking_queue[currproc][q]) :
                   /\ blocking_proc[w] = currproc /\ blocking_queue_name[w] = q
                   /\ curr_state[w] = BLOCKED
    BY <2>2 DEF cleanup_proc, Asserting
  <2>3. blocking_queue_name[currproc] = NO_BLOCKER
    BY IInvTypes DEF IInv, BlockersMatchStates
  <2>4. ASSUME NEW q \in Queues, NEW w \in ToSet(blocking_queue[currproc][q])
        PROVE  blocking_proc[w] = currproc /\ blocking_queue_name[w] = q /\ curr_state[w] = BLOCKED
    <3>1. w \in BlockedOn(currproc, q)
      BY <2>4, IInvLists DEF Lists
    <3> QED BY <3>1 DEF BlockedOn
  <2> QED BY <2>2, <2>3, <2>4
<1>1. \A p \in notified : blocking_queue_name[p] \in Queues /\ p \in Slots
  <2>1. ASSUME NEW q \in Queues, NEW p \in ToSet(blocking_queue[currproc][q])
        PROVE  blocking_queue_name[p] = q /\ p \in Slots
    <3>1. p \in BlockedOn(currproc, q)
      BY <2>1, IInvLists DEF Lists
    <3> QED BY <3>1 DEF BlockedOn
  <2> QED BY <2>1
<1>2. \A p \in Slots : p \in S => /\ InCall(p) /\ curr_state'[p] # BLOCKED
                                  /\ ret'[p] \in {SYSPID_DNE, PROC_SIGNALLED}
  <2> SUFFICES ASSUME NEW p \in S
               PROVE  /\ InCall(p) /\ curr_state'[p] # BLOCKED
                      /\ ret'[p] \in {SYSPID_DNE, PROC_SIGNALLED}
    OBVIOUS
  <2>1. InCall(p) /\ p \in notified /\ p \in Slots
    OBVIOUS
  <2>2. ret[p] = SYSPID_DNE
    BY <2>1, <1>1 DEF InCall, MsgInv, FailureChosen, Queues
  <2>3. st[p] # BLOCKED /\ DOMAIN st = Procs
    BY <2>1
  <2> HIDE DEF st
  <2>4. curr_state'[p] # BLOCKED
    BY <1>0, <2>1, <2>3, Scheduled
  <2> QED BY <1>0, <2>1, <2>2, <2>4
<1>3. \A p \in Slots : InCall(p) /\ p \notin S =>
         blocking_queue_name'[p] = blocking_queue_name[p] /\ ret'[p] = ret[p]
  BY <1>0
<1>4. \A p \in Slots : p = currproc => ~InCall(p)'
  <2>1. DOMAIN st = Procs /\ st[currproc] = STOPPED
    OBVIOUS
  <2> HIDE DEF st
  <2>2. curr_state'[currproc] # BLOCKED
    BY <1>0, <2>1, Scheduled
  <2> QED BY <2>2 DEF InCall
<1>5. /\ DOMAIN ret' = Procs /\ DOMAIN buffer' = Procs /\ DOMAIN from_pid' = Procs
      /\ \A p \in Slots \ {currproc} : buffer'[p] = buffer[p] /\ from_pid'[p] = from_pid[p]
  BY <1>0 DEF MsgInv
<1>6. S \in SUBSET Slots
  OBVIOUS
<1> HIDE DEF S
<1> QED BY <1>2, <1>3, <1>4, <1>5, <1>6, CancelStep

\* A process that gives the CPU away to block is BLOCKED after the step.
LEMMA BlocksSelf ==
    ASSUME IInv, currproc \in Slots, get_next_proc(ready, [curr_state EXCEPT ![currproc] = BLOCKED])
    PROVE  \A p \in Slots : p = currproc => curr_state'[p] = BLOCKED
<1> USE SlotFacts
<1> DEFINE next == IF ready = <<>> THEN IdleProc ELSE Head(ready)
<1>1. next # currproc
  <2>1. CASE ready # <<>>
    <3>1. Head(ready) = ready[1] /\ 1 \in DOMAIN ready
      BY <2>1, IInvTypes
    <3>2. Head(ready) \in InState(READY)
      BY <3>1, IInvLists DEF Lists, ToSet
    <3> QED BY <2>1, <3>2, IInvTypes DEF InState
  <2> QED BY <2>1, SlotFacts
<1>2. curr_state' = [[curr_state EXCEPT ![currproc] = BLOCKED] EXCEPT ![next] = RUNNING]
  BY DEF get_next_proc
<1> HIDE DEF next
<1> QED BY <1>1, <1>2, IInvTypes

\* syssend finds a receiver: the two calls meet.
LEMMA SendNowMsg ==
    ASSUME IInv, IInv', SigInv, MsgInv, Next, currproc \in Slots,
           NEW dest \in Slots, curr_state[dest] # STOPPED, NEW message, send_now(dest, message)
    PROVE  MsgInv' /\ Simulates
<1> USE SlotFacts
<1> DEFINE any == blocking_queue_name[dest] = RECEIVE_ANY
<1>1. receiver_waits(currproc, dest) /\ curr_state[dest] = BLOCKED
  BY PartnerAsserts DEF send_now, receiver_waits
<1>2. /\ blocking_queue_name' = [blocking_queue_name EXCEPT ![dest] = NO_BLOCKER]
      /\ from_pid' = [from_pid EXCEPT ![dest] = IF any THEN pid[currproc] ELSE @]
      /\ buffer' = [buffer EXCEPT ![currproc] = message, ![dest] = copied(@, message)]
      /\ ret' = [ret EXCEPT ![dest] = SYSPID_OK, ![currproc] = SYSPID_OK]
      /\ curr_state' = [curr_state EXCEPT ![dest] = READY]
  BY <1>1 DEF send_now, Asserting
<1>3. dest # currproc /\ InCall(dest)
  BY <1>1, IInvTypes DEF InCall, receiver_waits, blocked_in
<1>4. /\ DOMAIN ret' = Procs /\ DOMAIN buffer' = Procs /\ DOMAIN from_pid' = Procs
      /\ curr_state'[dest] # BLOCKED
      /\ \A p \in Slots \ {dest} : blocking_queue_name'[p] = blocking_queue_name[p]
      /\ \A p \in Slots \ {dest, currproc} : ret'[p] = ret[p] /\ from_pid'[p] = from_pid[p]
  BY <1>2, <1>3, IInvTypes DEF MsgInv
<1>5. \A p \in Slots : p = currproc => ~InCall(p)'
  BY <1>2, <1>3, IInvTypes DEF InCall
<1>6. /\ MsgInv' /\ call[currproc] = R!NoCall
      /\ call' = [call EXCEPT ![dest] = R!NoCall]
  BY <1>3, <1>4, <1>5, MeetStep
<1>7. R!MeetReceiver(currproc, dest)
  <2>1. R!Match(currproc, R!Send(dest), dest, call[dest])
    <3>1. CASE any
      BY <3>1, <1>3, CallFacts DEF R!Match
    <3>2. CASE ~any
      BY <3>2, <1>1, <1>3, CallFacts DEF R!Match, receiver_waits, blocked_in
    <3> QED BY <3>1, <3>2
  <2>2. buffer'[currproc] = message /\ buffer'[dest] = copied(buffer[dest], message)
    BY <1>2, <1>3 DEF MsgInv
  <2>3. from_pid'[dest] = pid[currproc]
    <3>1. CASE any
      BY <3>1, <1>2 DEF MsgInv
    <3>2. CASE ~any
      <4>1. from_pid[dest] = pid[currproc]
        BY <3>2, <1>1 DEF receiver_waits, blocked_in, MsgInv, PeerNamed
      <4> QED BY <3>2, <4>1, <1>2 DEF MsgInv
    <3> QED BY <3>1, <3>2
  <2>4. ret'[currproc] = SYSPID_OK /\ ret'[dest] = SYSPID_OK
    BY <1>2, <1>3 DEF MsgInv
  <2>5. R!Untouched(Slots \ {currproc, dest})
    BY <1>2, <1>3 DEF R!Untouched, MsgInv
  <2> QED BY <1>6, <2>1, <2>2, <2>3, <2>4, <2>5 DEF R!MeetReceiver
<1> QED BY <1>6, <1>7 DEF Simulates, R!Next

\* What block_on does to the fields that the calls are made of.
LEMMA BlockOnFields ==
    ASSUME IInv, IInv', SigInv, MsgInv, currproc \in Slots, NEW owner \in Slots,
           NEW queue \in {SENDER, RECEIVER}, block_on(owner, queue, SYSPID_DNE)
    PROVE  /\ DOMAIN ret' = Procs
           /\ \A p \in Slots \ {currproc} : /\ ret'[p] = ret[p]
                                            /\ blocking_queue_name'[p] = blocking_queue_name[p]
           /\ \A p \in Slots : p = currproc =>
                /\ curr_state'[p] = BLOCKED /\ blocking_queue_name'[p] = queue
                /\ blocking_proc'[p] = owner /\ ret'[p] = SYSPID_DNE
                /\ call'[p] = IF queue = SENDER THEN R!Send(owner) ELSE R!Recv(owner)
<1> USE SlotFacts
<1>1. /\ blocking_proc' = [blocking_proc EXCEPT ![currproc] = owner]
      /\ blocking_queue_name' = [blocking_queue_name EXCEPT ![currproc] = queue]
      /\ ret' = [ret EXCEPT ![currproc] = SYSPID_DNE]
      /\ get_next_proc(ready, [curr_state EXCEPT ![currproc] = BLOCKED])
  BY DEF block_on
<1>2. /\ DOMAIN ret' = Procs
      /\ \A p \in Slots \ {currproc} : /\ ret'[p] = ret[p]
                                       /\ blocking_queue_name'[p] = blocking_queue_name[p]
  BY <1>1, IInvTypes DEF MsgInv
<1>3. ASSUME NEW p \in Slots, p = currproc
      PROVE  /\ curr_state'[p] = BLOCKED /\ blocking_queue_name'[p] = queue
             /\ blocking_proc'[p] = owner /\ ret'[p] = SYSPID_DNE
             /\ call'[p] = IF queue = SENDER THEN R!Send(owner) ELSE R!Recv(owner)
  <2>1. /\ curr_state'[p] = BLOCKED /\ blocking_queue_name'[p] = queue
        /\ blocking_proc'[p] = owner /\ ret'[p] = SYSPID_DNE
    BY <1>1, <1>3, BlocksSelf, IInvTypes DEF MsgInv
  <2>2. InCall(p)'
    BY <2>1 DEF InCall
  <2>3. call'[p] = IF queue = SENDER THEN R!Send(owner) ELSE R!Recv(owner)
    BY <2>1, <2>2, CallFactsNext
  <2> QED BY <2>1, <2>3
<1> QED BY <1>2, <1>3

\* syssend finds no receiver: the call is posted.
LEMMA SendBlocksMsg ==
    ASSUME IInv, IInv', SigInv, MsgInv, Next, currproc \in Slots,
           NEW dest \in Slots, curr_state[dest] # STOPPED, NEW message, send_blocks(dest, message)
    PROVE  MsgInv' /\ Simulates
<1> USE SlotFacts
<1> DEFINE c == R!Send(dest)
<1>1. /\ ~receiver_waits(currproc, dest) /\ block_on(dest, SENDER, SYSPID_DNE)
      /\ buffer' = [buffer EXCEPT ![currproc] = message] /\ from_pid' = from_pid
  BY DEF send_blocks
<1>2. /\ DOMAIN ret' = Procs
      /\ \A p \in Slots \ {currproc} : /\ ret'[p] = ret[p]
                                       /\ blocking_queue_name'[p] = blocking_queue_name[p]
      /\ \A p \in Slots : p = currproc =>
            /\ curr_state'[p] = BLOCKED /\ blocking_queue_name'[p] = SENDER
            /\ ret'[p] = SYSPID_DNE /\ call'[p] = c
  BY <1>1, BlockOnFields
<1>3. /\ DOMAIN buffer' = Procs /\ DOMAIN from_pid' = Procs
      /\ \A p \in Slots \ {currproc} : buffer'[p] = buffer[p] /\ from_pid'[p] = from_pid[p]
  BY <1>1 DEF MsgInv
<1>4. ASSUME NEW q \in Slots
      PROVE  ~R!Match(currproc, c, q, call[q]) /\ ~R!Match(q, call[q], currproc, c)
  <2>1. ~R!Match(q, call[q], currproc, c)
    BY DEF R!Match, R!Send, R!Recv
  <2>2. ASSUME R!Match(currproc, c, q, call[q]) PROVE FALSE
    <3>1. q = dest /\ call[q] \in {R!Recv(currproc), R!Recv(NULL)}
      BY <2>2 DEF R!Match, R!Send
    <3>2. \/ InCall(q) /\ blocking_queue_name[q] = RECEIVER /\ blocking_proc[q] = currproc
          \/ InCall(q) /\ blocking_queue_name[q] = RECEIVE_ANY
      <4>1. InCall(q) /\ blocking_queue_name[q] # SENDER
        BY <3>1, CallFacts, CallsDiffer
      <4>2. CASE blocking_queue_name[q] = RECEIVER
        <5>1. blocking_proc[q] \in Slots
          BY <4>1, <4>2, PeerAlive DEF InCall, Queues
        <5>2. R!Recv(blocking_proc[q]) \in {R!Recv(currproc), R!Recv(NULL)}
          BY <3>1, <4>1, <4>2, CallFacts
        <5> QED BY <4>1, <4>2, <5>1, <5>2, CallsDiffer
      <4> QED BY <4>1, <4>2 DEF InCall
    <3> QED BY <1>1, <3>1, <3>2 DEF receiver_waits, blocked_in
  <2> QED BY <2>1, <2>2
<1>5. \E q \in Slots : c = R!Send(q)
  OBVIOUS
<1>6. call'[currproc] = c
  BY <1>2
<1> HIDE DEF c
<1> QED BY <1>2, <1>3, <1>4, <1>5, <1>6, PostStep

\* sysrecv finds a sender: the two calls meet.
LEMMA RecvNowMsg ==
    ASSUME IInv, IInv', SigInv, MsgInv, Next, currproc \in Slots,
           NEW src \in Slots, blocked_in(src, currproc, SENDER), NEW len \in Nat, recv_now(src, len)
    PROVE  MsgInv' /\ Simulates
<1> USE SlotFacts
<1>1. curr_state[src] = BLOCKED
  BY PartnerAsserts
<1>2. /\ blocking_queue_name' = [blocking_queue_name EXCEPT ![src] = NO_BLOCKER]
      /\ from_pid' = [from_pid EXCEPT ![currproc] = pid[src]]
      /\ buffer' = [buffer EXCEPT ![currproc] = copied(Blank(len), buffer[src])]
      /\ ret' = [ret EXCEPT ![src] = SYSPID_OK, ![currproc] = SYSPID_OK]
      /\ curr_state' = [curr_state EXCEPT ![src] = READY]
  BY <1>1 DEF recv_now, Asserting
<1>3. src # currproc /\ InCall(src)
  BY <1>1, IInvTypes DEF InCall, blocked_in
<1>4. /\ DOMAIN ret' = Procs /\ DOMAIN buffer' = Procs /\ DOMAIN from_pid' = Procs
      /\ curr_state'[src] # BLOCKED
      /\ \A p \in Slots \ {src} : blocking_queue_name'[p] = blocking_queue_name[p]
      /\ \A p \in Slots \ {src, currproc} : ret'[p] = ret[p] /\ from_pid'[p] = from_pid[p]
  BY <1>2, <1>3, IInvTypes DEF MsgInv
<1>5. \A p \in Slots : p = currproc => ~InCall(p)'
  BY <1>2, <1>3, IInvTypes DEF InCall
<1>6. /\ MsgInv' /\ call[currproc] = R!NoCall
      /\ call' = [call EXCEPT ![src] = R!NoCall]
  BY <1>3, <1>4, <1>5, MeetStep
<1>7. R!MeetSender(currproc, src)
  <2>1. call[src] = R!Send(currproc)
    BY <1>3, CallFacts DEF blocked_in
  <2>2. buffer'[currproc] = copied(Blank(len), buffer[src])
    BY <1>2 DEF MsgInv
  <2>3. Len(buffer'[currproc]) = len
    BY <2>2 DEF copied, strncpy, Blank
  <2>4. from_pid'[currproc] = pid[src]
    BY <1>2 DEF MsgInv
  <2>5. ret'[currproc] = SYSPID_OK /\ ret'[src] = SYSPID_OK
    BY <1>2, <1>3 DEF MsgInv
  <2>6. R!Untouched(Slots \ {currproc})
    BY <1>2, <1>3 DEF R!Untouched, MsgInv
  <2> QED BY <1>6, <2>1, <2>2, <2>3, <2>4, <2>5, <2>6 DEF R!MeetSender
<1> QED BY <1>6, <1>7 DEF Simulates, R!Next

\* A call that is a send to the running process: its sender is in the queue.
LEMMA SendersQueued ==
    ASSUME IInv, currproc \in Slots, NEW q \in Slots, call[q] = R!Send(currproc)
    PROVE  blocked_in(q, currproc, SENDER) /\ q \in ToSet(blocking_queue[currproc][SENDER])
<1>1. InCall(q) /\ blocking_queue_name[q] = SENDER
  BY CallFacts, CallsDiffer DEF InCall
<1>2. blocking_proc[q] = currproc
  BY <1>1, CallFacts, CallsDiffer
<1>3. q \in BlockedOn(currproc, SENDER)
  BY <1>1, <1>2 DEF BlockedOn, InCall
<1> QED BY <1>1, <1>2, <1>3, IInvLists DEF blocked_in, Lists, Queues

\* sysrecv from one process finds no sender: the call is posted.
LEMMA RecvBlocksMsg ==
    ASSUME IInv, IInv', SigInv, MsgInv, Next, currproc \in Slots,
           NEW src \in Slots, curr_state[src] # STOPPED, ~blocked_in(src, currproc, SENDER),
           block_on(src, RECEIVER, SYSPID_DNE),
           NEW memory, buffer' = [buffer EXCEPT ![currproc] = memory],
           from_pid' = [from_pid EXCEPT ![currproc] = pid[src]]
    PROVE  MsgInv' /\ Simulates
<1> USE SlotFacts
<1> DEFINE c == R!Recv(src)
<1>2. /\ DOMAIN ret' = Procs
      /\ \A p \in Slots \ {currproc} : /\ ret'[p] = ret[p]
                                       /\ blocking_queue_name'[p] = blocking_queue_name[p]
      /\ \A p \in Slots : p = currproc =>
            /\ curr_state'[p] = BLOCKED /\ blocking_queue_name'[p] = RECEIVER
            /\ blocking_proc'[p] = src /\ ret'[p] = SYSPID_DNE /\ call'[p] = c
  BY SMTT(30), BlockOnFields
<1>3. /\ DOMAIN buffer' = Procs /\ DOMAIN from_pid' = Procs
      /\ \A p \in Slots \ {currproc} : buffer'[p] = buffer[p] /\ from_pid'[p] = from_pid[p]
      /\ \A p \in Slots : p = currproc => from_pid'[p] = pid[src]
  BY DEF MsgInv
<1>4. ASSUME NEW q \in Slots
      PROVE  ~R!Match(currproc, c, q, call[q]) /\ ~R!Match(q, call[q], currproc, c)
  <2>1. ~R!Match(currproc, c, q, call[q])
    BY CallsDiffer DEF R!Match
  <2>2. ASSUME R!Match(q, call[q], currproc, c) PROVE FALSE
    <3>1. call[q] = R!Send(currproc) /\ q = src
      BY <2>2, CallsDiffer DEF R!Match
    <3> QED BY <3>1, SendersQueued
  <2> QED BY <2>1, <2>2
<1>5. \E q \in Slots \cup {NULL} : c = R!Recv(q)
  OBVIOUS
<1>6. call'[currproc] = c
  BY <1>2
<1> HIDE DEF c
<1> QED BY <1>2, <1>3, <1>4, <1>5, <1>6, PostStep

\* sysrecv from anyone: the first sender in the queue, or the call is posted.
LEMMA RecvAnyMsg ==
    ASSUME IInv, IInv', SigInv, MsgInv, Next, currproc \in Slots,
           NEW len \in Nat, recv_any(len)
    PROVE  MsgInv' /\ Simulates
<1> USE SlotFacts
<1> DEFINE senders == blocking_queue[currproc][SENDER]
<1>1. CASE senders # <<>> /\ recv_now(Head(senders), len) /\ blocked_in(Head(senders), currproc, SENDER)
  <2>1. senders \in Seq(Slots)
    BY IInvTypes DEF Queues
  <2> QED BY <1>1, <2>1, RecvNowMsg
<1>2. CASE Return(SYSERR_OTHER)
  BY <1>2, AnswerMsg DEF Return, MsgInv
<1>3. CASE /\ senders = <<>>
           /\ blocking_queue_name' = [blocking_queue_name EXCEPT ![currproc] = RECEIVE_ANY]
           /\ ret' = [ret EXCEPT ![currproc] = SYSPID_DNE]
           /\ buffer' = [buffer EXCEPT ![currproc] = Blank(len)]
           /\ from_pid' = [from_pid EXCEPT ![currproc] = 0]
           /\ get_next_proc(ready, [curr_state EXCEPT ![currproc] = BLOCKED])
  <2> DEFINE c == R!Recv(NULL)
  <2>1. /\ DOMAIN ret' = Procs /\ DOMAIN buffer' = Procs /\ DOMAIN from_pid' = Procs
        /\ \A p \in Slots \ {currproc} :
             /\ buffer'[p] = buffer[p] /\ from_pid'[p] = from_pid[p]
             /\ ret'[p] = ret[p] /\ blocking_queue_name'[p] = blocking_queue_name[p]
    BY <1>3, IInvTypes DEF MsgInv
  <2>2. ASSUME NEW p \in Slots, p = currproc
        PROVE  /\ curr_state'[p] = BLOCKED /\ blocking_queue_name'[p] = RECEIVE_ANY
               /\ call'[p] = c
    <3>1. curr_state'[p] = BLOCKED /\ blocking_queue_name'[p] = RECEIVE_ANY
      BY <1>3, <2>2, BlocksSelf, IInvTypes
    <3>2. InCall(p)'
      BY <3>1 DEF InCall
    <3> QED BY <3>1, <3>2, CallFactsNext
  <2>3. ASSUME NEW q \in Slots
        PROVE  ~R!Match(currproc, c, q, call[q]) /\ ~R!Match(q, call[q], currproc, c)
    <3>1. ~R!Match(currproc, c, q, call[q])
      BY CallsDiffer DEF R!Match
    <3>2. call[q] # R!Send(currproc)
      BY <1>3, SendersQueued, EmptyLists DEF ToSet
    <3> QED BY <3>1, <3>2 DEF R!Match
  <2>4. \E q \in Slots \cup {NULL} : c = R!Recv(q)
    OBVIOUS
  <2>5. call'[currproc] = c
    BY <2>2
  <2> HIDE DEF c
  <2> QED BY <2>1, <2>2, <2>3, <2>4, <2>5, PostStep
<1> QED BY <1>1, <1>2, <1>3 DEF recv_any

\* Creating a process, or failing to, changes the fields of a STOPPED pcb.
LEMMA CreateMsg ==
    ASSUME IInv, IInv', SigInv, MsgInv, Next, create \/ create_without_table
    PROVE  MsgInv' /\ Simulates
<1> USE SlotFacts
<1> DEFINE proc == Head(stopped)
<1>1. stopped # <<>> /\ UNCHANGED <<buffer, from_pid>>
  BY DEF create, create_without_table, Asserting, userVars
<1>2. proc \in Slots /\ curr_state[proc] = STOPPED
  BY <1>1, NextFree
<1>3. CASE UNCHANGED <<pcbVars, ret>>
  BY <1>1, <1>3, AnswerMsg DEF MsgInv, userVars
<1>4. CASE /\ curr_state' = [curr_state EXCEPT ![proc] = READY] \/ curr_state' = curr_state
           /\ \E b : blocking_queue_name' = [blocking_queue_name EXCEPT ![proc] = b]
           /\ \E code : ret' = [ret EXCEPT ![proc] = 0, ![currproc] = code]
  <2> HIDE DEF proc
  <2>1. DOMAIN ret' = Procs /\ \A p \in Procs \ {proc, currproc} : ret'[p] = ret[p]
    BY <1>4 DEF MsgInv
  <2>2. \A p \in Slots \ {proc} : blocking_queue_name'[p] = blocking_queue_name[p]
    BY <1>4, IInvTypes
  <2>3. \A p \in Slots : InCall(p) => p # proc /\ p # currproc
    BY <1>2, IInvTypes DEF InCall
  <2>4. \A p \in Slots : p = currproc => ~InCall(p)'
    BY <1>2, <1>4, IInvTypes DEF InCall
  <2> QED BY <1>1, <2>1, <2>2, <2>3, <2>4, QuietStep DEF Simulates
<1> QED BY <1>3, <1>4 DEF create, create_without_table, Asserting, pcbVars

\* Every step keeps MsgInv and is a step of Rendezvous or none at all.
LEMMA NextMsg ==
    ASSUME IInv, IInv', SigInv, MsgInv, Next
    PROVE  MsgInv' /\ Simulates
<1> USE SlotFacts
<1>r. ASSUME NEW code, Return(code) PROVE MsgInv' /\ Simulates
  BY <1>r, AnswerMsg DEF Return, MsgInv
<1>s. ASSUME NEW name, Syscall(name) PROVE currproc \in Slots
  BY <1>s, IInvTypes DEF Syscall
<1>b. ASSUME NEW p \in Int PROVE \/ pid_to_proc(p) = NULL
                                 \/ pid_to_proc(p) \in Slots /\ curr_state[pid_to_proc(p)] # STOPPED
  BY <1>b, PidToProc
<1>1. CASE ctsw_contextswitch
  BY <1>1, AnswerMsg DEF ctsw_contextswitch, MsgInv
<1>2. CASE timer_handler
  BY <1>2, TimerMsg
<1>3. CASE dispatch_syscall_create
  BY <1>3, <1>r, CreateMsg DEF dispatch_syscall_create
<1>4. CASE syscall_yield
  <2> DEFINE st == [curr_state EXCEPT ![currproc] = READY]
  <2>1. /\ get_next_proc(add_proc_to_queue(ready, currproc), st)
        /\ UNCHANGED <<buffer, from_pid, ret, blocking_queue_name>>
    BY <1>4 DEF syscall_yield, userVars
  <2>2. DOMAIN st = Procs /\ st[currproc] = READY
    BY IInvTypes
  <2> HIDE DEF st
  <2>3. \A p \in Slots : p = currproc => ~InCall(p)'
    BY <2>1, <2>2, Scheduled DEF InCall
  <2> QED BY <2>1, <2>3, QuietStep DEF Simulates, MsgInv
<1>5. CASE syscall_stop
  BY <1>5, <1>s, CleanupMsg DEF syscall_stop
<1>6. CASE syscall_getpid
  BY <1>6, <1>r DEF syscall_getpid
<1>7. CASE dispatch_syscall_kill
  <2>1. PICK target \in PidArgs, signal \in SignalArgs :
          \/ \E code : Return(code)
          \/ pid_to_proc(target) # NULL /\ set_proc_signal(pid_to_proc(target), signal)
    BY <1>7 DEF dispatch_syscall_kill
  <2>2. currproc \in Slots
    BY <1>7, <1>s DEF dispatch_syscall_kill
  <2> QED BY <2>1, <2>2, <1>r, <1>b, PidAssumption, KillMsg
<1>8. CASE dispatch_syscall_wait
  <2>1. PICK target \in PidArgs :
          \/ Return(SYSPID_DNE)
          \/ block_on(pid_to_proc(target), WAITING, 0) /\ UNCHANGED userVars
    BY <1>8 DEF dispatch_syscall_wait
  <2>2. ASSUME NEW owner, block_on(owner, WAITING, 0), UNCHANGED userVars
        PROVE  MsgInv' /\ Simulates
    <3>1. /\ blocking_queue_name' = [blocking_queue_name EXCEPT ![currproc] = WAITING]
          /\ ret' = [ret EXCEPT ![currproc] = 0] /\ UNCHANGED <<buffer, from_pid>>
      BY <2>2 DEF block_on, userVars
    <3>2. \A p \in Slots : p = currproc => ~InCall(p)'
      BY <3>1, IInvTypes DEF InCall
    <3>3. \A p \in Slots : InCall(p) => p # currproc
      BY IInvTypes DEF InCall
    <3>4. DOMAIN ret' = Procs /\ \A p \in Slots \ {currproc} :
             ret'[p] = ret[p] /\ blocking_queue_name'[p] = blocking_queue_name[p]
      BY <3>1, IInvTypes DEF MsgInv
    <3> QED BY <3>1, <3>2, <3>3, <3>4, QuietStep DEF Simulates
  <2> QED BY <2>1, <2>2, <1>r
<1>9. CASE dispatch_syscall_puts
  BY <1>9, AnswerMsg DEF dispatch_syscall_puts, Ignore, MsgInv
<1>10. CASE dispatch_syscall_send
  <2>1. PICK dest_pid \in PidArgs :
          \/ \E code : Return(code)
          \/ /\ pid_to_proc(dest_pid) # NULL
             /\ \E message \in Messages : \/ send_now(pid_to_proc(dest_pid), message)
                                          \/ send_blocks(pid_to_proc(dest_pid), message)
    BY <1>10 DEF dispatch_syscall_send
  <2>2. currproc \in Slots
    BY <1>10, <1>s DEF dispatch_syscall_send
  <2> QED BY <2>1, <2>2, <1>r, <1>b, PidAssumption, SendNowMsg, SendBlocksMsg
<1>11. CASE dispatch_syscall_recv
  <2>1. currproc \in Slots
    BY <1>11, <1>s DEF dispatch_syscall_recv
  <2>2. ASSUME NEW from \in PidArgs \cup {0}, pid_to_proc(from) # NULL, NEW len \in RecvLens,
               recv(pid_to_proc(from), len)
        PROVE  MsgInv' /\ Simulates
    <3>1. pid_to_proc(from) \in Slots /\ curr_state[pid_to_proc(from)] # STOPPED
      BY <2>2, <1>b, PidAssumption
    <3>2. len \in Nat
      BY BufferAssumption
    <3> QED BY <2>1, <2>2, <3>1, <3>2, RecvNowMsg, RecvBlocksMsg DEF recv
  <2>3. ASSUME NEW len \in RecvLens, recv_any(len) PROVE MsgInv' /\ Simulates
    BY <2>1, <2>3, RecvAnyMsg, BufferAssumption
  <2> QED BY <1>11, <1>r, <2>2, <2>3 DEF dispatch_syscall_recv
<1>12. CASE dispatch_syscall_sleep
  <2>1. CASE Ignore
    BY <2>1, AnswerMsg DEF Ignore, MsgInv
  <2> QED BY <1>12, <2>1, SleepMsg DEF dispatch_syscall_sleep
<1>13. CASE dispatch_syscall_getcputimes
  BY <1>13, <1>r, AnswerMsg DEF dispatch_syscall_getcputimes, Asserting, MsgInv
<1>14. CASE dispatch_syscall_sighandler
  BY <1>14, <1>r, AnswerMsg DEF dispatch_syscall_sighandler, MsgInv
<1>15. CASE dispatch_syscall_sigreturn
  <2>1. CASE sigreturn
    BY <2>1, AnswerMsg DEF sigreturn, MsgInv
  <2> QED BY <1>15, <1>s, <2>1, CleanupMsg DEF dispatch_syscall_sigreturn
<1> QED BY <1>1, <1>2, <1>3, <1>4, <1>5, <1>6, <1>7, <1>8, <1>9, <1>10, <1>11, <1>12,
           <1>13, <1>14, <1>15 DEF Next

-----------------------------------------------------------------------------
\* Initially nobody sends or receives, here and in Rendezvous.
LEMMA InitMsg == Init => MsgInv /\ R!Init
<1> SUFFICES ASSUME Init PROVE MsgInv /\ R!Init
  OBVIOUS
<1>1. \A p \in Slots : curr_state[p] # BLOCKED
  BY SlotFacts DEF Init
<1>2. MsgInv
  BY <1>1 DEF Init, MsgInv, FailureChosen, PeerNamed
<1> QED BY <1>1, <1>2 DEF R!Init, call, R!NoCall

\* The three invariants together.
AllInv == IInv /\ SigInv /\ MsgInv

\* Every step keeps the invariant and is a step of Rendezvous, or none.
LEMMA NextAllInv == AllInv /\ [Next]_vars => AllInv' /\ [R!Next]_<<call, buffer, from_pid>>
<1> SUFFICES ASSUME AllInv, [Next]_vars
             PROVE  AllInv' /\ [R!Next]_<<call, buffer, from_pid>>
  OBVIOUS
<1>1. IInv' /\ SigInv'
  BY NextIInv, NextSigInv DEF AllInv
<1>2. CASE Next
  BY <1>1, <1>2, NextMsg DEF AllInv, Simulates
<1>3. CASE UNCHANGED vars
  <2>1. UNCHANGED <<curr_state, blocking_queue_name, blocking_proc, ret, pid, buffer, from_pid>>
    BY <1>3 DEF vars, pcbVars, userVars
  <2>2. MsgInv'
    BY <2>1 DEF AllInv, MsgInv, FailureChosen, PeerNamed
  <2>3. UNCHANGED call
    BY <2>1 DEF call
  <2> QED BY <1>1, <2>1, <2>2, <2>3 DEF AllInv
<1> QED BY <1>2, <1>3

\* In every behaviour, a pending send or receive that its peer's death would
\* end returns SYSPID_DNE then, and a receive from one process has been told
\* that process's pid: what block_on and recv leave in the pcb and in user
\* memory is still there when the call ends.
THEOREM CallsKnowTheirEnd == Spec => []MsgInv
<1>1. Init => AllInv
  BY InitIInv, InitSigInv, InitMsg DEF AllInv
<1>2. AllInv /\ [Next]_vars => AllInv'
  BY NextAllInv
<1>3. AllInv => MsgInv
  BY DEF AllInv
<1> QED BY <1>1, <1>2, <1>3, PTL DEF Spec

\* The queues, states and return values of msg.c, pcb.c and disp.c implement
\* the rendezvous: a send and the receive it matches complete in one step,
\* with success for both and the message and the sender's pid in the
\* receiver's memory; a call ends otherwise only by a failure, which writes
\* nothing.
THEOREM MessagesRendezvous == Spec => ImplementsRendezvous
<1>1. Init => AllInv /\ R!Init
  BY InitIInv, InitSigInv, InitMsg DEF AllInv
<1>2. AllInv /\ [Next]_vars => AllInv' /\ [R!Next]_<<call, buffer, from_pid>>
  BY NextAllInv
<1> QED BY <1>1, <1>2, PTL DEF Spec, ImplementsRendezvous, R!Spec

-----------------------------------------------------------------------------
\* A property of the abstract specification: no two pending calls match.
NoMatch == \A s, d \in Slots : ~R!Match(s, call[s], d, call[d])

\* Whatever keeps the pending calls and takes some away keeps NoMatch.
LEMMA FewerCalls ==
    ASSUME NoMatch, \A p \in Slots : call'[p] \in {call[p], R!NoCall}
    PROVE  NoMatch'
<1> SUFFICES ASSUME NEW s \in Slots, NEW d \in Slots, R!Match(s, call'[s], d, call'[d])
             PROVE  FALSE
  BY DEF NoMatch, R!Match, R!Send, R!Recv
<1>1. call'[s] = R!Send(d) /\ call'[d] \in {R!Recv(s), R!Recv(NULL)}
  BY DEF R!Match
<1>2. call'[s] = call[s] /\ call'[d] = call[d]
  BY <1>1, CallsDiffer
<1> QED BY <1>1, <1>2 DEF NoMatch, R!Match

\* Rendezvous itself never leaves a send and its receive both waiting.
LEMMA RendezvousNoMatch ==
    ASSUME NoMatch, [R!Next]_<<call, buffer, from_pid>>
    PROVE  NoMatch'
<1>0. DOMAIN call = Slots
  BY DEF call
<1>1. CASE UNCHANGED call
  BY <1>1, FewerCalls
<1>2. ASSUME NEW p \in Slots, NEW c, R!Post(p, c) PROVE NoMatch'
  <2>1. \A q \in Slots : call'[q] = IF q = p THEN c ELSE call[q]
    BY <1>0, <1>2 DEF R!Post
  <2>2. \A q \in Slots : ~R!Match(p, c, q, call[q]) /\ ~R!Match(q, call[q], p, c)
    BY <1>2 DEF R!Post
  <2> SUFFICES ASSUME NEW s \in Slots, NEW d \in Slots, R!Match(s, call'[s], d, call'[d])
               PROVE  FALSE
    BY DEF NoMatch, R!Match, R!Send, R!Recv
  <2>3. ~(s = p /\ d = p)
    BY <2>1, CallsDiffer DEF R!Match
  <2>4. CASE s = p /\ d # p
    BY <2>1, <2>2, <2>4
  <2>5. CASE s # p /\ d = p
    BY <2>1, <2>2, <2>5
  <2>6. CASE s # p /\ d # p
    BY <2>1, <2>6 DEF NoMatch
  <2> QED BY <2>3, <2>4, <2>5, <2>6
<1>3. ASSUME NEW p \in Slots, NEW q \in Slots, R!MeetReceiver(p, q) \/ R!MeetSender(p, q)
      PROVE  NoMatch'
  <2>1. call' = [call EXCEPT ![q] = R!NoCall]
    BY <1>3 DEF R!MeetReceiver, R!MeetSender
  <2> QED BY <1>0, <2>1, FewerCalls
<1>4. ASSUME NEW p \in Slots, R!Cancel(p) PROVE NoMatch'
  <2>1. \A q \in Slots : call'[q] \in {call[q], R!NoCall}
    BY <1>4 DEF R!Cancel
  <2> QED BY <2>1, FewerCalls
<1> QED BY <1>1, <1>2, <1>3, <1>4 DEF R!Next

\* What a call that is blocked in the kernel is in the abstraction.
LEMMA NoMatchIsNoMiss == ASSUME IInv, NoMatch PROVE NoMissedRendezvous
<1> SUFFICES ASSUME NEW s \in Slots, NEW d \in Slots,
                    curr_state[s] = BLOCKED, blocked_in(s, d, SENDER),
                    curr_state[d] = BLOCKED,
                    blocking_queue_name[d] = RECEIVE_ANY \/ blocked_in(d, s, RECEIVER)
             PROVE  FALSE
  BY DEF NoMissedRendezvous
<1>1. call[s] = R!Send(d)
  BY CallFacts DEF InCall, blocked_in
<1>2. call[d] \in {R!Recv(s), R!Recv(NULL)}
  BY CallFacts DEF InCall, blocked_in
<1> QED BY <1>1, <1>2 DEF NoMatch, R!Match

\* In every behaviour, a send and the receive it matches never both stay
\* blocked.  It follows from the abstraction: Rendezvous never has two pending
\* calls that match, because whoever posts a call has looked for its match.
THEOREM NobodyMissesARendezvous == Spec => []NoMissedRendezvous
<1>1. Init => AllInv /\ NoMatch
  <2> SUFFICES ASSUME Init PROVE AllInv /\ NoMatch
    OBVIOUS
  <2>1. AllInv /\ R!Init
    BY InitIInv, InitSigInv, InitMsg DEF AllInv
  <2> QED BY <2>1, CallsDiffer DEF NoMatch, R!Init, R!Match
<1>2. AllInv /\ NoMatch /\ [Next]_vars => (AllInv /\ NoMatch)'
  BY NextAllInv, RendezvousNoMatch
<1>3. AllInv /\ NoMatch => NoMissedRendezvous
  BY NoMatchIsNoMiss DEF AllInv
<1> QED BY <1>1, <1>2, <1>3, PTL DEF Spec

-----------------------------------------------------------------------------
(* Sleep *)

\* The running sums of the values r of the elements of q.
Sums(q, r) == CHOOSE s : s = [i \in 0..Len(q) |-> IF i = 0 THEN 0 ELSE s[i - 1] + r[q[i]]]

\* ticks_until is the sums of the deltas along the list.
LEMMA TicksAreSums ==
    ticks_until = Sums(sleeping, ret) /\ ticks_until' = Sums(sleeping', ret')
BY DEF ticks_until, Sums

\* There is such a function, for a list of any length.
LEMMA SumsExist ==
    ASSUME NEW d, NEW n \in Nat
    PROVE  \E s : s = [i \in 0..n |-> IF i = 0 THEN 0 ELSE s[i - 1] + d[i]]
<1> DEFINE Is(s, m) == s = [i \in 0..m |-> IF i = 0 THEN 0 ELSE s[i - 1] + d[i]]
           T == {m \in Nat : \E s : Is(s, m)}
<1>1. 0 \in T
  <2>1. Is([i \in 0..0 |-> 0], 0)
    OBVIOUS
  <2> QED BY <2>1
<1>2. ASSUME NEW m \in Nat, m \in T PROVE m + 1 \in T
  <2>1. PICK s : Is(s, m)
    BY <1>2
  <2> DEFINE t == [i \in 0..(m + 1) |-> IF i = 0 THEN 0 ELSE s[i - 1] + d[i]]
  <2>2. s = [i \in 0..m |-> IF i = 0 THEN 0 ELSE s[i - 1] + d[i]]
    BY <2>1
  <2> HIDE DEF T, Is
  <2>3. ASSUME NEW i \in 0..(m + 1), i # 0 PROVE t[i - 1] = s[i - 1]
    <3>1. i - 1 \in 0..m /\ i - 1 \in 0..(m + 1)
      BY <1>2, <2>3
    <3>2. s[i - 1] = IF i - 1 = 0 THEN 0 ELSE s[(i - 1) - 1] + d[i - 1]
      BY <2>2, <3>1
    <3>3. t[i - 1] = IF i - 1 = 0 THEN 0 ELSE s[(i - 1) - 1] + d[i - 1]
      BY <3>1
    <3> QED BY <3>2, <3>3
  <2>4. \A i \in 0..(m + 1) : i # 0 => t[i - 1] = s[i - 1]
    BY <2>3
  <2>5. Is(t, m + 1)
    BY <2>4 DEF Is
  <2> HIDE DEF t
  <2>6. m + 1 \in Nat /\ \E x : Is(x, m + 1)
    BY <2>5, <1>2
  <2> QED BY <2>6 DEF T
<1> HIDE DEF T
<1>3. n \in T
  BY <1>1, <1>2, NatInduct
<1> QED BY <1>3 DEF T

\* What the sums satisfy.
LEMMA SumsSteps ==
    ASSUME NEW q, Len(q) \in Nat, NEW r, \A i \in 1..Len(q) : r[q[i]] \in Int
    PROVE  /\ Sums(q, r)[0] = 0
           /\ \A i \in 1..Len(q) : Sums(q, r)[i] = Sums(q, r)[i - 1] + r[q[i]]
           /\ \A i \in 0..Len(q) : Sums(q, r)[i] \in Int
<1> DEFINE n == Len(q)
           d == [i \in 1..n |-> r[q[i]]]
           s == Sums(q, r)
<1>1. \E f : f = [i \in 0..n |-> IF i = 0 THEN 0 ELSE f[i - 1] + r[q[i]]]
  <2>1. PICK f : f = [i \in 0..n |-> IF i = 0 THEN 0 ELSE f[i - 1] + d[i]]
    <3> HIDE DEF d
    <3> QED BY SumsExist
  <2>2. \A i \in 0..n : i # 0 => d[i] = r[q[i]]
    OBVIOUS
  <2>3. f = [i \in 0..n |-> IF i = 0 THEN 0 ELSE f[i - 1] + r[q[i]]]
    BY <2>1, <2>2
  <2> QED BY <2>3
<1>2. s = [i \in 0..n |-> IF i = 0 THEN 0 ELSE s[i - 1] + r[q[i]]]
  BY <1>1 DEF Sums
<1> HIDE DEF s
<1>3. s[0] = 0 /\ \A i \in 1..n : s[i] = s[i - 1] + r[q[i]]
  BY <1>2
<1> DEFINE T == {i \in Nat : i <= n => s[i] \in Int}
<1>4. 0 \in T
  BY <1>3
<1>5. \A i \in Nat : i \in T => i + 1 \in T
  <2> SUFFICES ASSUME NEW i \in Nat, i \in T, i + 1 <= n PROVE s[i + 1] \in Int
    OBVIOUS
  <2>1. i + 1 \in 1..n /\ (i + 1) - 1 = i /\ s[i] \in Int
    OBVIOUS
  <2> QED BY <2>1, <1>3
<1> HIDE DEF T
<1>6. \A i \in Nat : i \in T
  BY <1>4, <1>5, NatInduct
<1>7. \A i \in 0..n : s[i] \in Int
  BY <1>6 DEF T
<1> QED BY <1>3, <1>7 DEF s

\* Two sums with the same increments are the same.
LEMMA SumsEqual ==
    ASSUME NEW s, NEW t, NEW len \in Nat, s[0] = 0, t[0] = 0,
           \A i \in 1..len : \E d \in Int : s[i] = s[i - 1] + d /\ t[i] = t[i - 1] + d
    PROVE  \A i \in 0..len : t[i] = s[i] /\ s[i] \in Int
<1> DEFINE T == {i \in Nat : i <= len => t[i] = s[i] /\ s[i] \in Int}
<1>1. 0 \in T
  OBVIOUS
<1>2. ASSUME NEW i \in Nat, i \in T PROVE i + 1 \in T
  <2> SUFFICES ASSUME i + 1 <= len PROVE t[i + 1] = s[i + 1] /\ s[i + 1] \in Int
    BY <1>2
  <2>1. i + 1 \in 1..len /\ i <= len /\ (i + 1) - 1 = i
    BY <1>2
  <2>2. PICK d \in Int : s[i + 1] = s[i] + d /\ t[i + 1] = t[i] + d
    BY <2>1
  <2> QED BY <1>2, <2>1, <2>2
<1> HIDE DEF T
<1>3. \A i \in Nat : i \in T
  BY <1>1, <1>2, NatInduct
<1> QED BY <1>3 DEF T

\* The deltas of the sleepers q are never negative, and the first is positive.
Deltas(q, r) ==
    /\ r \in [Procs -> Int]
    /\ \A i \in 1..Len(q) : r[q[i]] >= 0
    /\ q # <<>> => r[q[1]] >= 1

\* The sums of such deltas.
LEMMA SumsGrow ==
    ASSUME NEW q \in Seq(Slots), NEW r, Deltas(q, r)
    PROVE  /\ Len(q) \in Nat /\ Sums(q, r)[0] = 0
           /\ \A i \in 1..Len(q) : /\ q[i] \in Slots /\ q[i] \in Procs
                                   /\ r[q[i]] \in Int /\ r[q[i]] >= 0
                                   /\ Sums(q, r)[i] = Sums(q, r)[i - 1] + r[q[i]]
                                   /\ Sums(q, r)[i] >= 1 /\ Sums(q, r)[i] >= r[q[i]]
           /\ \A i \in 0..Len(q) : Sums(q, r)[i] \in Nat
<1> DEFINE n == Len(q)
           s == Sums(q, r)
<1>1. n \in Nat /\ \A i \in 1..n : q[i] \in Slots /\ q[i] \in Procs
  BY SlotFacts
<1>2. \A i \in 1..n : r[q[i]] \in Int /\ r[q[i]] >= 0
  BY <1>1 DEF Deltas
<1>3. /\ s[0] = 0
      /\ \A i \in 1..n : s[i] = s[i - 1] + r[q[i]]
      /\ \A i \in 0..n : s[i] \in Int
  BY <1>1, <1>2, SumsSteps
<1> HIDE DEF s
<1>4. n # 0 => r[q[1]] >= 1
  BY <1>1 DEF Deltas
<1> DEFINE T == {i \in Nat : i + 1 <= n => s[i + 1] >= 1 /\ s[i + 1] >= r[q[i + 1]]}
<1> HIDE DEF n
<1>5. 0 \in T
  <2>1. n # 0 => s[1] = s[0] + r[q[1]] /\ r[q[1]] \in Int
    BY <1>1, <1>2, <1>3
  <2> QED BY <1>1, <1>3, <1>4, <2>1
<1>6. ASSUME NEW i \in Nat, i \in T PROVE i + 1 \in T
  <2> SUFFICES ASSUME (i + 1) + 1 <= n
               PROVE  s[(i + 1) + 1] >= 1 /\ s[(i + 1) + 1] >= r[q[(i + 1) + 1]]
    BY <1>6
  <2>1. i + 1 \in 0..n /\ (i + 1) + 1 \in 1..n /\ ((i + 1) + 1) - 1 = i + 1 /\ i + 1 <= n
    BY <1>1, <1>6
  <2>2. s[i + 1] >= 1 /\ s[i + 1] \in Int
    BY <1>3, <1>6, <2>1
  <2> QED BY <1>2, <1>3, <2>1, <2>2
<1> HIDE DEF T
<1>7. \A i \in Nat : i \in T
  BY <1>5, <1>6, NatInduct
<1>8. ASSUME NEW i \in 1..n PROVE s[i] >= 1 /\ s[i] >= r[q[i]]
  <2>1. i - 1 \in Nat /\ (i - 1) + 1 = i /\ i <= n
    BY <1>1
  <2> QED BY <1>7, <2>1 DEF T
<1>9. \A i \in 0..n : s[i] \in Nat
  BY <1>1, <1>3, <1>8
<1> QED BY <1>1, <1>2, <1>3, <1>8, <1>9 DEF s, n

\* What is left of each sleep, for a list and its deltas.
LeftOf(q, r) ==
    [p \in Slots |-> IF p \in ToSet(q) THEN Sums(q, r)[CHOOSE i \in DOMAIN q : q[i] = p] ELSE 0]

\* What Countdown is told, of this state and of the next.
LEMMA LeftIs == left = LeftOf(sleeping, ret) /\ left' = LeftOf(sleeping', ret')
BY TicksAreSums DEF left, LeftOf

\* The i-th sleeper has the sum at i left, and nobody else sleeps.
LEMMA LeftAt ==
    ASSUME NEW q \in Seq(Slots), NEW S, Lists(q, S), NEW r
    PROVE  /\ \A i \in 1..Len(q) : q[i] \in S /\ LeftOf(q, r)[q[i]] = Sums(q, r)[i]
           /\ \A p \in Slots \ S : LeftOf(q, r)[p] = 0
           /\ \A p \in S : \E i \in 1..Len(q) : p = q[i]
           /\ \A i, j \in 1..Len(q) : q[i] = q[j] => i = j
<1>1. DOMAIN q = 1..Len(q) /\ \A i \in 1..Len(q) : q[i] \in Slots
  OBVIOUS
<1>2. /\ \A i, j \in 1..Len(q) : q[i] = q[j] => i = j
      /\ S = ToSet(q)
  BY <1>1 DEF Lists, IsInjective
<1>3. /\ \A i \in 1..Len(q) : q[i] \in S
      /\ \A p \in S : \E i \in 1..Len(q) : p = q[i]
  BY <1>1, <1>2 DEF ToSet
<1>4. ASSUME NEW i \in 1..Len(q) PROVE LeftOf(q, r)[q[i]] = Sums(q, r)[i]
  <2>1. (CHOOSE j \in DOMAIN q : q[j] = q[i]) = i
    BY <1>1, <1>2
  <2> QED BY <1>1, <1>2, <1>3, <2>1 DEF LeftOf
<1> QED BY <1>2, <1>3, <1>4 DEF LeftOf
-----------------------------------------------------------------------------
(* The values in the pcbs *)

\* What the types of the values say of one process.
LEMMA ValueFacts ==
    ASSUME IInv, ValueTypes
    PROVE  /\ currproc \in Procs /\ pid[currproc] \in Nat /\ ret[currproc] \in Int
           /\ \A p \in Procs : /\ pid[p] \in Nat /\ ret[p] \in Int /\ from_pid[p] \in Int
                               /\ frames[p] \in Seq([ret : Int, handler : Nat])
                               /\ buffer[p] \in Seq(Nat)
BY IInvTypes DEF ValueTypes

\* The highest of some signals is one of them.
LEMMA MaxInSet ==
    ASSUME NEW S, S \subseteq Signals, S # {}
    PROVE  Max(S) \in S
<1> DEFINE U == {n \in Nat : \A y \in S : y <= n}
<1>1. SIGNAL_TABLE_SIZE \in U /\ U \subseteq Nat
  BY SignalAssumption DEF Signals
<1> DEFINE m == Min(U)
<1>2. m \in U /\ \A n \in U : m <= n
  BY <1>1, MinInSet
<1>m. m \in Nat /\ \A y \in S : y \in Nat /\ y <= m
  BY <1>2, SignalAssumption DEF Signals
<1> HIDE DEF m
<1>3. m \in S
  <2> SUFFICES ASSUME m \notin S PROVE FALSE
    OBVIOUS
  <2>1. \A y \in S : y \in Nat /\ y <= m - 1
    BY <1>m
  <2>2. m - 1 \in Nat
    BY <1>m, <2>1
  <2>3. m - 1 \in U
    BY <2>1, <2>2
  <2> HIDE DEF U
  <2> QED BY <1>m, <1>2, <2>3
<1>4. \E x \in S : \A y \in S : x >= y
  BY <1>m, <1>3
<1> QED BY <1>4 DEF Max

\* strncpy fills a buffer of the same length.
LEMMA CopiedTypes ==
    ASSUME NEW dst \in Seq(Nat), NEW src \in Seq(Nat)
    PROVE  copied(dst, src) \in Seq(Nat) /\ Len(copied(dst, src)) = Len(dst)
<1> DEFINE n == MinLen(Len(dst), Len(src))
           c == copied(dst, src)
<1>1. /\ DOMAIN dst = 1..Len(dst) /\ Len(dst) \in Nat /\ DOMAIN src = 1..Len(src)
      /\ Len(src) \in Nat /\ n <= Len(src) /\ n \in Nat
      /\ \A i \in 1..Len(dst) : dst[i] \in Nat
      /\ \A i \in 1..Len(src) : src[i] \in Nat
  BY DEF MinLen
<1> HIDE DEF n
<1>2. c = [i \in 1..Len(dst) |-> IF i > n THEN dst[i]
                                  ELSE IF \E j \in 1..i : src[j] = 0 THEN 0 ELSE src[i]]
  BY <1>1 DEF copied, strncpy, n
<1>3. ASSUME NEW i \in 1..Len(dst) PROVE c[i] \in Nat
  <2>1. CASE i > n
    BY <1>1, <1>2, <2>1
  <2>2. CASE ~(i > n)
    <3>1. i \in 1..Len(src)
      BY <1>1, <2>2
    <3> QED BY <1>1, <1>2, <2>2, <3>1
  <2> QED BY <2>1, <2>2
<1>4. c \in [1..Len(dst) -> Nat]
  BY <1>2, <1>3
<1> HIDE DEF c
<1>5. c \in Seq(Nat) /\ Len(c) = Len(dst)
  <2>1. c = [i \in 1..Len(dst) |-> c[i]] /\ \A i \in 1..Len(dst) : c[i] \in Nat
    BY <1>4
  <2>2. ASSUME NEW len \in Nat, \A i \in 1..len : c[i] \in Nat
        PROVE  [i \in 1..len |-> c[i]] \in Seq(Nat) /\ Len([i \in 1..len |-> c[i]]) = len
    BY <2>2
  <2> QED BY <1>1, <2>1, <2>2
<1> QED BY <1>5 DEF c

\* Memory handed over for a message is a sequence of bytes.
LEMMA BlankTypes == ASSUME NEW len \in Nat PROVE Blank(len) \in Seq(Nat)
BY DEF Blank

\* A handler is entered with the return value and the address on the stack.
LEMMA ContextTypes ==
    ASSUME IInv, SignalTypes, ValueTypes, ctsw_contextswitch
    PROVE  ValueTypes'
<1>1. currproc \in Procs
  BY IInvTypes
<1>2. \E eax \in Int : ret' = [ret EXCEPT ![currproc] = eax]
  BY WordAssumption DEF ctsw_contextswitch
<1>3. UNCHANGED <<pid, buffer, from_pid>>
  BY DEF ctsw_contextswitch, pcbVars, userVars
<1>4. CASE frames' = frames
  BY <1>1, <1>2, <1>3, <1>4 DEF ValueTypes
<1>5. CASE deliverable(currproc) /\ call_highest_priority_signal(currproc)
  <2> DEFINE signal == Max(signals_fired[currproc])
             frame == [ret |-> ret[currproc], handler |-> signal_table[currproc][signal]]
  <2>1. signals_fired[currproc] \subseteq Signals /\ signals_fired[currproc] # {}
    BY <1>1, <1>5 DEF SignalTypes, deliverable
  <2>2. signal \in Signals
    BY <2>1, MaxInSet
  <2>3. frame \in [ret : Int, handler : Nat]
    BY <1>1, <2>2 DEF SignalTypes, ValueTypes
  <2>4. frames' = [frames EXCEPT ![currproc] = Append(@, frame)]
    BY <1>5 DEF call_highest_priority_signal
  <2> HIDE DEF frame
  <2>5. frames' \in [Procs -> Seq([ret : Int, handler : Nat])]
    BY <1>1, <2>3, <2>4 DEF ValueTypes
  <2> QED BY <1>1, <1>2, <1>3, <2>5 DEF ValueTypes
<1> QED BY <1>4, <1>5 DEF ctsw_contextswitch, signalVars

\* syssigreturn takes the top context from the stack.
LEMMA SigreturnTypes ==
    ASSUME IInv, ValueTypes, sigreturn
    PROVE  ValueTypes'
<1> DEFINE saved == frames[currproc]
<1>1. currproc \in Procs /\ saved \in Seq([ret : Int, handler : Nat]) /\ saved # <<>>
  BY ValueFacts DEF sigreturn
<1>2. Last(saved).ret \in Int /\ Front(saved) \in Seq([ret : Int, handler : Nat])
  <2> HIDE DEF saved
  <2>1. Len(saved) \in 1..Len(saved) /\ Len(saved) - 1 \in 0..Len(saved)
    BY <1>1, EmptySeq
  <2>2. \A i \in 1..Len(saved) : saved[i] \in [ret : Int, handler : Nat]
    BY <1>1, ElementOfSeq
  <2>3. SubSeq(saved, 1, Len(saved) - 1) \in Seq([ret : Int, handler : Nat])
    <3>1. Len(saved) - 1 \in Int /\ \A i \in 1..(Len(saved) - 1) : i \in 1..Len(saved)
      BY <2>1
    <3> QED BY <2>2, <3>1, SubSeqProperties
  <2> QED BY <2>1, <2>2, <2>3 DEF Last, Front
<1>3. /\ ret' = [ret EXCEPT ![currproc] = Last(saved).ret]
      /\ frames' = [frames EXCEPT ![currproc] = Front(saved)]
      /\ UNCHANGED <<pid, buffer, from_pid>>
  BY DEF sigreturn, pcbVars, userVars
<1> HIDE DEF saved
<1> QED BY <1>1, <1>2, <1>3 DEF ValueTypes

\* A table stays of its type when entries of the type are put into it.
LEMMA Updated ==
    ASSUME NEW D, NEW V, NEW f \in [D -> V]
    PROVE  /\ \A x : \A v \in V : [f EXCEPT ![x] = v] \in [D -> V]
           /\ \A x, y : \A v, w \in V : [f EXCEPT ![x] = v, ![y] = w] \in [D -> V]
OBVIOUS

\* A step that changes nothing but return values.
LEMMA OnlyRet ==
    ASSUME ValueTypes, UNCHANGED <<pid, frames, buffer, from_pid>>, ret' \in [Procs -> Int]
    PROVE  ValueTypes'
BY DEF ValueTypes

\* The clock turns deltas into return values.
LEMMA TimerValues == ASSUME IInv, ValueTypes, timer_handler PROVE ValueTypes'
<1> DEFINE woken == SubSeq(sleeping, 1, expired)
<1>1. UNCHANGED <<pid, frames, buffer, from_pid>>
  BY DEF timer_handler, Asserting, pcbVars, signalVars, userVars
<1>2. \A p \in Procs : ret[p] \in Int /\ ticked(p) \in Int
  BY DEF ValueTypes, ticked
<1>3. CASE ret' = ret
  BY <1>1, <1>3 DEF ValueTypes
<1>4. CASE ret' = [p \in Procs |-> IF p \in ToSet(woken) THEN ticked(p) * TICK_LENGTH_IN_MS
                                   ELSE IF p \in ToSet(sleeping) THEN ticked(p) ELSE ret[p]]
  <2> HIDE DEF woken
  <2>1. TICK_LENGTH_IN_MS \in Int
    BY DEF TICK_LENGTH_IN_MS
  <2>2. \A p \in Procs : ticked(p) * TICK_LENGTH_IN_MS \in Int
    BY <1>2, <2>1
  <2> HIDE DEF ticked
  <2>3. ret' \in [Procs -> Int]
    BY <1>2, <1>4, <2>2
  <2> QED BY <1>1, <2>3, OnlyRet
<1> QED BY <1>3, <1>4 DEF timer_handler, Asserting

\* The number of ticks of a sleep.
LEMMA TicksRange ==
    ASSUME NEW milliseconds \in SleepTimes
    PROVE  ticks(milliseconds) \in Nat /\ (milliseconds # 0 => ticks(milliseconds) >= 1)
<1>1. milliseconds \in Nat
  BY SleepAssumption
<1> QED BY <1>1 DEF ticks, TICK_LENGTH_IN_MS

\* The sums of the deltas are numbers.
LEMMA TicksTypes ==
    ASSUME IInv, ValueTypes
    PROVE  /\ sleeping \in Seq(Slots) /\ Len(sleeping) \in Nat
           /\ \A i \in 0..Len(sleeping) : ticks_until[i] \in Int
<1>1. sleeping \in Seq(Slots) /\ Len(sleeping) \in Nat
  BY IInvTypes
<1>2. \A i \in 1..Len(sleeping) : ret[sleeping[i]] \in Int
  <2>1. \A i \in 1..Len(sleeping) : sleeping[i] \in Procs
    BY <1>1, SlotFacts
  <2> QED BY <2>1, ValueFacts
<1> QED BY <1>1, <1>2, TicksAreSums, SumsSteps

\* syssleep leaves deltas in the return values.
LEMMA SleepValues ==
    ASSUME IInv, ValueTypes, NEW milliseconds \in SleepTimes, sleep(milliseconds)
    PROVE  ValueTypes'
<1> DEFINE i == insert_position(ticks(milliseconds))
           delta == ticks(milliseconds) - ticks_until[i - 1]
<1>1. i \in 1..(Len(sleeping) + 1)
  BY InsertRange
<1>2. UNCHANGED <<pid, frames, buffer, from_pid>> /\ ret' = inserted_ret(i, delta)
  BY DEF sleep, signalVars, userVars
<1> HIDE DEF i
<1>3. i - 1 \in 0..Len(sleeping)
  BY <1>1, TicksTypes
<1>4. delta \in Int
  BY <1>3, TicksTypes, TicksRange
<1> HIDE DEF delta
<1>5. ret' \in [Procs -> Int]
  BY <1>2, <1>4 DEF inserted_ret, ValueTypes
<1> QED BY <1>2, <1>5, OnlyRet

\* A signal replaces the return value of the call it ends.
LEMMA KillValues ==
    ASSUME IInv, ValueTypes, NEW proc \in Slots, NEW signal, set_proc_signal(proc, signal)
    PROVE  ValueTypes'
<1>1. UNCHANGED <<pid, frames, buffer, from_pid>>
  BY DEF set_proc_signal, resolve_blocking, Asserting, pcbVars, signalVars, userVars
<1>2. CASE ret' = ret \/ ret' = [ret EXCEPT ![currproc] = 0]
  <2>1. ret' \in [Procs -> Int]
    BY <1>2 DEF ValueTypes
  <2> QED BY <1>1, <2>1, OnlyRet
<1>3. CASE ret' = [interrupted_ret(proc) EXCEPT ![currproc] = 0]
  <2> DEFINE i == CHOOSE j \in DOMAIN sleeping : sleeping[j] = proc
             next == sleeping[i + 1]
  <2>1. \A p \in Procs : ret[p] \in Int
    BY DEF ValueTypes
  <2>2. proc \in Procs /\ ret[proc] \in Int /\ ret[proc] * 10 \in Int
    BY <2>1, SlotFacts
  <2>3. woken_ret(proc) \in [Procs -> Int]
    <3>1. woken_ret(proc) = [p \in Procs |-> IF p = proc THEN ret[proc] * 10
                               ELSE IF i < Len(sleeping) /\ p = next THEN ret[p] + ret[proc]
                               ELSE ret[p]]
      BY DEF woken_ret, TICK_LENGTH_IN_MS
    <3> HIDE DEF i, next
    <3> QED BY <2>1, <2>2, <3>1
  <2>4. interrupted_ret(proc) \in [Procs -> Int]
    <3>1. /\ SYSWAIT_SIGNALLED \in Int /\ SYSERR \in Int /\ PROC_SIGNALLED \in Int
          /\ ret \in [Procs -> Int]
      BY DEF ValueTypes, SYSWAIT_SIGNALLED, SYSERR, PROC_SIGNALLED
    <3> QED BY <2>3, <3>1, Updated DEF interrupted_ret
  <2> HIDE DEF i, next
  <2>5. ret' \in [Procs -> Int]
    <3> DEFINE r == interrupted_ret(proc)
    <3> HIDE DEF r
    <3>1. ret' = [r EXCEPT ![currproc] = 0] /\ r \in [Procs -> Int]
      BY <1>3, <2>4 DEF r
    <3> QED BY <3>1, Updated
  <2> QED BY <1>1, <2>5, OnlyRet
<1> QED BY <1>2, <1>3 DEF set_proc_signal, resolve_blocking, Asserting

\* cleanup_proc frees the stack of the process.
LEMMA CleanupValues == ASSUME IInv, ValueTypes, cleanup_proc PROVE ValueTypes'
<1>1. CASE UNCHANGED <<pid, ret, frames, buffer, from_pid>>
  BY <1>1 DEF ValueTypes
<1>2. CASE /\ frames' = [frames EXCEPT ![currproc] = <<>>]
           /\ buffer' = [buffer EXCEPT ![currproc] = <<>>]
           /\ from_pid' = [from_pid EXCEPT ![currproc] = 0]
           /\ UNCHANGED <<pid, ret>>
  <2>1. /\ frames' \in [Procs -> Seq([ret : Int, handler : Nat])]
        /\ buffer' \in [Procs -> Seq(Nat)] /\ from_pid' \in [Procs -> Int]
    <3>1. <<>> \in Seq([ret : Int, handler : Nat]) /\ <<>> \in Seq(Nat) /\ 0 \in Int
      OBVIOUS
    <3> QED BY <1>2, <3>1, Updated DEF ValueTypes
  <2> QED BY <1>2, <2>1 DEF ValueTypes
<1> QED BY <1>1, <1>2 DEF cleanup_proc, Asserting, pcbVars, signalVars, userVars

\* A recycled pcb gets a pid.
LEMMA CreateValues ==
    ASSUME IInv, ValueTypes, create \/ create_without_table PROVE ValueTypes'
<1> DEFINE proc == Head(stopped)
<1>1. proc \in Slots /\ proc \in Procs /\ UNCHANGED <<frames, buffer, from_pid>>
  BY NextFree, SlotFacts DEF create, create_without_table, Asserting, signalVars, userVars
<1>2. \A p \in Procs : pid[p] \in Nat
  BY DEF ValueTypes
<1> HIDE DEF proc
<1>3. next_pid(pid[proc]) \in Nat
  BY <1>1, <1>2, TableAssumption DEF next_pid
<1>4. CASE UNCHANGED <<pid, ret>>
  BY <1>1, <1>4 DEF ValueTypes
<1>5. CASE /\ pid' = [pid EXCEPT ![proc] = next_pid(pid[proc])]
           /\ ret' = [ret EXCEPT ![proc] = 0, ![currproc] = next_pid(pid[proc])]
  <2> DEFINE new_pid == next_pid(pid[proc])
  <2>1. 0 \in Int /\ new_pid \in Nat /\ new_pid \in Int
    BY <1>3
  <2> HIDE DEF new_pid
  <2>2. pid' = [pid EXCEPT ![proc] = new_pid] /\ ret' = [ret EXCEPT ![proc] = 0, ![currproc] = new_pid]
    BY <1>5 DEF new_pid
  <2>3. pid' \in [Procs -> Nat] /\ ret' \in [Procs -> Int]
    BY <2>1, <2>2, Updated DEF ValueTypes
  <2> QED BY <1>1, <2>3 DEF ValueTypes
<1>6. CASE /\ pid' = pid
           /\ ret' = [ret EXCEPT ![proc] = 0, ![currproc] = EPROCLIMIT]
  <2>1. EPROCLIMIT \in Int /\ 0 \in Int
    BY DEF EPROCLIMIT
  <2>2. ret' \in [Procs -> Int]
    BY <1>6, <2>1, Updated DEF ValueTypes
  <2> QED BY <1>1, <1>6, <2>2 DEF ValueTypes
<1> QED BY <1>4, <1>5, <1>6 DEF create, create_without_table, Asserting, pcbVars, proc

\* A rendezvous copies a message and a pid.
LEMMA MeetValues ==
    ASSUME IInv, ValueTypes,
           \/ \E dest \in Slots, message \in Messages : send_now(dest, message)
           \/ \E src \in Slots, len \in RecvLens : recv_now(src, len)
    PROVE  ValueTypes'
<1> USE SlotFacts
<1>1. UNCHANGED <<pid, frames>>
  BY DEF send_now, recv_now, Asserting, pcbVars, signalVars, userVars
<1>2. CASE UNCHANGED <<ret, userVars>>
  BY <1>1, <1>2 DEF ValueTypes, userVars
<1>3. ASSUME NEW dest \in Slots, NEW message \in Messages,
             /\ from_pid' \in {[from_pid EXCEPT ![dest] = pid[currproc]],
                               [from_pid EXCEPT ![dest] = @]}
             /\ buffer' = [buffer EXCEPT ![currproc] = message, ![dest] = copied(@, message)]
             /\ ret' = [ret EXCEPT ![dest] = SYSPID_OK, ![currproc] = SYSPID_OK]
      PROVE  ValueTypes'
  <2>1. message \in Seq(Nat)
    BY BufferAssumption
  <2>2. buffer' \in [Procs -> Seq(Nat)]
    <3>1. copied(buffer[dest], message) \in Seq(Nat)
      BY <2>1, ValueFacts, CopiedTypes
    <3> QED BY <1>3, <2>1, <3>1, Updated DEF ValueTypes
  <2>3. from_pid' \in [Procs -> Int] /\ ret' \in [Procs -> Int]
    <3>1. SYSPID_OK \in Int /\ pid[currproc] \in Int /\ from_pid[dest] \in Int
      BY ValueFacts DEF SYSPID_OK
    <3> QED BY <1>3, <3>1, Updated DEF ValueTypes
  <2> QED BY <1>1, <2>2, <2>3 DEF ValueTypes
<1>4. ASSUME NEW src \in Slots, NEW len \in RecvLens,
             /\ from_pid' = [from_pid EXCEPT ![currproc] = pid[src]]
             /\ buffer' = [buffer EXCEPT ![currproc] = copied(Blank(len), buffer[src])]
             /\ ret' = [ret EXCEPT ![src] = SYSPID_OK, ![currproc] = SYSPID_OK]
      PROVE  ValueTypes'
  <2>1. copied(Blank(len), buffer[src]) \in Seq(Nat)
    BY ValueFacts, BufferAssumption, BlankTypes, CopiedTypes
  <2>2. from_pid' \in [Procs -> Int] /\ ret' \in [Procs -> Int]
    <3>1. SYSPID_OK \in Int /\ pid[src] \in Int
      BY ValueFacts DEF SYSPID_OK
    <3> QED BY <1>4, <3>1, Updated DEF ValueTypes
  <2>3. buffer' \in [Procs -> Seq(Nat)]
    BY <1>4, <2>1, Updated DEF ValueTypes
  <2> QED BY <1>1, <2>2, <2>3 DEF ValueTypes
<1> QED BY <1>2, <1>3, <1>4 DEF send_now, recv_now, Asserting

\* A call that blocks for its peer leaves its buffer and the failure value.
LEMMA BlockValues ==
    ASSUME IInv, ValueTypes, UNCHANGED <<pid, frames>>,
           NEW code \in Int, ret' = [ret EXCEPT ![currproc] = code],
           NEW message \in Seq(Nat), NEW from \in Int,
           buffer' = buffer \/ buffer' = [buffer EXCEPT ![currproc] = message],
           from_pid' = from_pid \/ from_pid' = [from_pid EXCEPT ![currproc] = from]
    PROVE  ValueTypes'
BY DEF ValueTypes

\* Every step keeps the types of the values.
LEMMA NextValueTypes ==
    ASSUME IInv, SignalTypes, ValueTypes, Next
    PROVE  ValueTypes'
<1> USE SlotFacts
<1>u. ASSUME UNCHANGED <<pid, ret, frames, buffer, from_pid>> PROVE ValueTypes'
  BY <1>u DEF ValueTypes
<1>r. ASSUME NEW code \in Int, Return(code) PROVE ValueTypes'
  <2>1. ret' = [ret EXCEPT ![currproc] = code] /\ UNCHANGED <<pid, frames, buffer, from_pid>>
    BY <1>r DEF Return, pcbVars, signalVars, userVars
  <2>2. ret' \in [Procs -> Int]
    BY <1>r, <2>1, Updated DEF ValueTypes
  <2> QED BY <2>1, <2>2, OnlyRet
<1>c. /\ SYSPID_DNE \in Int /\ SYSPID_ME \in Int /\ SYSERR_OTHER \in Int /\ SYSPID_OK \in Int
      /\ EINVAL \in Int /\ ENOMEM \in Int /\ EPROCLIMIT \in Int
      /\ SYSKILL_TARGET_DNE \in Int /\ SYSKILL_INVALID_SIGNAL \in Int
      /\ SYSHANDLER_INVALID_SIGNAL \in Int /\ SYSHANDLER_INVALID_FUNCPTR \in Int
      /\ -1 \in Int /\ 0 \in Int
  BY DEF SYSPID_DNE, SYSPID_ME, SYSERR_OTHER, SYSPID_OK, EINVAL, ENOMEM, EPROCLIMIT,
         SYSKILL_TARGET_DNE, SYSKILL_INVALID_SIGNAL, SYSHANDLER_INVALID_SIGNAL,
         SYSHANDLER_INVALID_FUNCPTR
<1>b. ASSUME NEW p \in Int, pid_to_proc(p) # NULL PROVE pid_to_proc(p) \in Slots
  BY <1>b, PidToProc
<1>o. ASSUME NEW owner, NEW queue, NEW code \in Int, NEW message \in Seq(Nat), NEW from \in Int,
             block_on(owner, queue, code), UNCHANGED <<pid, frames>>,
             buffer' = buffer \/ buffer' = [buffer EXCEPT ![currproc] = message],
             from_pid' = from_pid \/ from_pid' = [from_pid EXCEPT ![currproc] = from]
      PROVE  ValueTypes'
  BY <1>o, BlockValues DEF block_on
<1>1. CASE ctsw_contextswitch
  BY <1>1, ContextTypes
<1>2. CASE timer_handler
  BY <1>2, TimerValues
<1>3. CASE dispatch_syscall_create
  BY <1>3, <1>c, <1>r, CreateValues DEF dispatch_syscall_create
<1>4. CASE syscall_yield
  BY <1>4, <1>u DEF syscall_yield, signalVars, userVars
<1>5. CASE syscall_stop
  BY <1>5, CleanupValues DEF syscall_stop
<1>6. CASE syscall_getpid
  <2>1. pid[currproc] \in Int
    BY ValueFacts
  <2> QED BY <1>6, <2>1, <1>r DEF syscall_getpid
<1>7. CASE dispatch_syscall_kill
  <2>1. PICK target \in PidArgs, signal \in SignalArgs :
          \/ \E code \in {SYSKILL_TARGET_DNE, SYSKILL_INVALID_SIGNAL, 0} : Return(code)
          \/ pid_to_proc(target) # NULL /\ set_proc_signal(pid_to_proc(target), signal)
    BY <1>7 DEF dispatch_syscall_kill
  <2> QED BY <2>1, <1>b, <1>c, <1>r, PidAssumption, KillValues
<1>8. CASE dispatch_syscall_wait
  <2>1. PICK target \in PidArgs :
          \/ Return(SYSPID_DNE)
          \/ /\ block_on(pid_to_proc(target), WAITING, 0)
             /\ UNCHANGED <<pid, frames, buffer, from_pid>>
    BY <1>8 DEF dispatch_syscall_wait, signalVars, userVars
  <2>2. <<>> \in Seq(Nat)
    OBVIOUS
  <2> QED BY <2>1, <2>2, <1>c, <1>o, <1>r
<1>9. CASE dispatch_syscall_puts
  BY <1>9, <1>u DEF dispatch_syscall_puts, Ignore, pcbVars, signalVars, userVars
<1>10. CASE dispatch_syscall_send
  <2>1. PICK dest_pid \in PidArgs :
          \/ \E code \in {SYSPID_ME, SYSERR_OTHER, SYSPID_DNE} : Return(code)
          \/ /\ pid_to_proc(dest_pid) # NULL
             /\ \E message \in Messages : \/ send_now(pid_to_proc(dest_pid), message)
                                          \/ send_blocks(pid_to_proc(dest_pid), message)
    BY <1>10 DEF dispatch_syscall_send
  <2>2. ASSUME NEW dest, NEW message \in Messages, send_blocks(dest, message) PROVE ValueTypes'
    <3>1. /\ block_on(dest, SENDER, SYSPID_DNE) /\ UNCHANGED <<pid, frames, from_pid>>
          /\ buffer' = [buffer EXCEPT ![currproc] = message]
      BY <2>2 DEF send_blocks, signalVars
    <3> QED BY <3>1, <1>c, <1>o, BufferAssumption
  <2> QED BY <2>1, <2>2, <1>b, <1>c, <1>r, PidAssumption, MeetValues
<1>11. CASE dispatch_syscall_recv
  <2>1. ASSUME NEW from \in PidArgs \cup {0}, pid_to_proc(from) # NULL, NEW len \in RecvLens,
               recv(pid_to_proc(from), len)
        PROVE  ValueTypes'
    <3> DEFINE src == pid_to_proc(from)
    <3>1. src \in Slots
      BY <2>1, <1>b, PidAssumption
    <3> HIDE DEF src
    <3>2. CASE recv_now(src, len)
      BY <3>1, <3>2, MeetValues
    <3>3. CASE /\ block_on(src, RECEIVER, SYSPID_DNE) /\ UNCHANGED <<pid, signalVars>>
               /\ buffer' = [buffer EXCEPT ![currproc] = Blank(len)]
               /\ from_pid' = [from_pid EXCEPT ![currproc] = pid[src]]
      <4>1. pid[src] \in Int /\ Blank(len) \in Seq(Nat)
        BY SMTT(30), <3>1, ValueFacts, BlankTypes, BufferAssumption
      <4> QED BY <3>3, <4>1, <1>c, <1>o DEF signalVars
    <3> QED BY <2>1, <3>2, <3>3 DEF recv, src
  <2>2. ASSUME NEW len \in RecvLens, recv_any(len) PROVE ValueTypes'
    <3> DEFINE senders == blocking_queue[currproc][SENDER]
    <3>1. senders # <<>> => Head(senders) \in Slots
      <4>1. senders \in Seq(Slots)
        BY IInvTypes DEF Queues
      <4> QED BY <4>1
    <3> HIDE DEF senders
    <3>2. CASE senders # <<>> /\ recv_now(Head(senders), len)
      BY <3>1, <3>2, MeetValues
    <3>3. CASE Return(SYSERR_OTHER)
      BY <3>3, <1>c, <1>r
    <3>4. CASE /\ ret' = [ret EXCEPT ![currproc] = SYSPID_DNE]
               /\ buffer' = [buffer EXCEPT ![currproc] = Blank(len)]
               /\ from_pid' = [from_pid EXCEPT ![currproc] = 0]
               /\ UNCHANGED <<pid, signalVars>>
      <4>1. Blank(len) \in Seq(Nat)
        BY BlankTypes, BufferAssumption
      <4> QED BY <3>4, <4>1, <1>c, BlockValues DEF signalVars
    <3> QED BY <2>2, <3>2, <3>3, <3>4 DEF recv_any, senders
  <2> QED BY <1>11, <1>c, <1>r, <2>1, <2>2 DEF dispatch_syscall_recv
<1>12. CASE dispatch_syscall_sleep
  <2>1. CASE Ignore
    BY <2>1, <1>u DEF Ignore, pcbVars, signalVars, userVars
  <2> QED BY <1>12, <2>1, SleepValues DEF dispatch_syscall_sleep
<1>13. CASE dispatch_syscall_getcputimes
  <2>1. get_all_proc_info \in Int
    <3>1. IsFiniteSet({p \in Slots : curr_state[p] # STOPPED})
      <4>1. IsFiniteSet(Slots)
        BY FS_Interval, TableAssumption DEF Slots
      <4>2. {p \in Slots : curr_state[p] # STOPPED} \in SUBSET Slots
        OBVIOUS
      <4> QED BY <4>1, <4>2, FS_Subset
    <3> QED BY <3>1, FS_CardinalityType DEF get_all_proc_info
  <2>2. CASE UNCHANGED <<pcbVars, ret, signalVars, userVars, listVars>>
    BY <2>2, <1>u DEF pcbVars, signalVars, userVars
  <2>3. CASE /\ ret' = [ret EXCEPT ![currproc] = get_all_proc_info]
             /\ UNCHANGED <<pcbVars, signalVars, userVars, listVars>>
    <3>1. ret' \in [Procs -> Int]
      BY <2>1, <2>3, Updated DEF ValueTypes
    <3> QED BY <2>3, <3>1, OnlyRet DEF pcbVars, signalVars, userVars
  <2> QED BY <1>13, <1>c, <1>r, <2>2, <2>3 DEF dispatch_syscall_getcputimes, Asserting
<1>14. CASE dispatch_syscall_sighandler
  <2>1. CASE ret' = [ret EXCEPT ![currproc] = 0] /\ UNCHANGED <<pcbVars, frames, userVars>>
    <3>1. ret' \in [Procs -> Int]
      BY <1>c, <2>1, Updated DEF ValueTypes
    <3> QED BY <2>1, <3>1, OnlyRet DEF pcbVars, userVars
  <2> QED BY <1>14, <1>c, <1>r, <2>1 DEF dispatch_syscall_sighandler
<1>15. CASE dispatch_syscall_sigreturn
  BY <1>15, SigreturnTypes, CleanupValues DEF dispatch_syscall_sigreturn
<1> QED BY <1>1, <1>2, <1>3, <1>4, <1>5, <1>6, <1>7, <1>8, <1>9, <1>10, <1>11, <1>12,
           <1>13, <1>14, <1>15 DEF Next

\* A step leaves halted alone or sets it.
LEMMA NextHalted == Next => halted' \in {halted, TRUE}
<1> SUFFICES ASSUME Next PROVE halted' \in {halted, TRUE}
  OBVIOUS
<1>r. ASSUME NEW code, Return(code) PROVE halted' \in {halted, TRUE}
  BY <1>r DEF Return
<1>s. cleanup_proc => halted' \in {halted, TRUE}
  BY DEF cleanup_proc, Asserting
<1>1. CASE ctsw_contextswitch \/ timer_handler \/ syscall_yield \/ dispatch_syscall_puts
  BY <1>1 DEF ctsw_contextswitch, timer_handler, Asserting, syscall_yield, dispatch_syscall_puts, Ignore
<1>2. CASE dispatch_syscall_create
  BY <1>2, <1>r DEF dispatch_syscall_create, create, create_without_table, Asserting
<1>3. CASE syscall_stop \/ syscall_getpid \/ dispatch_syscall_sigreturn
  BY <1>3, <1>r, <1>s DEF syscall_stop, syscall_getpid, dispatch_syscall_sigreturn, sigreturn
<1>4. CASE dispatch_syscall_kill
  BY <1>4, <1>r DEF dispatch_syscall_kill, set_proc_signal, Asserting
<1>5. CASE dispatch_syscall_wait \/ dispatch_syscall_sleep
  BY <1>5, <1>r DEF dispatch_syscall_wait, dispatch_syscall_sleep, sleep, Ignore
<1>6. CASE dispatch_syscall_send
  BY <1>6, <1>r DEF dispatch_syscall_send, send_now, send_blocks, Asserting
<1>7. CASE dispatch_syscall_recv
  BY <1>7, <1>r DEF dispatch_syscall_recv, recv, recv_any, recv_now, Asserting
<1>8. CASE dispatch_syscall_getcputimes \/ dispatch_syscall_sighandler
  BY <1>8, <1>r DEF dispatch_syscall_getcputimes, dispatch_syscall_sighandler, Asserting
<1> QED BY <1>1, <1>2, <1>3, <1>4, <1>5, <1>6, <1>7, <1>8 DEF Next

\* The invariant behind the types.
TypesInv == IInv /\ SigInv /\ ValueTypes /\ halted \in BOOLEAN

\* The values start with their types.
LEMMA InitTypesInv == Init => TypesInv
<1> SUFFICES ASSUME Init PROVE TypesInv
  OBVIOUS
<1>1. <<>> \in Seq([ret : Int, handler : Nat]) /\ <<>> \in Seq(Nat)
  OBVIOUS
<1>2. /\ pid = [p \in Procs |-> IF p = IdleProc THEN 0 ELSE IF p = 1 THEN 1 + PCB_TABLE_SIZE ELSE p]
      /\ ret = [p \in Procs |-> 0] /\ frames = [p \in Procs |-> <<>>]
      /\ buffer = [p \in Procs |-> <<>>] /\ from_pid = [p \in Procs |-> 0]
      /\ halted = FALSE
  BY DEF Init
<1>3. PCB_TABLE_SIZE \in Nat /\ Procs \subseteq Nat
  BY TableAssumption DEF Procs
<1>4. pid \in [Procs -> Nat]
  BY <1>2, <1>3
<1>5. ValueTypes
  BY <1>1, <1>2, <1>4 DEF ValueTypes
<1> QED BY <1>2, <1>5, InitIInv, InitSigInv DEF TypesInv

\* Every step keeps the types.
LEMMA NextTypesInv == TypesInv /\ [Next]_vars => TypesInv'
<1> SUFFICES ASSUME TypesInv, [Next]_vars PROVE TypesInv'
  OBVIOUS
<1>1. IInv' /\ SigInv'
  BY NextIInv, NextSigInv DEF TypesInv
<1>2. CASE Next
  <2>1. SignalTypes
    BY DEF TypesInv, SigInv
  <2>2. ValueTypes' /\ halted' \in BOOLEAN
    BY <1>2, <2>1, NextValueTypes, NextHalted DEF TypesInv
  <2> QED BY <1>1, <2>2 DEF TypesInv
<1>3. CASE UNCHANGED vars
  BY <1>1, <1>3 DEF vars, pcbVars, signalVars, userVars, TypesInv, ValueTypes
<1> QED BY <1>2, <1>3

\* The types follow.
LEMMA TypesInvIsTypes == TypesInv => TypeOK
<1> SUFFICES ASSUME TypesInv PROVE TypeOK
  OBVIOUS
<1>1. QueueTypes /\ curr_state \in [Procs -> ProcStates] /\ currproc \in Procs
      /\ blocking_proc \in [Procs -> Slots \cup {NULL}] /\ blocking_queue_name \in [Procs -> Blockers]
  BY DEF TypesInv, IInv, StructTypes
<1> QED BY <1>1 DEF TypesInv, TypeOK, PcbTypes, SigInv

\* In every behaviour of the kernel every variable has its type: pids stay
\* natural numbers although next_pid goes past INT_MAX, every message copied
\* is a sequence of bytes, the delta of a sleeper and the value a call returns
\* are numbers although they share the one field ret.
THEOREM ValuesHaveTheirTypes == Spec => []TypeOK
BY InitTypesInv, NextTypesInv, TypesInvIsTypes, PTL DEF Spec

-----------------------------------------------------------------------------
(* The delta list: what each change of the list and the deltas does to what *)
(* is left of each sleep.                                                   *)

\* Values r2 in which the deltas r of the sleepers, who are S, are unchanged.
Agrees(q, S, r, r2) ==
    /\ Lists(q, S) /\ Deltas(q, r)
    /\ r2 \in [Procs -> Int] /\ \A p \in S : r2[p] = r[p]

\* Deltas that agree on the sleepers leave the same.
LEMMA LeftSame ==
    ASSUME NEW q \in Seq(Slots), NEW S, NEW r, NEW r2, Agrees(q, S, r, r2)
    PROVE  Deltas(q, r2) /\ LeftOf(q, r2) = LeftOf(q, r)
<1>0. Lists(q, S) /\ Deltas(q, r) /\ r2 \in [Procs -> Int] /\ \A p \in S : r2[p] = r[p]
  BY DEF Agrees
<1> DEFINE n == Len(q)
           s == Sums(q, r)
           t == Sums(q, r2)
<1>1. /\ n \in Nat /\ s[0] = 0
      /\ \A i \in 1..n : r[q[i]] \in Int /\ r[q[i]] >= 0 /\ s[i] = s[i - 1] + r[q[i]]
  BY <1>0, SumsGrow
<1>2. \A i \in 1..n : q[i] \in S /\ r2[q[i]] = r[q[i]]
  BY <1>0, LeftAt
<1>3. Deltas(q, r2)
  <2>1. q # <<>> => 1 \in 1..n
    BY <1>1
  <2> QED BY <1>0, <1>1, <1>2, <2>1 DEF Deltas
<1>4. t[0] = 0 /\ \A i \in 1..n : t[i] = t[i - 1] + r2[q[i]]
  BY <1>3, SumsGrow
<1> HIDE DEF n, s, t
<1>5. \A i \in 1..n : \E d \in Int : s[i] = s[i - 1] + d /\ t[i] = t[i - 1] + d
  BY <1>1, <1>2, <1>4
<1>6. \A i \in 0..n : t[i] = s[i]
  BY <1>1, <1>4, <1>5, SumsEqual
<1>7. \A i \in 1..n : t[i] = s[i]
  BY <1>1, <1>6
<1>8. \A p \in Slots : LeftOf(q, r2)[p] = LeftOf(q, r)[p]
  <2> SUFFICES ASSUME NEW p \in Slots PROVE LeftOf(q, r2)[p] = LeftOf(q, r)[p]
    OBVIOUS
  <2>1. CASE p \in S
    <3>1. PICK i \in 1..n : p = q[i]
      BY <1>0, <2>1, LeftAt DEF n
    <3>2. LeftOf(q, r2)[p] = t[i] /\ LeftOf(q, r)[p] = s[i]
      BY <1>0, <3>1, LeftAt DEF n, s, t
    <3> QED BY <1>7, <3>2
  <2>2. CASE p \notin S
    BY <1>0, <2>2, LeftAt
  <2> QED BY <2>1, <2>2
<1>9. LeftOf(q, r2) = LeftOf(q, r)
  BY <1>8 DEF LeftOf
<1> QED BY <1>3, <1>9

\* The elements of a list into which one is inserted.
LEMMA InsertElements ==
    ASSUME NEW q \in Seq(Slots), NEW e \in Slots, NEW i \in 1..(Len(q) + 1)
    PROVE  /\ InsertAt(q, i, e) \in Seq(Slots) /\ Len(InsertAt(q, i, e)) = Len(q) + 1
           /\ \A j \in 1..(Len(q) + 1) :
                 InsertAt(q, i, e)[j] = IF j < i THEN q[j] ELSE IF j = i THEN e ELSE q[j - 1]
<1> DEFINE front == SubSeq(q, 1, i - 1)
           back  == SubSeq(q, i, Len(q))
           mid   == front \o <<e>>
<1>1. Len(q) \in Nat /\ \A j \in 1..Len(q) : q[j] \in Slots
  BY ElementOfSeq
<1>2. /\ front \in Seq(Slots) /\ Len(front) = i - 1
      /\ \A j \in 1..(i - 1) : front[j] = q[j]
  <2>1. \A j \in 1..(i - 1) : q[j] \in Slots
    BY <1>1
  <2> QED BY <1>1, <2>1, SubSeqProperties
<1>3. /\ back \in Seq(Slots) /\ Len(back) = Len(q) - i + 1
      /\ \A j \in 1..(Len(q) - i + 1) : back[j] = q[i + j - 1]
  <2>1. \A j \in i..Len(q) : q[j] \in Slots
    BY <1>1
  <2> QED BY <1>1, <2>1, SubSeqProperties
<1> HIDE DEF front, back
<1>4. /\ mid \in Seq(Slots) /\ Len(mid) = i
      /\ \A j \in 1..i : mid[j] = IF j < i THEN q[j] ELSE e
  <2>1. <<e>> \in Seq(Slots) /\ Len(<<e>>) = 1 /\ <<e>>[1] = e
    OBVIOUS
  <2> QED BY <1>1, <1>2, <2>1, ConcatProperties
<1> HIDE DEF mid
<1>5. /\ mid \o back \in Seq(Slots) /\ Len(mid \o back) = Len(q) + 1
      /\ \A j \in 1..(Len(q) + 1) : (mid \o back)[j] = IF j <= i THEN mid[j] ELSE back[j - i]
  <2>1. /\ mid \o back \in Seq(Slots) /\ Len(mid \o back) = Len(mid) + Len(back)
        /\ \A j \in 1..(Len(mid) + Len(back)) :
              (mid \o back)[j] = IF j <= Len(mid) THEN mid[j] ELSE back[j - Len(mid)]
    BY <1>3, <1>4, ConcatProperties
  <2>2. Len(mid) = i /\ Len(mid) + Len(back) = Len(q) + 1
    BY <1>1, <1>3, <1>4
  <2> QED BY <2>1, <2>2
<1>6. ASSUME NEW j \in 1..(Len(q) + 1)
      PROVE  (mid \o back)[j] = IF j < i THEN q[j] ELSE IF j = i THEN e ELSE q[j - 1]
  <2>1. CASE j <= i
    BY <1>1, <1>4, <1>5, <2>1
  <2>2. CASE j > i
    <3>1. j - i \in 1..(Len(q) - i + 1) /\ i + (j - i) - 1 = j - 1
      BY <1>1, <2>2
    <3> QED BY <1>1, <1>3, <1>5, <2>2, <3>1
  <2>3. j <= i \/ j > i
    BY <1>1
  <2> QED BY <2>1, <2>2, <2>3
<1> QED BY <1>5, <1>6 DEF InsertAt, front, back, mid

\* The elements of a list from which the k-th is removed.
LEMMA RemoveElements ==
    ASSUME NEW q \in Seq(Slots), NEW k \in 1..Len(q)
    PROVE  /\ RemoveAt(q, k) \in Seq(Slots) /\ Len(RemoveAt(q, k)) = Len(q) - 1
           /\ \A j \in 1..(Len(q) - 1) : RemoveAt(q, k)[j] = IF j < k THEN q[j] ELSE q[j + 1]
<1> DEFINE front == SubSeq(q, 1, k - 1)
           back  == SubSeq(q, k + 1, Len(q))
<1>1. Len(q) \in Nat /\ \A j \in 1..Len(q) : q[j] \in Slots
  BY ElementOfSeq
<1>2. /\ front \in Seq(Slots) /\ Len(front) = k - 1
      /\ \A j \in 1..(k - 1) : front[j] = q[j]
  <2>1. \A j \in 1..(k - 1) : q[j] \in Slots
    BY <1>1
  <2> QED BY <1>1, <2>1, SubSeqProperties
<1>3. /\ back \in Seq(Slots) /\ Len(back) = Len(q) - k
      /\ \A j \in 1..(Len(q) - k) : back[j] = q[k + j]
  <2>1. \A j \in (k + 1)..Len(q) : q[j] \in Slots
    BY <1>1
  <2>2. \A j \in 1..(Len(q) - k) : (k + 1) + j - 1 = k + j
    BY <1>1
  <2> QED BY <1>1, <2>1, <2>2, SubSeqProperties
<1> HIDE DEF front, back
<1>4. /\ front \o back \in Seq(Slots) /\ Len(front \o back) = Len(q) - 1
      /\ \A j \in 1..(Len(q) - 1) :
            (front \o back)[j] = IF j <= k - 1 THEN front[j] ELSE back[j - (k - 1)]
  <2>1. /\ front \o back \in Seq(Slots) /\ Len(front \o back) = Len(front) + Len(back)
        /\ \A j \in 1..(Len(front) + Len(back)) :
              (front \o back)[j] = IF j <= Len(front) THEN front[j] ELSE back[j - Len(front)]
    BY <1>2, <1>3, ConcatProperties
  <2>2. Len(front) = k - 1 /\ Len(front) + Len(back) = Len(q) - 1
    BY <1>1, <1>2, <1>3
  <2> QED BY <2>1, <2>2
<1>5. ASSUME NEW j \in 1..(Len(q) - 1)
      PROVE  (front \o back)[j] = IF j < k THEN q[j] ELSE q[j + 1]
  <2>1. CASE j < k
    BY <1>1, <1>2, <1>4, <2>1
  <2>2. CASE j >= k
    <3>1. j - (k - 1) \in 1..(Len(q) - k) /\ k + (j - (k - 1)) = j + 1
      BY <1>1, <2>2
    <3> QED BY <1>1, <1>3, <1>4, <2>2, <3>1
  <2>3. j < k \/ j >= k
    BY <1>1
  <2> QED BY <2>1, <2>2, <2>3
<1> QED BY <1>4, <1>5 DEF RemoveAt, front, back

\* s is the sums of the n deltas d.
SumsOf(s, d, n) ==
    /\ n \in Nat /\ s[0] = 0
    /\ \A j \in 1..n : s[j] \in Int /\ d[j] \in Int /\ s[j] = s[j - 1] + d[j]

\* The deltas d are d2 after one of them is split in two at i, so that time is
\* the new sum there.
Split(n, i, time, d, d2, s) ==
    /\ i \in Nat /\ 1 <= i /\ i <= n + 1 /\ time \in Int
    /\ \A j \in 1..n : j < i => d2[j] = d[j]
    /\ d2[i] = time - s[i - 1]
    /\ i <= n => d2[i + 1] = d[i] - d2[i]
    /\ \A j \in 1..n : j > i => d2[j + 1] = d[j]

\* The other sums stay.
LEMMA SumsInsert ==
    ASSUME NEW n, NEW i, NEW time, NEW d, NEW d2, NEW s, NEW s2,
           SumsOf(s, d, n), SumsOf(s2, d2, n + 1), Split(n, i, time, d, d2, s)
    PROVE  /\ \A j \in 1..n : j < i => s2[j] = s[j]
           /\ s2[i] = time
           /\ \A j \in 1..n : j >= i => s2[j + 1] = s[j]
<1> USE DEF SumsOf, Split
<1> DEFINE T == {j \in Nat : j < i => s2[j] = s[j]}
           U == {j \in Nat : j >= i /\ j <= n => s2[j + 1] = s[j]}
<1>0. \A j \in Nat : j <= n => s[j] \in Int
  <2> SUFFICES ASSUME NEW j \in Nat, j <= n PROVE s[j] \in Int
    OBVIOUS
  <2>1. j = 0 \/ j \in 1..n
    OBVIOUS
  <2> QED BY <2>1
<1>1. 0 \in T
  OBVIOUS
<1>2. ASSUME NEW j \in Nat, j \in T PROVE j + 1 \in T
  <2> SUFFICES ASSUME j + 1 < i PROVE s2[j + 1] = s[j + 1]
    BY <1>2
  <2>1. j + 1 \in 1..n /\ j + 1 \in 1..(n + 1) /\ j < i /\ (j + 1) - 1 = j
    BY <1>2
  <2>2. s2[j + 1] = s2[j] + d[j + 1] /\ s[j + 1] = s[j] + d[j + 1] /\ s2[j] = s[j]
    BY <1>2, <2>1
  <2> QED BY <2>2
<1> HIDE DEF T
<1>3. \A j \in Nat : j \in T
  BY <1>1, <1>2, NatInduct
<1>4. i - 1 \in Nat /\ i - 1 < i /\ i - 1 <= n /\ i \in 1..(n + 1)
  OBVIOUS
<1>5. s2[i] = time
  <2>1. s2[i] = s2[i - 1] + d2[i] /\ s2[i - 1] = s[i - 1] /\ s[i - 1] \in Int
    BY <1>0, <1>3, <1>4 DEF T
  <2> QED BY <2>1
<1>6. 0 \in U
  OBVIOUS
<1>7. ASSUME NEW j \in Nat, j \in U PROVE j + 1 \in U
  <2> SUFFICES ASSUME j + 1 >= i, j + 1 <= n PROVE s2[(j + 1) + 1] = s[j + 1]
    BY <1>7
  <2>1. j + 1 \in 1..n /\ (j + 1) + 1 \in 1..(n + 1) /\ (j + 1) - 1 = j /\ ((j + 1) + 1) - 1 = j + 1
    BY <1>7
  <2>2. /\ s2[(j + 1) + 1] = s2[j + 1] + d2[(j + 1) + 1]
        /\ s[j + 1] = s[j] + d[j + 1] /\ s[j] \in Int /\ d[j + 1] \in Int
    BY <1>0, <1>7, <2>1
  <2>3. CASE j + 1 = i
    <3>1. d2[(j + 1) + 1] = d[j + 1] - (time - s[j]) /\ s2[j + 1] = time
      BY <1>5, <2>1, <2>3
    <3> QED BY <2>2, <3>1
  <2>4. CASE j + 1 > i
    <3>1. j >= i /\ j <= n
      BY <1>7, <2>4
    <3>2. d2[(j + 1) + 1] = d[j + 1] /\ s2[j + 1] = s[j]
      BY <1>7, <2>1, <2>4, <3>1
    <3> QED BY <2>2, <3>2
  <2> QED BY <2>3, <2>4
<1> HIDE DEF U
<1>8. \A j \in Nat : j \in U
  BY <1>6, <1>7, NatInduct
<1> QED BY <1>3, <1>5, <1>8 DEF T, U

\* The deltas d are d2 after the k-th is added to the next.
Joined(n, k, d, d2) ==
    /\ k \in 1..n
    /\ \A j \in 1..n : j < k => d2[j] = d[j]
    /\ k < n => d2[k] = d[k + 1] + d[k]
    /\ \A j \in 1..n : j > k /\ j < n => d2[j] = d[j + 1]

\* The other sums stay.
LEMMA SumsRemove ==
    ASSUME NEW n, NEW k, NEW d, NEW d2, NEW s, NEW s2,
           SumsOf(s, d, n), SumsOf(s2, d2, n - 1), Joined(n, k, d, d2)
    PROVE  /\ \A j \in 1..n : j < k => s2[j] = s[j]
           /\ \A j \in 1..n : j >= k /\ j < n => s2[j] = s[j + 1]
<1> USE DEF SumsOf, Joined
<1> DEFINE T == {j \in Nat : j < k => s2[j] = s[j]}
           U == {j \in Nat : j >= k /\ j < n => s2[j] = s[j + 1]}
<1>0. \A j \in Nat : j <= n => s[j] \in Int
  <2> SUFFICES ASSUME NEW j \in Nat, j <= n PROVE s[j] \in Int
    OBVIOUS
  <2>1. j = 0 \/ j \in 1..n
    OBVIOUS
  <2> QED BY <2>1
<1>1. 0 \in T
  OBVIOUS
<1>2. ASSUME NEW j \in Nat, j \in T PROVE j + 1 \in T
  <2> SUFFICES ASSUME j + 1 < k PROVE s2[j + 1] = s[j + 1]
    BY <1>2
  <2>1. j + 1 \in 1..n /\ j + 1 \in 1..(n - 1) /\ j < k /\ (j + 1) - 1 = j
    BY <1>2
  <2>2. s2[j + 1] = s2[j] + d[j + 1] /\ s[j + 1] = s[j] + d[j + 1] /\ s2[j] = s[j]
    BY <1>2, <2>1
  <2> QED BY <2>2
<1> HIDE DEF T
<1>3. \A j \in Nat : j \in T
  BY <1>1, <1>2, NatInduct
<1>6. 0 \in U
  OBVIOUS
<1>7. ASSUME NEW j \in Nat, j \in U PROVE j + 1 \in U
  <2> SUFFICES ASSUME j + 1 >= k, j + 1 < n PROVE s2[j + 1] = s[(j + 1) + 1]
    BY <1>7
  <2>1. /\ j + 1 \in 1..n /\ j + 1 \in 1..(n - 1) /\ (j + 1) + 1 \in 1..n
        /\ (j + 1) - 1 = j /\ ((j + 1) + 1) - 1 = j + 1
    BY <1>7
  <2>2. /\ s2[j + 1] = s2[j] + d2[j + 1]
        /\ s[(j + 1) + 1] = s[j + 1] + d[(j + 1) + 1] /\ s[j + 1] = s[j] + d[j + 1]
        /\ s[j] \in Int /\ d[j + 1] \in Int /\ d[(j + 1) + 1] \in Int
    BY <1>0, <1>7, <2>1
  <2>3. CASE j + 1 = k
    <3>1. j < k /\ d2[j + 1] = d[(j + 1) + 1] + d[j + 1]
      BY <1>7, <2>1, <2>3
    <3>2. s2[j] = s[j]
      BY <1>3, <1>7, <3>1 DEF T
    <3> QED BY <2>2, <3>1, <3>2
  <2>4. CASE j + 1 > k
    <3>1. j >= k /\ j < n
      BY <1>7, <2>4
    <3>2. d2[j + 1] = d[(j + 1) + 1] /\ s2[j] = s[j + 1]
      BY <1>7, <2>1, <2>4, <3>1
    <3> QED BY <2>2, <3>2
  <2> QED BY <2>3, <2>4
<1> HIDE DEF U
<1>8. \A j \in Nat : j \in U
  BY <1>6, <1>7, NatInduct
<1> QED BY <1>3, <1>8 DEF T, U

\* The deltas d are d2 after the first k, which add up to 1, are gone (k > 0)
\* or 1 is taken from the first one (k = 0).
Ticks(n, k, d, d2) ==
    /\ k \in 0..n
    /\ \A j \in 1..k : d[j] = IF j = 1 THEN 1 ELSE 0
    /\ \A j \in 1..(n - k) : d2[j] = d[j + k] - (IF j + k = 1 THEN 1 ELSE 0)

\* Every sum goes down by 1.
LEMMA SumsTick ==
    ASSUME NEW n, NEW k, NEW d, NEW d2, NEW s, NEW s2,
           SumsOf(s, d, n), SumsOf(s2, d2, n - k), Ticks(n, k, d, d2)
    PROVE  /\ \A j \in 1..k : s[j] = 1
           /\ \A j \in 1..(n - k) : s2[j] = s[j + k] - 1
<1> USE DEF SumsOf, Ticks
<1> DEFINE T == {j \in Nat : 1 <= j /\ j <= k => s[j] = 1}
           U == {j \in Nat : 1 <= j /\ j <= n - k => s2[j] = s[j + k] - 1}
<1>0. \A j \in Nat : j <= n => s[j] \in Int
  <2> SUFFICES ASSUME NEW j \in Nat, j <= n PROVE s[j] \in Int
    OBVIOUS
  <2>1. j = 0 \/ j \in 1..n
    OBVIOUS
  <2> QED BY <2>1
<1>1. 0 \in T
  OBVIOUS
<1>2. ASSUME NEW j \in Nat, j \in T PROVE j + 1 \in T
  <2> SUFFICES ASSUME j + 1 <= k PROVE s[j + 1] = 1
    BY <1>2
  <2>1. j + 1 \in 1..n /\ j + 1 \in 1..k /\ (j + 1) - 1 = j
    BY <1>2
  <2>2. s[j + 1] = s[j] + d[j + 1] /\ d[j + 1] = IF j + 1 = 1 THEN 1 ELSE 0
    BY <2>1
  <2>3. CASE j = 0
    BY <2>2, <2>3
  <2>4. CASE j # 0
    <3>1. s[j] = 1 /\ d[j + 1] = 0
      BY <1>2, <2>2, <2>4
    <3> QED BY <2>2, <3>1
  <2> QED BY <2>3, <2>4
<1> HIDE DEF T
<1>3. \A j \in Nat : j \in T
  BY <1>1, <1>2, NatInduct
<1>6. 0 \in U
  OBVIOUS
<1>7. ASSUME NEW j \in Nat, j \in U PROVE j + 1 \in U
  <2> SUFFICES ASSUME j + 1 <= n - k PROVE s2[j + 1] = s[(j + 1) + k] - 1
    BY <1>7
  <2> DEFINE m == j + k
  <2>1. /\ j + 1 \in 1..(n - k) /\ (j + 1) - 1 = j /\ (j + 1) + k = m + 1
        /\ m \in Nat /\ m <= n /\ m + 1 \in 1..n /\ (m + 1) - 1 = m
    BY <1>7
  <2>2. /\ s2[j + 1] = s2[j] + d2[j + 1]
        /\ d2[j + 1] = d[m + 1] - (IF m + 1 = 1 THEN 1 ELSE 0)
        /\ s[m + 1] = s[m] + d[m + 1] /\ s[m] \in Int /\ d[m + 1] \in Int
    <3> HIDE DEF m
    <3>1. d2[j + 1] = d[(j + 1) + k] - (IF (j + 1) + k = 1 THEN 1 ELSE 0)
      BY <2>1
    <3> QED BY <1>0, <2>1, <3>1
  <2>3. CASE j = 0 /\ k = 0
    <3>1. m = 0 /\ s[m] = 0 /\ s2[j] = 0
      BY <2>3
    <3> HIDE DEF m
    <3> QED BY <2>1, <2>2, <3>1
  <2>4. CASE j = 0 /\ k # 0
    <3>1. m = k /\ s2[j] = 0
      BY <2>4
    <3>2. s[m] = 1 /\ m # 0
      BY <1>3, <2>4, <3>1 DEF T
    <3> HIDE DEF m
    <3> QED BY <2>1, <2>2, <3>1, <3>2
  <2>5. CASE j # 0
    <3>1. s2[j] = s[m] - 1 /\ m # 0
      BY <1>7, <2>1, <2>5
    <3> HIDE DEF m
    <3> QED BY <2>1, <2>2, <3>1
  <2> QED BY <2>3, <2>4, <2>5
<1> HIDE DEF U
<1>8. \A j \in Nat : j \in U
  BY <1>6, <1>7, NatInduct
<1> QED BY <1>3, <1>8 DEF T, U

\* The values V are what the sums say of the list q2, which holds S2, and 0
\* elsewhere.
Leaves(q2, S2, r2, V) ==
    /\ q2 \in Seq(Slots) /\ Lists(q2, S2)
    /\ \A j \in 1..Len(q2) : Sums(q2, r2)[j] = V[q2[j]]
    /\ \A p \in Slots \ S2 : V[p] = 0
    /\ V = [p \in Slots |-> V[p]]

\* Then they are what is left of each sleep.
LEMMA LeftBecomes ==
    ASSUME NEW q2, NEW S2, NEW r2, NEW V, Leaves(q2, S2, r2, V)
    PROVE  LeftOf(q2, r2) = V
<1> USE DEF Leaves
<1>1. ASSUME NEW p \in Slots PROVE LeftOf(q2, r2)[p] = V[p]
  <2>1. CASE p \in S2
    <3>1. PICK j \in 1..Len(q2) : p = q2[j]
      BY <2>1, LeftAt
    <3> QED BY <3>1, LeftAt
  <2>2. CASE p \notin S2
    BY <2>2, LeftAt
  <2> QED BY <2>1, <2>2
<1> DEFINE L == LeftOf(q2, r2)
<1>2. L = [p \in Slots |-> L[p]]
  BY DEF LeftOf
<1> HIDE DEF L
<1> QED BY <1>1, <1>2 DEF L

\* A sleeper e inserted at i, where time lies between the sums before it and
\* after it, with the rest of time as its delta, which the sleeper after it
\* gives up.
Inserts(q, r, e, i, time, r2) ==
    /\ time \in Nat /\ time >= 1 /\ i \in 1..(Len(q) + 1)
    /\ i <= Len(q) => time <= Sums(q, r)[i]
    /\ i > 1 => Sums(q, r)[i - 1] < time
    /\ r2 \in [Procs -> Int] /\ r2[e] = time - Sums(q, r)[i - 1]
    /\ i <= Len(q) => r2[q[i]] = r[q[i]] - r2[e]
    /\ \A p \in Procs : p # e /\ ~(i <= Len(q) /\ p = q[i]) => r2[p] = r[p]

\* Everybody else keeps what is left.
LEMMA LeftInsert ==
    ASSUME NEW q \in Seq(Slots), NEW S, Lists(q, S), NEW r, Deltas(q, r),
           NEW e \in Slots, e \notin S, NEW time, NEW i, NEW r2, Inserts(q, r, e, i, time, r2)
    PROVE  /\ Deltas(InsertAt(q, i, e), r2)
           /\ LeftOf(InsertAt(q, i, e), r2) = [LeftOf(q, r) EXCEPT ![e] = time]
<1> DEFINE n  == Len(q)
           q2 == InsertAt(q, i, e)
           s  == Sums(q, r)
           s2 == Sums(q2, r2)
           d  == [j \in 1..n |-> r[q[j]]]
           d2 == [j \in 1..(n + 1) |-> r2[q2[j]]]
           L  == LeftOf(q, r)
           V  == [L EXCEPT ![e] = time]
<1>0. i \in 1..(n + 1)
  BY DEF Inserts
<1>1. /\ n \in Nat /\ s[0] = 0
      /\ \A j \in 1..n : /\ q[j] \in Procs /\ d[j] = r[q[j]] /\ d[j] \in Int /\ d[j] >= 0
                         /\ s[j] = s[j - 1] + d[j] /\ s[j] \in Int
  <2>1. \A j \in 1..n : j \in 0..n
    BY SumsGrow
  <2> QED BY <2>1, SumsGrow
<1>2. /\ q2 \in Seq(Slots) /\ Len(q2) = n + 1
      /\ \A j \in 1..(n + 1) : q2[j] = IF j < i THEN q[j] ELSE IF j = i THEN e ELSE q[j - 1]
  BY <1>0, InsertElements
<1>3. Lists(q2, S \cup {e})
  BY <1>0, InsertLists
<1>4. /\ \A j \in 1..n : q[j] \in S /\ q[j] # e /\ L[q[j]] = s[j]
      /\ \A p \in Slots \ S : L[p] = 0
      /\ \A j, k \in 1..n : q[j] = q[k] => j = k
  BY LeftAt
<1>5. /\ i \in Nat /\ 1 <= i /\ i <= n + 1 /\ time \in Nat /\ time \in Int /\ time >= 1
      /\ i <= n => time <= s[i]
      /\ i > 1 => s[i - 1] < time
      /\ r2[e] = time - s[i - 1]
      /\ i <= n => r2[q[i]] = r[q[i]] - r2[e]
      /\ \A p \in Procs : p # e /\ ~(i <= n /\ p = q[i]) => r2[p] = r[p]
      /\ r2 \in [Procs -> Int]
  BY <1>0, <1>1 DEF Inserts
<1>6. n # 0 => d[1] >= 1
  <2>1. n # 0 => q # <<>> /\ 1 \in 1..n
    BY <1>1, EmptySeq
  <2> QED BY <2>1 DEF Deltas
<1>7. /\ \A j \in 1..(n + 1) : d2[j] = r2[q2[j]]
      /\ L = [p \in Slots |-> L[p]]
  BY DEF LeftOf
<1>8. V = [p \in Slots |-> IF p = e THEN time ELSE L[p]]
  <2> HIDE DEF L
  <2> QED BY <1>7
<1> HIDE DEF n, q2, s, s2, d, d2, L, V
<1>9. /\ \A j \in 1..n : j < i => d2[j] = d[j]
      /\ d2[i] = time - s[i - 1]
      /\ i <= n => d2[i + 1] = d[i] - d2[i]
      /\ \A j \in 1..n : j > i => d2[j + 1] = d[j]
  <2>1. ASSUME NEW j \in 1..n, j # i PROVE r2[q[j]] = d[j]
    <3>1. ~(i <= n /\ q[j] = q[i])
      BY <1>1, <1>4, <1>5, <2>1
    <3> QED BY <1>1, <1>4, <1>5, <3>1
  <2>2. ASSUME NEW j \in 1..n, j < i PROVE d2[j] = d[j]
    <3>1. j \in 1..(n + 1) /\ j # i
      BY <1>1, <1>5, <2>2
    <3> QED BY <1>2, <1>7, <2>1, <2>2, <3>1
  <2>3. d2[i] = r2[e] /\ i \in 1..(n + 1)
    BY <1>1, <1>2, <1>5, <1>7
  <2>4. ASSUME NEW j \in 1..n, j >= i PROVE d2[j + 1] = r2[q[j]]
    <3>1. j + 1 \in 1..(n + 1) /\ ~(j + 1 < i) /\ j + 1 # i /\ (j + 1) - 1 = j
      BY <1>1, <1>5, <2>4
    <3> QED BY <1>2, <1>7, <3>1
  <2>5. \A j \in 1..n : j > i => j >= i /\ j # i
    BY <1>1, <1>5
  <2>6. i <= n => i \in 1..n /\ i >= i
    BY <1>5
  <2> QED BY <1>1, <1>5, <2>1, <2>2, <2>3, <2>4, <2>5, <2>6
<1>10. s[i - 1] < time /\ s[i - 1] \in Int
  <2>1. CASE i = 1
    BY <1>1, <1>5, <2>1
  <2>2. CASE i # 1
    <3>1. i - 1 \in 1..n /\ i > 1
      BY <1>1, <1>5, <2>2
    <3> QED BY <1>1, <1>5, <3>1
  <2> QED BY <2>1, <2>2
<1>11. \A j \in 1..(n + 1) : d2[j] >= 0 /\ (j = 1 => d2[j] >= 1)
  <2> SUFFICES ASSUME NEW j \in 1..(n + 1) PROVE d2[j] >= 0 /\ (j = 1 => d2[j] >= 1)
    OBVIOUS
  <2>1. CASE j < i
    <3>1. j \in 1..n
      BY <1>1, <1>5, <2>1
    <3> QED BY <1>1, <1>6, <1>9, <2>1, <3>1
  <2>2. CASE j = i
    BY <1>5, <1>9, <1>10, <2>2
  <2>3. CASE j = i + 1
    <3>1. i \in 1..n /\ i <= n /\ j # 1
      BY <1>1, <1>5, <2>3
    <3>2. d2[j] = d[i] - (time - s[i - 1]) /\ s[i] = s[i - 1] + d[i] /\ time <= s[i] /\ d[i] \in Int
      BY <1>1, <1>5, <1>9, <2>3, <3>1
    <3> QED BY <1>5, <1>10, <3>1, <3>2
  <2>4. CASE j > i + 1
    <3>1. j - 1 \in 1..n /\ j - 1 > i /\ (j - 1) + 1 = j /\ j # 1
      BY <1>1, <1>5, <2>4
    <3>2. d2[j] = d[j - 1]
      BY <1>9, <3>1
    <3> QED BY <1>1, <3>1, <3>2
  <2> QED BY <1>1, <1>5, <2>1, <2>2, <2>3, <2>4
<1>12. Deltas(q2, r2)
  <2>1. 1 \in 1..(n + 1)
    BY <1>1
  <2> QED BY <1>2, <1>5, <1>7, <1>11, <2>1 DEF Deltas
<1>13. /\ s2[0] = 0
       /\ \A j \in 1..(n + 1) : s2[j] = s2[j - 1] + d2[j]
       /\ \A j \in 1..(n + 1) : s2[j] \in Int /\ d2[j] \in Int
  <2>1. \A j \in 1..(n + 1) : j \in 0..(n + 1)
    BY <1>1
  <2> QED BY <1>2, <1>7, <1>12, <2>1, SumsGrow DEF s2
<1>14. /\ \A j \in 1..n : j < i => s2[j] = s[j]
       /\ s2[i] = time
       /\ \A j \in 1..n : j >= i => s2[j + 1] = s[j]
  <2>1. SumsOf(s, d, n) /\ SumsOf(s2, d2, n + 1)
    BY <1>1, <1>13 DEF SumsOf
  <2>2. Split(n, i, time, d, d2, s)
    BY <1>5, <1>9 DEF Split
  <2> QED BY <2>1, <2>2, SumsInsert
<1>15. \A j \in 1..(n + 1) : s2[j] = V[q2[j]]
  <2> SUFFICES ASSUME NEW j \in 1..(n + 1) PROVE s2[j] = V[q2[j]]
    OBVIOUS
  <2>0. \A k \in 1..n : q[k] \in Slots /\ V[q[k]] = s[k]
    BY <1>4, <1>8, ElementOfSeq DEF n
  <2>1. CASE j < i
    <3>1. j \in 1..n
      BY <1>1, <1>5, <2>1
    <3>2. s2[j] = s[j] /\ q2[j] = q[j]
      BY <1>2, <1>14, <2>1, <3>1
    <3> QED BY <2>0, <3>1, <3>2
  <2>2. CASE j = i
    BY <1>2, <1>8, <1>14, <2>2
  <2>3. CASE j > i
    <3>1. j - 1 \in 1..n /\ j - 1 >= i /\ (j - 1) + 1 = j /\ ~(j < i) /\ j # i
      BY <1>1, <1>5, <2>3
    <3>2. s2[j] = s[j - 1] /\ q2[j] = q[j - 1]
      BY <1>2, <1>14, <3>1
    <3> QED BY <2>0, <3>1, <3>2
  <2> QED BY <1>1, <1>5, <2>1, <2>2, <2>3
<1>16. Leaves(q2, S \cup {e}, r2, V)
  <2>1. \A p \in Slots \ (S \cup {e}) : V[p] = 0
    BY <1>4, <1>8
  <2>2. V = [p \in Slots |-> V[p]]
    BY <1>8
  <2>3. \A j \in 1..Len(q2) : Sums(q2, r2)[j] = V[q2[j]]
    BY <1>2, <1>15 DEF s2
  <2> QED BY <1>2, <1>3, <2>1, <2>2, <2>3 DEF Leaves
<1>17. LeftOf(q2, r2) = V
  BY <1>16, LeftBecomes
<1> QED BY <1>12, <1>17 DEF q2, V, L

\* The k-th sleeper leaves, and the next one takes over its delta.
Removes(q, r, k, r2) ==
    /\ k \in 1..Len(q)
    /\ r2 \in [Procs -> Int]
    /\ k < Len(q) => r2[q[k + 1]] = r[q[k + 1]] + r[q[k]]
    /\ \A p \in Procs : p # q[k] /\ ~(k < Len(q) /\ p = q[k + 1]) => r2[p] = r[p]

\* Nothing is left of its sleep, and everybody else keeps what is left.
LEMMA LeftRemove ==
    ASSUME NEW q \in Seq(Slots), NEW S, Lists(q, S), NEW r, Deltas(q, r),
           NEW k, NEW r2, Removes(q, r, k, r2), Lists(RemoveAt(q, k), S \ {q[k]})
    PROVE  /\ Deltas(RemoveAt(q, k), r2)
           /\ LeftOf(RemoveAt(q, k), r2) = [LeftOf(q, r) EXCEPT ![q[k]] = 0]
<1> DEFINE n  == Len(q)
           e  == q[k]
           q2 == RemoveAt(q, k)
           s  == Sums(q, r)
           s2 == Sums(q2, r2)
           d  == [j \in 1..n |-> r[q[j]]]
           d2 == [j \in 1..(n - 1) |-> r2[q2[j]]]
           L  == LeftOf(q, r)
           V  == [L EXCEPT ![e] = 0]
<1>0. k \in 1..n /\ Lists(q2, S \ {e})
  BY DEF Removes
<1>1. /\ n \in Nat /\ s[0] = 0
      /\ \A j \in 1..n : /\ q[j] \in Slots /\ q[j] \in Procs
                         /\ d[j] = r[q[j]] /\ d[j] \in Int /\ d[j] >= 0
                         /\ s[j] = s[j - 1] + d[j] /\ s[j] \in Int
  <2>1. \A j \in 1..n : j \in 0..n
    BY SumsGrow
  <2> QED BY <2>1, SumsGrow
<1>2. /\ q2 \in Seq(Slots) /\ Len(q2) = n - 1
      /\ \A j \in 1..(n - 1) : q2[j] = IF j < k THEN q[j] ELSE q[j + 1]
  BY <1>0, RemoveElements
<1>4. /\ \A j \in 1..n : q[j] \in S /\ L[q[j]] = s[j]
      /\ \A p \in Slots \ S : L[p] = 0
      /\ \A i, j \in 1..n : q[i] = q[j] => i = j
  BY LeftAt
<1>5. /\ k \in Nat /\ 1 <= k /\ k <= n /\ e = q[k]
      /\ k < n => r2[q[k + 1]] = r[q[k + 1]] + r[q[k]]
      /\ \A p \in Procs : p # q[k] /\ ~(k < n /\ p = q[k + 1]) => r2[p] = r[p]
      /\ r2 \in [Procs -> Int]
  BY <1>0, <1>1 DEF Removes
<1>6. n # 0 => d[1] >= 1
  <2>1. n # 0 => q # <<>> /\ 1 \in 1..n
    BY <1>1, EmptySeq
  <2> QED BY <2>1 DEF Deltas
<1>7. /\ \A j \in 1..(n - 1) : d2[j] = r2[q2[j]]
      /\ L = [p \in Slots |-> L[p]]
  BY DEF LeftOf
<1>8. V = [p \in Slots |-> IF p = e THEN 0 ELSE L[p]]
  <2> HIDE DEF L
  <2> QED BY <1>7
<1> HIDE DEF n, e, q2, s, s2, d, d2, L, V
<1>9. Joined(n, k, d, d2)
  <2>1. ASSUME NEW j \in 1..n, j # k, j # k + 1 PROVE r2[q[j]] = d[j]
    <3>1. q[j] # q[k] /\ ~(k < n /\ q[j] = q[k + 1])
      <4>1. k \in 1..n /\ (k < n => k + 1 \in 1..n)
        BY <1>1, <1>5
      <4> QED BY <1>4, <2>1, <4>1
    <3> QED BY <1>1, <1>5, <3>1
  <2>2. ASSUME NEW j \in 1..n, j < k PROVE d2[j] = d[j]
    <3>1. j \in 1..(n - 1) /\ j # k /\ j # k + 1
      BY <1>1, <1>5, <2>2
    <3> QED BY <1>2, <1>7, <2>1, <2>2, <3>1
  <2>3. ASSUME k < n PROVE d2[k] = d[k + 1] + d[k]
    <3>1. k \in 1..(n - 1) /\ ~(k < k) /\ k + 1 \in 1..n /\ k \in 1..n
      BY <1>1, <1>5, <2>3
    <3> QED BY <1>1, <1>2, <1>5, <1>7, <2>3, <3>1
  <2>4. ASSUME NEW j \in 1..n, j > k /\ j < n PROVE d2[j] = d[j + 1]
    <3>1. j \in 1..(n - 1) /\ ~(j < k) /\ j + 1 \in 1..n /\ j + 1 # k /\ j + 1 # k + 1
      BY <1>1, <1>5, <2>4
    <3> QED BY <1>2, <1>7, <2>1, <3>1
  <2> QED BY <1>0, <2>2, <2>3, <2>4 DEF Joined, n
<1>10. \A j \in 1..(n - 1) : d2[j] \in Int /\ d2[j] >= 0 /\ (j = 1 => d2[j] >= 1)
  <2> SUFFICES ASSUME NEW j \in 1..(n - 1)
               PROVE  d2[j] \in Int /\ d2[j] >= 0 /\ (j = 1 => d2[j] >= 1)
    OBVIOUS
  <2>0. j \in 1..n /\ j + 1 \in 1..n /\ j < n /\ n # 0
    BY <1>1
  <2>1. CASE j < k
    <3>1. d2[j] = d[j]
      BY <1>9, <2>0, <2>1 DEF Joined
    <3> QED BY <1>1, <1>6, <2>0, <3>1
  <2>2. CASE j = k
    <3>1. d2[j] = d[j + 1] + d[j]
      BY <1>9, <2>0, <2>2 DEF Joined
    <3> QED BY <1>1, <1>6, <2>0, <3>1
  <2>3. CASE j > k
    <3>1. d2[j] = d[j + 1] /\ j # 1
      BY <1>5, <1>9, <2>0, <2>3 DEF Joined
    <3> QED BY <1>1, <2>0, <3>1
  <2> QED BY <1>1, <1>5, <2>1, <2>2, <2>3
<1>11. Deltas(q2, r2)
  <2>1. q2 # <<>> => 1 \in 1..(n - 1)
    BY <1>1, <1>2, EmptySeq
  <2> QED BY <1>2, <1>5, <1>7, <1>10, <2>1 DEF Deltas
<1>12. SumsOf(s, d, n) /\ SumsOf(s2, d2, n - 1)
  <2>1. n - 1 \in Nat /\ \A j \in 1..(n - 1) : j \in 0..(n - 1)
    BY <1>1, <1>5
  <2>2. s2[0] = 0 /\ \A j \in 1..(n - 1) : s2[j] = s2[j - 1] + d2[j] /\ s2[j] \in Int
    BY <1>2, <1>7, <1>11, <2>1, SumsGrow DEF s2
  <2> QED BY <1>1, <1>10, <2>1, <2>2 DEF SumsOf
<1>13. /\ \A j \in 1..n : j < k => s2[j] = s[j]
       /\ \A j \in 1..n : j >= k /\ j < n => s2[j] = s[j + 1]
  BY <1>9, <1>12, SumsRemove
<1>14. \A j \in 1..(n - 1) : s2[j] = V[q2[j]]
  <2> SUFFICES ASSUME NEW j \in 1..(n - 1) PROVE s2[j] = V[q2[j]]
    OBVIOUS
  <2>0. \A i \in 1..n : i # k => V[q[i]] = s[i]
    BY <1>0, <1>1, <1>4, <1>5, <1>8 DEF n
  <2>1. CASE j < k
    <3>1. j \in 1..n /\ j # k
      BY <1>1, <1>5, <2>1
    <3> QED BY <1>2, <1>13, <2>0, <2>1, <3>1
  <2>2. CASE j >= k
    <3>1. j \in 1..n /\ j + 1 \in 1..n /\ j + 1 # k /\ ~(j < k) /\ j < n
      BY <1>1, <1>5, <2>2
    <3> QED BY <1>2, <1>13, <2>0, <2>2, <3>1
  <2> QED BY <1>1, <1>5, <2>1, <2>2
<1>15. Leaves(q2, S \ {e}, r2, V)
  <2>1. \A p \in Slots \ (S \ {e}) : V[p] = 0
    BY <1>4, <1>8
  <2>2. V = [p \in Slots |-> V[p]]
    BY <1>8
  <2>3. \A j \in 1..Len(q2) : Sums(q2, r2)[j] = V[q2[j]]
    BY <1>2, <1>14 DEF s2
  <2> QED BY <1>0, <1>2, <2>1, <2>2, <2>3 DEF Leaves
<1>16. LeftOf(q2, r2) = V
  BY <1>15, LeftBecomes
<1> QED BY <1>11, <1>16 DEF q2, V, L, e

\* A tick takes 1 from the delta of the first sleeper, and takes the first k
\* from the list: those whose delta is used up.
Expires(q, r, k, r2) ==
    LET n == Len(q)
        t == [j \in 1..n |-> r[q[j]] - IF j = 1 THEN 1 ELSE 0]
    IN  /\ k \in 0..n
        /\ \A j \in 1..k : t[j] <= 0
        /\ k < n => t[k + 1] > 0
        /\ r2 \in [Procs -> Int]
        /\ \A j \in 1..n : j > k => r2[q[j]] = t[j]

\* Those k had 1 left, and everybody has 1 less left.
LEMMA LeftTick ==
    ASSUME NEW q \in Seq(Slots), NEW S, Lists(q, S), NEW r, Deltas(q, r),
           NEW k, NEW r2, Expires(q, r, k, r2),
           NEW S2, Lists(SubSeq(q, k + 1, Len(q)), S2)
    PROVE  /\ Deltas(SubSeq(q, k + 1, Len(q)), r2)
           /\ \A j \in 1..k : r[q[j]] = (IF j = 1 THEN 1 ELSE 0) /\ LeftOf(q, r)[q[j]] = 1
           /\ LeftOf(SubSeq(q, k + 1, Len(q)), r2) =
                 [p \in Slots |-> IF LeftOf(q, r)[p] > 0 THEN LeftOf(q, r)[p] - 1 ELSE 0]
<1> DEFINE n  == Len(q)
           q2 == SubSeq(q, k + 1, n)
           s  == Sums(q, r)
           s2 == Sums(q2, r2)
           d  == [j \in 1..n |-> r[q[j]]]
           d2 == [j \in 1..(n - k) |-> r2[q2[j]]]
           t  == [j \in 1..n |-> r[q[j]] - IF j = 1 THEN 1 ELSE 0]
           L  == LeftOf(q, r)
           V  == [p \in Slots |-> IF L[p] > 0 THEN L[p] - 1 ELSE 0]
<1>0. /\ k \in 0..n /\ Lists(q2, S2)
      /\ \A j \in 1..k : t[j] <= 0
      /\ k < n => t[k + 1] > 0
      /\ r2 \in [Procs -> Int]
      /\ \A j \in 1..n : j > k => r2[q[j]] = t[j]
  BY DEF Expires
<1>1. /\ n \in Nat /\ s[0] = 0
      /\ \A j \in 1..n : /\ q[j] \in Slots /\ q[j] \in Procs
                         /\ d[j] = r[q[j]] /\ d[j] \in Int /\ d[j] >= 0
                         /\ s[j] = s[j - 1] + d[j] /\ s[j] \in Int /\ s[j] >= 1
                         /\ t[j] = d[j] - (IF j = 1 THEN 1 ELSE 0)
  <2>1. \A j \in 1..n : j \in 0..n
    BY SumsGrow
  <2> QED BY <2>1, SumsGrow
<1>2. /\ q2 \in Seq(Slots) /\ Len(q2) = n - k
      /\ \A j \in 1..(n - k) : q2[j] = q[j + k]
  <2>1. /\ \A j \in (k + 1)..n : q[j] \in Slots
        /\ k + 1 \in Int /\ n \in Int /\ n - (k + 1) + 1 = n - k
        /\ (IF k + 1 <= n THEN n - (k + 1) + 1 ELSE 0) = n - k
        /\ \A j \in 1..(n - k) : (k + 1) + j - 1 = j + k
    BY <1>0, <1>1
  <2> QED BY <2>1, SubSeqProperties
<1>4. /\ \A j \in 1..n : q[j] \in S /\ L[q[j]] = s[j]
      /\ \A p \in Slots \ S : L[p] = 0
      /\ \A p \in S : \E j \in 1..n : p = q[j]
      /\ \A i, j \in 1..n : q[i] = q[j] => i = j
  BY SMTT(30), LeftAt
<1>6. n # 0 => d[1] >= 1
  <2>1. n # 0 => q # <<>> /\ 1 \in 1..n
    BY <1>1, EmptySeq
  <2> QED BY <2>1 DEF Deltas
<1>7. /\ \A j \in 1..(n - k) : d2[j] = r2[q2[j]]
      /\ V = [p \in Slots |-> V[p]]
      /\ \A p \in Slots : V[p] = IF L[p] > 0 THEN L[p] - 1 ELSE 0
  OBVIOUS
<1> HIDE DEF n, q2, s, s2, d, d2, t, L, V
<1>8. \A j \in 1..(n - k) : d2[j] = t[j + k]
  <2> SUFFICES ASSUME NEW j \in 1..(n - k) PROVE d2[j] = t[j + k]
    OBVIOUS
  <2>1. j + k \in 1..n /\ j + k > k
    BY <1>0, <1>1
  <2> QED BY SMTT(30), <1>0, <1>2, <1>7, <2>1
<1>9. Ticks(n, k, d, d2)
  <2>1. ASSUME NEW j \in 1..k PROVE d[j] = IF j = 1 THEN 1 ELSE 0
    <3>1. j \in 1..n /\ n # 0
      BY <1>0, <1>1
    <3>2. t[j] <= 0 /\ t[j] = d[j] - (IF j = 1 THEN 1 ELSE 0) /\ d[j] \in Int /\ d[j] >= 0
      BY <1>0, <1>1, <3>1
    <3>3. CASE j = 1
      BY <1>6, <3>1, <3>2, <3>3
    <3>4. CASE j # 1
      BY <3>2, <3>4
    <3> QED BY <3>3, <3>4
  <2>2. ASSUME NEW j \in 1..(n - k) PROVE d2[j] = d[j + k] - (IF j + k = 1 THEN 1 ELSE 0)
    <3>1. j + k \in 1..n
      BY <1>0, <1>1
    <3> QED BY <1>1, <1>8, <3>1
  <2> QED BY <1>0, <2>1, <2>2 DEF Ticks
<1>10. \A j \in 1..(n - k) : d2[j] \in Int /\ d2[j] >= 0 /\ (j = 1 => d2[j] >= 1)
  <2> SUFFICES ASSUME NEW j \in 1..(n - k)
               PROVE  d2[j] \in Int /\ d2[j] >= 0 /\ (j = 1 => d2[j] >= 1)
    OBVIOUS
  <2>1. j + k \in 1..n /\ k < n /\ (j = 1 => j + k = k + 1) /\ (j # 1 => j + k # 1)
    BY <1>0, <1>1
  <2>2. t[j + k] \in Int /\ (j # 1 => t[j + k] >= 0)
    BY <1>1, <2>1
  <2> QED BY <1>0, <1>8, <2>1, <2>2
<1>11. Deltas(q2, r2)
  <2>1. q2 # <<>> => 1 \in 1..(n - k)
    BY <1>0, <1>1, <1>2, EmptySeq
  <2> QED BY <1>0, <1>2, <1>7, <1>10, <2>1 DEF Deltas
<1>12. SumsOf(s, d, n) /\ SumsOf(s2, d2, n - k)
  <2>1. n - k \in Nat /\ \A j \in 1..(n - k) : j \in 0..(n - k)
    BY <1>0, <1>1
  <2>2. s2[0] = 0 /\ \A j \in 1..(n - k) : s2[j] = s2[j - 1] + d2[j] /\ s2[j] \in Int
    BY <1>2, <1>7, <1>11, <2>1, SumsGrow DEF s2
  <2> QED BY <1>1, <1>10, <2>1, <2>2 DEF SumsOf
<1>13. /\ \A j \in 1..k : s[j] = 1
       /\ \A j \in 1..(n - k) : s2[j] = s[j + k] - 1
  BY <1>9, <1>12, SumsTick
<1>14. \A j \in 1..(n - k) : s2[j] = V[q2[j]]
  <2> SUFFICES ASSUME NEW j \in 1..(n - k) PROVE s2[j] = V[q2[j]]
    OBVIOUS
  <2>1. j + k \in 1..n
    BY <1>0, <1>1
  <2>2. /\ q2[j] = q[j + k] /\ q[j + k] \in Slots /\ L[q[j + k]] = s[j + k]
        /\ s[j + k] \in Int /\ s[j + k] >= 1
    BY <1>1, <1>2, <1>4, <2>1
  <2> QED BY <1>7, <1>13, <2>2
<1>15. ASSUME NEW p \in Slots \ S2 PROVE V[p] = 0
  <2>1. CASE p \notin S
    BY <1>4, <1>7, <2>1
  <2>2. CASE p \in S
    <3>1. PICK j \in 1..n : p = q[j]
      BY <1>4, <2>2
    <3>2. j \in 1..k
      <4>1. CASE j > k
        <5>1. j - k \in 1..(n - k) /\ (j - k) + k = j
          BY <1>0, <1>1, <4>1
        <5>2. q2[j - k] = p
          BY <1>2, <3>1, <5>1
        <5>3. q2[j - k] \in S2
          BY <1>0, <1>2, <5>1, LeftAt
        <5> QED BY <1>15, <5>2, <5>3
      <4> QED BY <1>0, <1>1, <4>1
    <3>3. L[p] = 1
      BY <1>4, <1>13, <3>1, <3>2
    <3> QED BY <1>7, <3>3
  <2> QED BY <2>1, <2>2
<1>16. Leaves(q2, S2, r2, V)
  <2>1. \A j \in 1..Len(q2) : Sums(q2, r2)[j] = V[q2[j]]
    BY <1>2, <1>14 DEF s2
  <2> QED BY <1>0, <1>2, <1>7, <1>15, <2>1 DEF Leaves
<1>17. LeftOf(q2, r2) = V
  BY <1>16, LeftBecomes
<1>18. ASSUME NEW j \in 1..k PROVE r[q[j]] = (IF j = 1 THEN 1 ELSE 0) /\ L[q[j]] = 1
  <2>1. j \in 1..n
    BY <1>0, <1>1
  <2>2. d[j] = r[q[j]] /\ L[q[j]] = s[j] /\ s[j] = 1
    BY <1>1, <1>4, <1>13, <2>1
  <2>3. d[j] = IF j = 1 THEN 1 ELSE 0
    BY <1>9 DEF Ticks
  <2> QED BY <2>2, <2>3
<1> QED BY <1>11, <1>17, <1>18 DEF q2, V, L, n

-----------------------------------------------------------------------------
(* The handlers of sleep.c and what is left of each sleep *)


\* The ret fields of the sleepers are deltas: what inserting, removing and
\* ticking rely on.
SleepInv == Deltas(sleeping, ret)

\* tick takes one from the first delta, so one from what everybody has left,
\* and wakes exactly those who had one left.  It tells them 0.
LEMMA TimerLeft ==
    ASSUME IInv, ValueTypes, SleepInv, timer_handler
    PROVE  /\ SleepInv' /\ C!Tick
           /\ \A p \in ToSet(SubSeq(sleeping, 1, expired)) : left[p] = 1 /\ ret'[p] = 0
<1> DEFINE k == expired
           n == Len(sleeping)
           woken == SubSeq(sleeping, 1, k)
           rest  == SubSeq(sleeping, k + 1, n)
<1>1. /\ sleeping \in Seq(Slots) /\ n \in Nat /\ Lists(sleeping, Asleep)
      /\ \A j \in 1..n : sleeping[j] \in Slots /\ sleeping[j] \in Procs
  BY IInvTypes, IInvLists, SlotFacts
<1>2. k \in 0..n
  BY ExpiredRange
<1>3. \A j \in 1..n : /\ ticked(sleeping[j]) = ret[sleeping[j]] - IF j = 1 THEN 1 ELSE 0
                      /\ ret[sleeping[j]] \in Int /\ ticked(sleeping[j]) \in Int
  <2>1. \A i, j \in 1..n : sleeping[i] = sleeping[j] => i = j
    BY <1>1, LeftAt
  <2>2. ASSUME NEW j \in 1..n PROVE sleeping[j] = Head(sleeping) <=> j = 1
    <3>1. Head(sleeping) = sleeping[1] /\ 1 \in 1..n
      BY <1>1
    <3> QED BY <2>1, <3>1
  <2>3. \A j \in 1..n : ret[sleeping[j]] \in Int
    BY <1>1 DEF ValueTypes
  <2> HIDE DEF n
  <2> QED BY <2>2, <2>3 DEF ticked
<1>4. /\ \A j \in 1..k : ticked(sleeping[j]) <= 0
      /\ k < n => ticked(sleeping[k + 1]) > 0
  <2> DEFINE T == {i \in 1..n : ticked(sleeping[i]) > 0} \cup {n + 1}
             m == Min(T)
  <2>1. T \subseteq Nat /\ T # {}
    BY <1>1
  <2>2. m \in T /\ \A y \in T : m <= y
    BY <2>1, MinInSet
  <2>3. k = m - 1
    BY DEF expired
  <2>4. m \in 1..(n + 1)
    BY <1>1, <2>2
  <2> HIDE DEF m, k
  <2>5. ASSUME NEW j \in 1..k PROVE ticked(sleeping[j]) <= 0
    <3>1. j \in 1..n /\ ~(m <= j)
      BY <1>1, <2>3, <2>4
    <3>2. j \notin T
      BY <2>2, <3>1
    <3> QED BY <1>3, <3>1, <3>2
  <2>6. ASSUME k < n PROVE ticked(sleeping[k + 1]) > 0
    <3>1. k + 1 = m /\ m # n + 1
      BY <1>1, <2>3, <2>4, <2>6
    <3> QED BY <2>2, <3>1
  <2> QED BY <2>5, <2>6
<1>5. /\ rest \in Seq(Slots) /\ Lists(rest, Asleep \ ToSet(woken))
      /\ woken \in Seq(Slots) /\ ToSet(woken) \subseteq Asleep
      /\ Asleep = ToSet(sleeping)
  <2>1. Asleep = ToSet(sleeping)
    BY <1>1 DEF Lists
  <2> QED BY <1>1, <1>2, <2>1, CutLists
<1>6. DOMAIN woken = 1..k /\ \A j \in 1..k : woken[j] = sleeping[j]
  BY <1>1, <1>2, SubSeqProperties
<1>7. \A j \in 1..n : sleeping[j] \in ToSet(sleeping) /\ (j > k => sleeping[j] \notin ToSet(woken))
  <2> SUFFICES ASSUME NEW j \in 1..n, j > k, sleeping[j] \in ToSet(woken) PROVE FALSE
    BY <1>1, <1>5, LeftAt
  <2>1. PICK i \in 1..k : sleeping[j] = woken[i]
    BY <1>6 DEF ToSet
  <2>2. i \in 1..n /\ i # j
    BY <1>1, <1>2
  <2>3. sleeping[i] # sleeping[j]
    BY <1>1, <2>2, LeftAt
  <2> QED BY <1>6, <2>1, <2>3
<1>8. /\ sleeping' = rest
      /\ ret' = [p \in Procs |-> IF p \in ToSet(woken) THEN ticked(p) * TICK_LENGTH_IN_MS
                                 ELSE IF p \in ToSet(sleeping) THEN ticked(p) ELSE ret[p]]
  <2>1. \A p \in ToSet(woken) : /\ curr_state[p] = BLOCKED
                                /\ blocking_queue_name[p] = SLEEP /\ blocking_proc[p] = NULL
    BY <1>5 DEF Asleep, IInv, BlockersMatchStates, Queues
  <2>2. curr_state[currproc] # READY
    BY IInvTypes
  <2> QED BY <2>1, <2>2 DEF timer_handler, Asserting
<1>9. ret' \in [Procs -> Int]
  BY TimerValues DEF ValueTypes
<1> HIDE DEF k, n, woken
<1>10. Expires(sleeping, ret, k, ret')
  <2>1. ASSUME NEW j \in 1..n, j > k PROVE ret'[sleeping[j]] = ticked(sleeping[j])
    BY <1>1, <1>7, <1>8, <2>1
  <2>2. \A j \in 1..k : j \in 1..n
    BY <1>1, <1>2
  <2>3. k < n => k + 1 \in 1..n
    BY <1>1, <1>2
  <2> QED BY <1>2, <1>3, <1>4, <1>9, <2>1, <2>2, <2>3 DEF Expires, n
<1>11. Deltas(sleeping, ret)
  BY DEF SleepInv
<1>12. /\ Deltas(sleeping', ret')
       /\ \A j \in 1..k : /\ ret[sleeping[j]] = (IF j = 1 THEN 1 ELSE 0)
                          /\ LeftOf(sleeping, ret)[sleeping[j]] = 1
       /\ LeftOf(sleeping', ret') = [p \in Slots |-> IF LeftOf(sleeping, ret)[p] > 0
                                                     THEN LeftOf(sleeping, ret)[p] - 1 ELSE 0]
  <2>1. Lists(SubSeq(sleeping, k + 1, Len(sleeping)), Asleep \ ToSet(woken))
    BY <1>5 DEF n
  <2>2. sleeping' = SubSeq(sleeping, k + 1, Len(sleeping))
    BY <1>8 DEF n
  <2> HIDE DEF rest
  <2> QED BY <1>1, <1>10, <1>11, <2>1, <2>2, LeftTick
<1>13. ASSUME NEW p \in ToSet(woken) PROVE left[p] = 1 /\ ret'[p] = 0
  <2>1. PICK j \in 1..k : p = sleeping[j]
    BY <1>6 DEF ToSet
  <2>2. j \in 1..n /\ ticked(p) = 0
    BY <1>1, <1>2, <1>3, <1>12, <2>1
  <2>3. ret'[p] = ticked(p) * TICK_LENGTH_IN_MS
    BY <1>1, <1>8, <2>1, <2>2
  <2> QED BY <1>12, <2>1, <2>2, <2>3, LeftIs DEF TICK_LENGTH_IN_MS
<1>14. C!Tick
  BY <1>12, LeftIs DEF C!Tick
<1> QED BY <1>12, <1>13, <1>14 DEF SleepInv, Deltas, woken, k

\* syssleep puts the caller where the sums before it are below its time and
\* the sum at it is not; its delta is what is missing, and the sleeper after
\* it gives that up.  So the caller has its time left, and nobody else's
\* sleep changes.
LEMMA SleepLeft ==
    ASSUME IInv, ValueTypes, SleepInv, currproc # IdleProc,
           NEW milliseconds \in SleepTimes, milliseconds # 0, sleep(milliseconds)
    PROVE  SleepInv' /\ C!Sleep(currproc)
<1> DEFINE time == ticks(milliseconds)
           i == insert_position(time)
           n == Len(sleeping)
           s == Sums(sleeping, ret)
           delta == time - s[i - 1]
<1>1. /\ sleeping \in Seq(Slots) /\ n \in Nat /\ Lists(sleeping, Asleep)
      /\ currproc \in Slots /\ currproc \in Procs /\ currproc \notin Asleep
  BY SlotFacts, IInvTypes, IInvLists DEF Asleep
<1>2. time \in Nat /\ time >= 1
  BY TicksRange
<1>3. i \in 1..(n + 1)
  BY InsertRange
<1>4. Deltas(sleeping, ret)
  BY DEF SleepInv
<1>5. \A j \in 0..n : s[j] \in Int
  BY <1>1, <1>4, SumsGrow
<1>6. (i <= n => time <= s[i]) /\ (i > 1 => s[i - 1] < time)
  <2> DEFINE T == {j \in 1..n : time <= ticks_until[j]} \cup {n + 1}
  <2> HIDE DEF time
  <2>1. T \subseteq Nat /\ T # {}
    BY <1>1
  <2>2. i = Min(T) /\ ticks_until = s
    BY TicksAreSums DEF insert_position
  <2> HIDE DEF i, s
  <2>3. i \in T /\ \A y \in T : i <= y
    <3> HIDE DEF T
    <3> QED BY <2>1, <2>2, MinInSet
  <2>4. ASSUME i <= n PROVE time <= s[i]
    BY <1>1, <2>2, <2>3, <2>4
  <2>5. ASSUME i > 1 PROVE s[i - 1] < time
    <3>1. i - 1 \in 1..n /\ i - 1 \in 0..n /\ ~(i <= i - 1)
      BY <1>1, <1>3, <2>5
    <3>2. ~(time <= s[i - 1])
      BY <2>2, <2>3, <3>1
    <3> QED BY <1>2, <1>5, <3>1, <3>2
  <2> QED BY <2>4, <2>5
<1>7. sleeping' = InsertAt(sleeping, i, currproc) /\ ret' = inserted_ret(i, delta)
  BY TicksAreSums DEF sleep
<1>8. ret' \in [Procs -> Int]
  BY SleepValues DEF ValueTypes
<1> HIDE DEF time, i
<1>9. i - 1 \in 0..n /\ delta \in Int
  BY <1>1, <1>2, <1>3, <1>5
<1>10. Inserts(sleeping, ret, currproc, i, time, ret')
  <2>1. ret'[currproc] = delta
    BY <1>1, <1>7 DEF inserted_ret
  <2>2. ASSUME i <= n PROVE ret'[sleeping[i]] = ret[sleeping[i]] - delta
    <3>1. sleeping[i] \in Procs /\ sleeping[i] # currproc
      BY <1>1, <1>3, <2>2, LeftAt, SlotFacts DEF Asleep
    <3> QED BY <1>7, <2>2, <3>1 DEF inserted_ret
  <2>3. \A p \in Procs : p # currproc /\ ~(i <= n /\ p = sleeping[i]) => ret'[p] = ret[p]
    BY <1>7 DEF inserted_ret
  <2> QED BY <1>2, <1>3, <1>6, <1>8, <2>1, <2>2, <2>3 DEF Inserts
<1> HIDE DEF delta, s, n
<1>11. /\ Deltas(sleeping', ret')
       /\ LeftOf(sleeping', ret') = [LeftOf(sleeping, ret) EXCEPT ![currproc] = time]
  BY <1>1, <1>4, <1>7, <1>10, LeftInsert
<1>12. LeftOf(sleeping, ret)[currproc] = 0
  BY <1>1, LeftAt
<1>13. time \in {ticks(t) : t \in SleepTimes \ {0}}
  BY DEF time
<1> QED BY <1>11, <1>12, <1>13, LeftIs DEF C!Sleep, SleepInv, Deltas

\* Deltas changed for processes that are not asleep leave every sleep alone.
LEMMA QuietLeft ==
    ASSUME IInv, SleepInv, ret' \in [Procs -> Int],
           sleeping' = sleeping, \A p \in Asleep : ret'[p] = ret[p]
    PROVE  SleepInv' /\ left' = left
<1>1. sleeping \in Seq(Slots) /\ Lists(sleeping, Asleep) /\ Deltas(sleeping, ret)
  BY IInvTypes, IInvLists DEF SleepInv
<1>2. Deltas(sleeping, ret') /\ LeftOf(sleeping, ret') = LeftOf(sleeping, ret)
  <2>1. Agrees(sleeping, Asleep, ret, ret')
    BY <1>1 DEF Agrees
  <2> QED BY <1>1, <2>1, LeftSame
<1> QED BY <1>2, LeftIs DEF SleepInv, Deltas

\* The ret field of a sleeper is what it has left beyond the one before it.
LEMMA BeyondIs ==
    ASSUME IInv, SleepInv, NEW proc \in Asleep
    PROVE  beyond(proc) = ret[proc]
<1> DEFINE k == CHOOSE j \in DOMAIN sleeping : sleeping[j] = proc
           n == Len(sleeping)
           s == Sums(sleeping, ret)
<1>1. sleeping \in Seq(Slots) /\ Lists(sleeping, Asleep) /\ Deltas(sleeping, ret)
  BY IInvTypes, IInvLists DEF SleepInv
<1>2. k \in 1..n /\ sleeping[k] = proc
  <2>1. DOMAIN sleeping = 1..n /\ \E j \in 1..n : proc = sleeping[j]
    BY <1>1, LeftAt
  <2> QED BY <2>1
<1>3. \A i \in 1..n : left[sleeping[i]] = s[i]
  BY <1>1, LeftAt, LeftIs
<1>4. beyond(proc) = left[proc] - (IF k = 1 THEN 0 ELSE left[sleeping[k - 1]])
  BY DEF beyond
<1>5. /\ n \in Nat /\ s[0] = 0 /\ s[k] = s[k - 1] + ret[proc]
      /\ ret[proc] \in Int /\ s[k - 1] \in Nat
  <2> HIDE DEF k
  <2>1. k - 1 \in 0..n
    BY <1>2
  <2> QED BY <1>1, <1>2, <2>1, SumsGrow
<1> HIDE DEF k, s
<1>6. k = 1 \/ k - 1 \in 1..n
  BY <1>2, <1>5
<1>7. k \in Int /\ left[proc] = s[k] /\ s[k] - s[k - 1] = ret[proc]
  BY <1>2, <1>3, <1>5
<1>8. (IF k = 1 THEN 0 ELSE left[sleeping[k - 1]]) = s[k - 1]
  <2>1. CASE k = 1
    BY <1>5, <2>1
  <2>2. CASE k # 1
    BY <1>3, <1>6, <2>2
  <2> QED BY <2>1, <2>2
<1> QED BY <1>4, <1>7, <1>8

\* A signal that ends a sleep: the sleeper after it takes over its delta, so
\* only the one that is woken has its sleep cut short.  It is told its delta.
LEMMA KillLeft ==
    ASSUME IInv, ValueTypes, SleepInv,
           NEW proc \in Slots, NEW signal, set_proc_signal(proc, signal)
    PROVE  /\ SleepInv'
           /\ \/ left' = left
              \/ proc \in Asleep /\ C!Interrupt(proc)
           /\ proc \in Asleep /\ Ends(proc) => ret'[proc] = beyond(proc) * TICK_LENGTH_IN_MS
<1>1. /\ sleeping \in Seq(Slots) /\ Lists(sleeping, Asleep) /\ Deltas(sleeping, ret)
      /\ currproc \in Procs /\ currproc \notin Asleep /\ \A p \in Asleep : p \in Procs
  BY SlotFacts, IInvTypes, IInvLists DEF SleepInv, Asleep
<1>2. ret' \in [Procs -> Int]
  BY KillValues DEF ValueTypes
<1>3. CASE UNCHANGED <<sleeping, ret, curr_state>>
  BY <1>2, <1>3, QuietLeft DEF Ends
<1>4. CASE sleeping' = sleeping /\ ret' = [ret EXCEPT ![currproc] = 0] /\ proc \notin Asleep
  <2>1. \A p \in Asleep : ret'[p] = ret[p]
    BY <1>1, <1>4 DEF ValueTypes
  <2> QED BY <1>2, <1>4, <2>1, QuietLeft
<1>5. CASE curr_state[proc] = BLOCKED /\ resolve_blocking(proc) /\ blocking_queue_name[proc] # SLEEP
  <2>1. proc \notin Asleep /\ proc \in Procs /\ sleeping' = sleeping
    BY <1>5, SlotFacts DEF Asleep, resolve_blocking
  <2>2. \E code : ret' = [[ret EXCEPT ![proc] = code] EXCEPT ![currproc] = 0]
    BY <1>5 DEF resolve_blocking, interrupted_ret
  <2>3. \A p \in Asleep : ret'[p] = ret[p]
    BY <1>1, <2>1, <2>2 DEF ValueTypes
  <2> QED BY <1>2, <2>1, <2>3, QuietLeft
<1>6. CASE curr_state[proc] = BLOCKED /\ resolve_blocking(proc) /\ blocking_queue_name[proc] = SLEEP
  <2> DEFINE k == CHOOSE j \in DOMAIN sleeping : sleeping[j] = proc
             n == Len(sleeping)
             r2 == woken_ret(proc)
             next == sleeping[k + 1]
             L == LeftOf(sleeping, ret)
  <2>1. proc \in Asleep
    BY <1>6 DEF Asleep
  <2>2. /\ sleeping' = RemoveAt(sleeping, k)
        /\ ret' = [r2 EXCEPT ![currproc] = 0]
    BY <1>6 DEF resolve_blocking, interrupted_ret, remove_proc_from_queue
  <2>3. k \in 1..n /\ sleeping[k] = proc /\ n \in Nat
    <3>1. DOMAIN sleeping = 1..n /\ n \in Nat
      BY <1>1
    <3>2. \E j \in 1..n : proc = sleeping[j]
      BY <1>1, <2>1, LeftAt
    <3> QED BY <3>1, <3>2
  <2>4. r2 = [p \in Procs |-> IF p = proc THEN ret[proc] * 10
                              ELSE IF k < n /\ p = next THEN ret[p] + ret[proc] ELSE ret[p]]
    BY DEF woken_ret, TICK_LENGTH_IN_MS
  <2>5. \A p \in Procs : ret[p] \in Int
    BY DEF ValueTypes
  <2> HIDE DEF k, n, r2
  <2>6. proc \in Procs /\ ret[proc] \in Int /\ ret[proc] * 10 \in Int
    BY <2>5, SlotFacts
  <2>7. r2 \in [Procs -> Int]
    <3> HIDE DEF next
    <3> QED BY <2>4, <2>5, <2>6
  <2>8. Lists(RemoveAt(sleeping, k), Asleep \ {sleeping[k]}) /\ RemoveAt(sleeping, k) \in Seq(Slots)
    BY <1>1, <2>1, <2>3, RemoveLists DEF remove_proc_from_queue, k
  <2>9. k < n => k + 1 \in 1..n /\ next \in Procs /\ next # proc
    <3> SUFFICES ASSUME k < n PROVE k + 1 \in 1..n /\ next \in Procs /\ next # proc
      OBVIOUS
    <3>1. k + 1 \in 1..n /\ k + 1 # k
      BY <2>3
    <3> QED BY <1>1, <2>3, <3>1, LeftAt DEF n
  <2>10. Removes(sleeping, ret, k, r2)
    <3>1. \A p \in Procs : p # sleeping[k] /\ ~(k < n /\ p = next) => r2[p] = ret[p]
      BY <2>3, <2>4
    <3>2. k < n => r2[next] = ret[next] + ret[sleeping[k]]
      BY <2>3, <2>4, <2>9
    <3> QED BY <2>3, <2>7, <3>1, <3>2 DEF Removes, n
  <2>11. /\ Deltas(RemoveAt(sleeping, k), r2)
         /\ LeftOf(RemoveAt(sleeping, k), r2) = [L EXCEPT ![proc] = 0]
    BY <1>1, <2>3, <2>8, <2>10, LeftRemove
  <2>12. Deltas(sleeping', ret') /\ LeftOf(sleeping', ret') = [L EXCEPT ![proc] = 0]
    <3>1. \A p \in Asleep \ {proc} : ret'[p] = r2[p]
      BY <1>1, <2>2, <2>7
    <3> DEFINE q == RemoveAt(sleeping, k)
    <3>2. Agrees(q, Asleep \ {sleeping[k]}, r2, ret')
      BY <1>2, <2>3, <2>8, <2>11, <3>1 DEF Agrees
    <3>3. q \in Seq(Slots) /\ sleeping' = q /\ LeftOf(q, r2) = [L EXCEPT ![proc] = 0]
      BY <2>2, <2>8, <2>11
    <3> HIDE DEF q, L
    <3>4. Deltas(q, ret') /\ LeftOf(q, ret') = LeftOf(q, r2)
      BY <3>2, <3>3, LeftSame
    <3> QED BY <3>3, <3>4
  <2>13. L[proc] \in Nat /\ L[proc] >= 1
    <3>1. L[proc] = Sums(sleeping, ret)[k] /\ k \in 0..n
      BY <1>1, <2>3, LeftAt DEF n
    <3> QED BY <1>1, <2>3, <3>1, SumsGrow DEF n
  <2>14. left = L /\ left' = LeftOf(sleeping', ret')
    BY LeftIs
  <2> HIDE DEF L
  <2>15. C!Interrupt(proc)
    BY <2>12, <2>13, <2>14 DEF C!Interrupt
  <2>16. ret'[proc] = ret[proc] * 10
    BY <1>1, <2>1, <2>2, <2>4, <2>6, <2>7
  <2>17. beyond(proc) = ret[proc]
    BY <2>1, BeyondIs
  <2> QED BY <2>1, <2>12, <2>14, <2>15, <2>16, <2>17 DEF SleepInv, Deltas, TICK_LENGTH_IN_MS
<1>7. curr_state[proc] # BLOCKED => proc \notin Asleep
  BY DEF Asleep
<1> QED BY <1>3, <1>4, <1>5, <1>6, <1>7 DEF set_proc_signal, Asserting, listVars, pcbVars

\* Every step of the kernel is a tick, one sleep that begins or is cut short,
\* or leaves every sleep alone; and the ret fields of sleepers stay deltas,
\* although every other handler writes its return value into the same field.
LEMMA NextLeft ==
    ASSUME IInv, SignalTypes, ValueTypes, SleepInv, Next
    PROVE  SleepInv' /\ (C!Next \/ left' = left)
<1> USE SlotFacts
<1>t. ret' \in [Procs -> Int] /\ DOMAIN ret = Procs
  BY NextValueTypes DEF ValueTypes
<1>a. currproc \in Procs /\ currproc \notin Asleep /\ \A p \in Asleep : p \in Procs
  BY IInvTypes DEF Asleep
<1>q. ASSUME sleeping' = sleeping, \A p \in Asleep : ret'[p] = ret[p]
      PROVE  SleepInv' /\ (C!Next \/ left' = left)
  BY <1>t, <1>q, QuietLeft
<1>e. ASSUME sleeping' = sleeping, NEW code, ret' = [ret EXCEPT ![currproc] = code]
      PROVE  SleepInv' /\ (C!Next \/ left' = left)
  <2>1. \A p \in Asleep : ret'[p] = ret[p]
    BY <1>a, <1>e, <1>t
  <2> QED BY <1>e, <1>q, <2>1
<1>f. ASSUME sleeping' = sleeping, NEW p \in Procs, p \notin Asleep, NEW code, NEW answer,
             ret' = [ret EXCEPT ![p] = answer, ![currproc] = code]
      PROVE  SleepInv' /\ (C!Next \/ left' = left)
  <2>1. \A x \in Asleep : ret'[x] = ret[x]
    BY <1>a, <1>f, <1>t
  <2> QED BY <1>f, <1>q, <2>1
<1>u. ASSUME UNCHANGED <<sleeping, ret>> PROVE SleepInv' /\ (C!Next \/ left' = left)
  BY <1>q, <1>u
<1>r. ASSUME NEW code, Return(code) PROVE SleepInv' /\ (C!Next \/ left' = left)
  BY <1>r, <1>e DEF Return, listVars
<1>b. ASSUME NEW p \in Int, pid_to_proc(p) # NULL PROVE pid_to_proc(p) \in Slots
  BY <1>b, PidToProc
<1>1. CASE ctsw_contextswitch
  <2>1. sleeping' = sleeping /\ \E eax : ret' = [ret EXCEPT ![currproc] = eax]
    BY <1>1 DEF ctsw_contextswitch, listVars
  <2> QED BY <1>e, <2>1
<1>2. CASE timer_handler
  BY <1>2, TimerLeft DEF C!Next
<1>3. CASE dispatch_syscall_create
  <2>1. ASSUME create \/ create_without_table PROVE SleepInv' /\ (C!Next \/ left' = left)
    <3> DEFINE proc == Head(stopped)
    <3>1. proc \in Slots /\ curr_state[proc] = STOPPED
      BY <2>1, NextFree DEF create, create_without_table
    <3>2. proc \notin Asleep /\ proc \in Procs
      BY <3>1 DEF Asleep
    <3>3. \/ UNCHANGED <<sleeping, ret>>
          \/ /\ sleeping' = sleeping
             /\ \E code : ret' = [ret EXCEPT ![proc] = 0, ![currproc] = code]
      BY <2>1 DEF create, create_without_table, Asserting, listVars
    <3> HIDE DEF proc
    <3> QED BY <1>f, <1>u, <3>2, <3>3
  <2> QED BY <1>3, <1>r, <2>1 DEF dispatch_syscall_create
<1>4. CASE syscall_yield
  BY <1>4, <1>u DEF syscall_yield
<1>s. ASSUME cleanup_proc PROVE SleepInv' /\ (C!Next \/ left' = left)
  BY <1>s, <1>u DEF cleanup_proc, Asserting, listVars
<1>5. CASE syscall_stop \/ dispatch_syscall_sigreturn
  <2>1. CASE sigreturn
    <3>1. sleeping' = sleeping /\ \E code : ret' = [ret EXCEPT ![currproc] = code]
      BY <2>1 DEF sigreturn, listVars
    <3> QED BY <1>e, <3>1
  <2> QED BY <1>5, <1>s, <2>1 DEF syscall_stop, dispatch_syscall_sigreturn
<1>6. CASE syscall_getpid \/ dispatch_syscall_puts
  BY <1>6, <1>r, <1>u DEF syscall_getpid, dispatch_syscall_puts, Ignore, listVars
<1>7. CASE dispatch_syscall_kill
  <2>1. PICK target \in PidArgs, signal \in SignalArgs :
          \/ \E code : Return(code)
          \/ pid_to_proc(target) # NULL /\ set_proc_signal(pid_to_proc(target), signal)
    BY <1>7 DEF dispatch_syscall_kill
  <2>2. ASSUME NEW proc \in Slots, set_proc_signal(proc, signal)
        PROVE  SleepInv' /\ (C!Next \/ left' = left)
    BY <2>2, KillLeft DEF C!Next
  <2> QED BY <2>1, <2>2, <1>b, <1>r, PidAssumption
<1>o. ASSUME NEW owner, NEW queue, NEW code, block_on(owner, queue, code), sleeping' = sleeping
      PROVE  SleepInv' /\ (C!Next \/ left' = left)
  BY <1>e, <1>o DEF block_on
<1>8. CASE dispatch_syscall_wait
  BY <1>8, <1>o, <1>r DEF dispatch_syscall_wait
<1>m. ASSUME NEW p \in Slots, blocking_queue_name[p] \in {SENDER, RECEIVER, RECEIVE_ANY},
             \/ \E message : send_now(p, message)
             \/ \E len : recv_now(p, len)
      PROVE  SleepInv' /\ (C!Next \/ left' = left)
  <2>1. p \notin Asleep
    BY <1>m DEF Asleep
  <2>2. \/ UNCHANGED <<sleeping, ret>>
        \/ /\ sleeping' = sleeping
           /\ ret' = [ret EXCEPT ![p] = SYSPID_OK, ![currproc] = SYSPID_OK]
    BY <1>m DEF send_now, recv_now, Asserting, listVars
  <2> QED BY <1>f, <1>u, <2>1, <2>2
<1>9. CASE dispatch_syscall_send
  <2>1. PICK dest_pid \in PidArgs :
          \/ \E code : Return(code)
          \/ /\ pid_to_proc(dest_pid) # NULL
             /\ \E message \in Messages : \/ send_now(pid_to_proc(dest_pid), message)
                                          \/ send_blocks(pid_to_proc(dest_pid), message)
    BY <1>9 DEF dispatch_syscall_send
  <2>2. ASSUME NEW dest \in Slots, NEW message, send_now(dest, message)
        PROVE  SleepInv' /\ (C!Next \/ left' = left)
    BY <2>2, <1>m DEF send_now, receiver_waits, blocked_in
  <2>3. ASSUME NEW dest, NEW message, send_blocks(dest, message)
        PROVE  SleepInv' /\ (C!Next \/ left' = left)
    BY <2>3, <1>o DEF send_blocks
  <2> QED BY <2>1, <2>2, <2>3, <1>b, <1>r, PidAssumption
<1>10. CASE dispatch_syscall_recv
  <2>1. ASSUME NEW src \in Slots, NEW len, recv(src, len)
        PROVE  SleepInv' /\ (C!Next \/ left' = left)
    BY <2>1, <1>m, <1>o DEF recv, blocked_in
  <2>2. ASSUME NEW len, recv_any(len) PROVE SleepInv' /\ (C!Next \/ left' = left)
    <3> DEFINE senders == blocking_queue[currproc][SENDER]
    <3>1. senders # <<>> => Head(senders) \in Slots
      <4>1. senders \in Seq(Slots)
        BY IInvTypes DEF Queues
      <4> QED BY <4>1
    <3> HIDE DEF senders
    <3>2. CASE senders # <<>> /\ blocked_in(Head(senders), currproc, SENDER)
                 /\ recv_now(Head(senders), len)
      BY <1>m, <3>1, <3>2 DEF blocked_in
    <3>3. CASE Return(SYSERR_OTHER)
      BY <1>r, <3>3
    <3>4. CASE sleeping' = sleeping /\ ret' = [ret EXCEPT ![currproc] = SYSPID_DNE]
      BY <1>e, <3>4
    <3> QED BY <2>2, <3>2, <3>3, <3>4 DEF recv_any, senders
  <2>3. ASSUME NEW from \in PidArgs \cup {0}, pid_to_proc(from) # NULL PROVE pid_to_proc(from) \in Slots
    BY <1>b, <2>3, PidAssumption
  <2> QED BY <1>10, <1>r, <2>1, <2>2, <2>3 DEF dispatch_syscall_recv
<1>11. CASE dispatch_syscall_sleep
  <2>1. CASE Ignore
    BY <1>u, <2>1 DEF Ignore, listVars
  <2>2. currproc # IdleProc /\ currproc \in Slots
    BY <1>11, <1>a DEF dispatch_syscall_sleep, Syscall
  <2> QED BY <1>11, <2>1, <2>2, SleepLeft DEF dispatch_syscall_sleep, C!Next
<1>12. CASE dispatch_syscall_getcputimes
  <2>1. CASE UNCHANGED <<pcbVars, ret, signalVars, userVars, listVars>>
    BY <1>u, <2>1 DEF listVars
  <2>2. CASE /\ ret' = [ret EXCEPT ![currproc] = get_all_proc_info]
             /\ UNCHANGED <<pcbVars, signalVars, userVars, listVars>>
    BY <1>e, <2>2 DEF listVars
  <2> QED BY <1>12, <1>r, <2>1, <2>2 DEF dispatch_syscall_getcputimes, Asserting
<1>13. CASE dispatch_syscall_sighandler
  <2>1. CASE ret' = [ret EXCEPT ![currproc] = 0] /\ UNCHANGED listVars
    BY <1>e, <2>1 DEF listVars
  <2> QED BY <1>13, <1>r, <2>1 DEF dispatch_syscall_sighandler
<1> QED BY <1>1, <1>2, <1>3, <1>4, <1>5, <1>6, <1>7, <1>8, <1>9, <1>10, <1>11, <1>12, <1>13 DEF Next

\* Nobody sleeps at first.
LEMMA InitLeft == Init => SleepInv /\ C!Init
<1> SUFFICES ASSUME Init PROVE SleepInv /\ C!Init
  OBVIOUS
<1>1. sleeping = <<>> /\ ret \in [Procs -> Int] /\ Len(sleeping) = 0
  BY DEF Init
<1>2. SleepInv
  BY <1>1 DEF SleepInv, Deltas
<1>3. left = [p \in Slots |-> 0]
  BY <1>1 DEF left, ToSet
<1> QED BY <1>2, <1>3 DEF C!Init

\* The invariant behind the sleeps, kept with the one behind the types.
LEMMA NextSleepInv ==
    TypesInv /\ SleepInv /\ [Next]_vars =>
        /\ (TypesInv /\ SleepInv)'
        /\ [C!Next]_left
        /\ [timer_handler => C!Tick]_vars
<1> SUFFICES ASSUME TypesInv, SleepInv, [Next]_vars
             PROVE  TypesInv' /\ SleepInv' /\ [C!Next]_left /\ [timer_handler => C!Tick]_vars
  OBVIOUS
<1>1. TypesInv'
  BY NextTypesInv
<1>2. IInv /\ SignalTypes /\ ValueTypes
  BY DEF TypesInv, SigInv
<1>3. CASE Next
  <2>1. SleepInv' /\ (C!Next \/ left' = left)
    BY <1>2, <1>3, NextLeft
  <2>2. timer_handler => C!Tick
    BY <1>2, TimerLeft
  <2> QED BY <1>1, <2>1, <2>2
<1>4. CASE UNCHANGED vars
  <2>1. sleeping' = sleeping /\ ret' = ret
    BY <1>4 DEF vars, listVars
  <2>2. SleepInv' /\ left' = left
    BY <2>1, LeftIs DEF SleepInv, Deltas
  <2> QED BY <1>1, <1>4, <2>2
<1> QED BY <1>3, <1>4

\* In every behaviour of the kernel the ret fields along g_sleeping_list are
\* deltas: never negative, and at least one for the first sleeper.
THEOREM DeltasStayPositive == Spec => []SleepInv
BY InitTypesInv, InitLeft, NextSleepInv, PTL DEF Spec

\* The delta list of sleep.c does what Countdown promises: every sleeper has a
\* count of its own, and nothing but a tick, its own call and a signal to it
\* ever changes that count, whoever else begins or ends a sleep.
THEOREM SleepsCountDown == Spec => ImplementsCountdown
BY InitTypesInv, InitLeft, NextSleepInv, PTL DEF Spec, ImplementsCountdown, C!Spec

\* Every timer interrupt counts for every sleeper, those that are not at the
\* head of the list included.
THEOREM TicksCountForAll == Spec => EveryTickCounts
BY InitTypesInv, InitLeft, NextSleepInv, PTL DEF Spec, EveryTickCounts

-----------------------------------------------------------------------------
(* What a call that ends returns *)

\* The values a process leaves in its pcb when it blocks: a wait returns 0
\* if nothing but the death it waits for ends it; no call of these handlers
\* blocks on a device.
WaitChosen ==
    \A p \in Slots : curr_state[p] = BLOCKED =>
        /\ blocking_queue_name[p] # DEVICE
        /\ blocking_queue_name[p] = WAITING => ret[p] = 0

\* Every call that ends in this step ends for a reason.
ReasonsGiven == \A p \in Slots : Ends(p) => Reason(p)

\* The reasons, one by one.
LEMMA ReasonIs ==
    ASSUME NEW p \in Slots
    PROVE  /\ blocking_queue_name[p] \in Queues /\ curr_state'[blocking_proc[p]] = STOPPED
                  /\ ret'[p] = (IF blocking_queue_name[p] = WAITING THEN 0 ELSE SYSPID_DNE)
                  => Reason(p)
           /\ /\ blocking_queue_name[p] \in Queues \cup {RECEIVE_ANY} /\ signals_fired'[p] # {}
              /\ ret'[p] = (IF blocking_queue_name[p] = WAITING THEN SYSWAIT_SIGNALLED
                            ELSE PROC_SIGNALLED)
              => Reason(p)
           /\ /\ blocking_queue_name[p] = SLEEP /\ signals_fired'[p] # {}
              /\ ret'[p] = beyond(p) * TICK_LENGTH_IN_MS
              => Reason(p)
           /\ blocking_queue_name[p] = SLEEP /\ left[p] = 1 /\ ret'[p] = 0 => Reason(p)
           /\ /\ blocking_queue_name[p] \in {SENDER, RECEIVER} /\ currproc = blocking_proc[p]
              /\ ret'[p] = SYSPID_OK /\ ret'[currproc] = SYSPID_OK
              => Reason(p)
           /\ /\ blocking_queue_name[p] = RECEIVE_ANY /\ from_pid'[p] = pid[currproc]
              /\ ret'[p] = SYSPID_OK /\ ret'[currproc] = SYSPID_OK
              => Reason(p)
<1> DEFINE why == blocking_queue_name[p]
<1>1. CASE why = WAITING
  BY <1>1 DEF Reason, Queues
<1>2. CASE why \in {SENDER, RECEIVER}
  BY <1>2 DEF Reason, Queues
<1>3. CASE why = RECEIVE_ANY
  BY <1>3 DEF Reason, Queues
<1>4. CASE why = SLEEP
  BY <1>4 DEF Reason, Queues
<1> QED BY <1>1, <1>2, <1>3, <1>4 DEF Queues

\* A call that ends is taken out of what it was blocked on.
LEMMA EndsTold ==
    ASSUME IInv, IInv', SigInv, Next, NEW p \in Slots, Ends(p)
    PROVE  /\ p # currproc /\ curr_state[p] = BLOCKED
           /\ blocking_queue_name'[p] # blocking_queue_name[p]
<1> USE SlotFacts
<1>1. p # currproc /\ curr_state[p] = BLOCKED /\ curr_state'[p] # BLOCKED
  BY IInvTypes DEF Ends
<1>2. curr_state'[p] \in ProcStates /\ curr_state'[p] # STOPPED
  BY <1>1, NextStopped DEF IInv, StructTypes
<1>3. blocking_queue_name'[p] = NO_BLOCKER /\ blocking_queue_name[p] # NO_BLOCKER
  BY <1>1, <1>2 DEF IInv, BlockersMatchStates, ProcStates
<1> QED BY <1>1, <1>3

\* What a step must leave alone for WaitChosen.
LEMMA WaitKept ==
    ASSUME IInv, IInv', SigInv, WaitChosen, Next,
           \A p \in Slots : curr_state[p] = BLOCKED /\ blocking_queue_name[p] = WAITING
                            /\ blocking_queue_name'[p] = WAITING => ret'[p] = ret[p],
           currproc \in Slots =>
               /\ blocking_queue_name'[currproc] # DEVICE
               /\ blocking_queue_name'[currproc] = WAITING => ret'[currproc] = 0
    PROVE  WaitChosen'
BY NextBlocked DEF SigInv, BlockedAfter, StaysBlocked, WaitChosen

\* A step that ends no call.
LEMMA EndsNothing ==
    ASSUME IInv, IInv', SigInv, WaitChosen, Next,
           \A p \in Slots : curr_state[p] = BLOCKED =>
               blocking_queue_name'[p] = blocking_queue_name[p] /\ ret'[p] = ret[p],
           currproc \in Slots =>
               /\ blocking_queue_name'[currproc] # DEVICE
               /\ blocking_queue_name'[currproc] = WAITING => ret'[currproc] = 0
    PROVE  ReasonsGiven /\ WaitChosen'
BY EndsTold, WaitKept DEF ReasonsGiven

\* A step that answers the running process and changes no pcb otherwise.
LEMMA EndsByAnswer ==
    ASSUME IInv, IInv', SigInv, WaitChosen, Next, UNCHANGED blocking_queue_name,
           \A p \in Slots : p # currproc => ret'[p] = ret[p]
    PROVE  ReasonsGiven /\ WaitChosen'
<1>1. \A p \in Slots : curr_state[p] = BLOCKED => p # currproc
  BY IInvTypes
<1>2. currproc \in Slots => blocking_queue_name[currproc] = NO_BLOCKER
  BY IInvTypes DEF IInv, BlockersMatchStates
<1> QED BY <1>1, <1>2, EndsNothing

\* A step in which the running process blocks, with the value its call
\* returns if nothing else ends it.
LEMMA EndsByBlock ==
    ASSUME IInv, IInv', SigInv, WaitChosen, Next, NEW why, NEW code, DOMAIN ret = Procs,
           why # DEVICE, why = WAITING => code = 0,
           blocking_queue_name' = [blocking_queue_name EXCEPT ![currproc] = why],
           ret' = [ret EXCEPT ![currproc] = code]
    PROVE  ReasonsGiven /\ WaitChosen'
<1> USE SlotFacts
<1>1. \A p \in Slots : curr_state[p] = BLOCKED => p # currproc
  BY IInvTypes
<1>2. \A p \in Slots : curr_state[p] = BLOCKED =>
         blocking_queue_name'[p] = blocking_queue_name[p] /\ ret'[p] = ret[p]
  BY <1>1, IInvTypes
<1>3. currproc \in Slots => blocking_queue_name'[currproc] = why /\ ret'[currproc] = code
  BY IInvTypes
<1> QED BY <1>2, <1>3, EndsNothing

\* The clock ends the sleeps that have one tick left.
LEMMA EndsByTick ==
    ASSUME IInv, IInv', SigInv, ValueTypes, SleepInv, WaitChosen, Next, timer_handler
    PROVE  ReasonsGiven /\ WaitChosen'
<1> USE SlotFacts
<1> DEFINE woken == SubSeq(sleeping, 1, expired)
<1>1. /\ \A p \in ToSet(woken) : left[p] = 1 /\ ret'[p] = 0
      /\ ToSet(woken) \subseteq Asleep /\ ToSet(sleeping) = Asleep
  <2>1. sleeping \in Seq(Slots) /\ Lists(sleeping, Asleep) /\ Asleep = ToSet(sleeping)
    BY IInvTypes, IInvLists DEF Lists
  <2>2. ToSet(woken) \subseteq Asleep
    BY <2>1, ExpiredRange, CutLists
  <2>3. \A p \in ToSet(SubSeq(sleeping, 1, expired)) : left[p] = 1 /\ ret'[p] = 0
    BY TimerLeft
  <2> QED BY <2>1, <2>2, <2>3
<1>2. CASE UNCHANGED <<pcbVars, ret>>
  BY <1>2, EndsByAnswer DEF pcbVars
<1>3. CASE /\ blocking_queue_name' = [x \in Procs |-> IF x \in ToSet(woken) THEN NO_BLOCKER
                                                      ELSE blocking_queue_name[x]]
           /\ ret' = [x \in Procs |-> IF x \in ToSet(woken) THEN ticked(x) * TICK_LENGTH_IN_MS
                                      ELSE IF x \in ToSet(sleeping) THEN ticked(x) ELSE ret[x]]
  <2> HIDE DEF woken
  <2>1. ASSUME NEW p \in Slots, Ends(p) PROVE Reason(p)
    <3>1. p \in ToSet(woken)
      BY <1>3, <2>1, EndsTold
    <3>2. blocking_queue_name[p] = SLEEP /\ left[p] = 1 /\ ret'[p] = 0
      BY <1>1, <3>1 DEF Asleep
    <3> QED BY <3>2, ReasonIs
  <2>2. \A p \in Slots : curr_state[p] = BLOCKED /\ blocking_queue_name[p] = WAITING
                         /\ blocking_queue_name'[p] = WAITING => ret'[p] = ret[p]
    <3>1. \A p \in Asleep : blocking_queue_name[p] = SLEEP
      BY DEF Asleep
    <3>2. \A p \in ToSet(sleeping) : blocking_queue_name[p] = SLEEP
      BY <1>1, <3>1
    <3>3. \A p \in ToSet(woken) : blocking_queue_name[p] = SLEEP
      BY <1>1, <3>1
    <3> QED BY <1>3, <3>2, <3>3
  <2>3. currproc \in Slots => blocking_queue_name'[currproc] = NO_BLOCKER
    BY <1>3, IInvTypes DEF IInv, BlockersMatchStates
  <2>4. WaitChosen'
    BY <2>2, <2>3, WaitKept
  <2> QED BY <2>1, <2>4 DEF ReasonsGiven
<1> QED BY <1>2, <1>3 DEF timer_handler, Asserting, woken

\* A process that dies ends the calls of those in its queues, with the value
\* they chose.
LEMMA EndsByDeath ==
    ASSUME IInv, IInv', SigInv, MsgInv, WaitChosen, Next, currproc \in Slots, cleanup_proc
    PROVE  ReasonsGiven /\ WaitChosen'
<1> USE SlotFacts
<1> DEFINE notified == UNION {ToSet(blocking_queue[currproc][q]) : q \in Queues}
<1>1. ASSUME NEW p \in notified
      PROVE  /\ p \in Slots /\ curr_state[p] = BLOCKED
             /\ blocking_proc[p] = currproc /\ blocking_queue_name[p] \in Queues
  <2>1. PICK q \in Queues : p \in ToSet(blocking_queue[currproc][q])
    BY <1>1
  <2>2. p \in BlockedOn(currproc, q)
    BY <2>1, IInvLists DEF Lists
  <2> QED BY <2>2 DEF BlockedOn
<1> HIDE DEF notified
<1>2. CASE UNCHANGED <<pcbVars, ret>>
  BY <1>2, EndsByAnswer DEF pcbVars
<1>3. CASE /\ stopped' = add_proc_to_queue(stopped, currproc)
           /\ blocking_queue_name' = [w \in Procs |-> IF w \in notified THEN NO_BLOCKER
                                                      ELSE blocking_queue_name[w]]
           /\ ret' = ret
  <2>1. curr_state'[currproc] = STOPPED
    <3>1. stopped' \in Seq(Slots) /\ ToSet(stopped') = {p \in Slots : curr_state'[p] = STOPPED}
      BY DEF IInv, StructTypes, QueueTypes, QueueIntegrity, InState, Lists
    <3>2. stopped' = Append(stopped, currproc) /\ stopped \in Seq(Slots)
      BY <1>3, IInvTypes DEF add_proc_to_queue
    <3>3. Len(stopped) + 1 \in DOMAIN stopped' /\ stopped'[Len(stopped) + 1] = currproc
      BY <3>2
    <3>4. currproc \in ToSet(stopped')
      BY <3>3 DEF ToSet
    <3> QED BY <3>1, <3>4
  <2>2. ASSUME NEW p \in Slots, Ends(p) PROVE Reason(p)
    <3>1. p \in notified
      BY <1>3, <2>2, EndsTold
    <3>2. /\ blocking_queue_name[p] \in Queues /\ curr_state[p] = BLOCKED
          /\ curr_state'[blocking_proc[p]] = STOPPED
      BY <1>1, <2>1, <3>1
    <3>3. ret'[p] = (IF blocking_queue_name[p] = WAITING THEN 0 ELSE SYSPID_DNE)
      BY <1>3, <3>2 DEF WaitChosen, MsgInv, FailureChosen, Queues
    <3> QED BY <3>2, <3>3, ReasonIs
  <2>3. currproc \in Slots => blocking_queue_name'[currproc] = NO_BLOCKER
    BY <1>3, IInvTypes DEF IInv, BlockersMatchStates
  <2>4. WaitChosen'
    BY <1>3, <2>3, WaitKept
  <2> QED BY <2>2, <2>4 DEF ReasonsGiven
<1> QED BY <1>2, <1>3 DEF cleanup_proc, Asserting, notified

\* A signal ends at most the call of the process it is sent to, with the value
\* resolve_blocking has for such calls.
LEMMA EndsBySignal ==
    ASSUME IInv, IInv', SigInv, ValueTypes, SleepInv, WaitChosen, Next,
           NEW proc \in Slots, NEW signal, set_proc_signal(proc, signal)
    PROVE  ReasonsGiven /\ WaitChosen'
<1> USE SlotFacts
<1>0. DOMAIN ret = Procs
  BY DEF ValueTypes
<1>1. CASE UNCHANGED pcbVars /\ (ret' = ret \/ ret' = [ret EXCEPT ![currproc] = 0])
  <2>1. \A p \in Slots : p # currproc => ret'[p] = ret[p]
    BY <1>1, <1>0
  <2> QED BY <1>1, <2>1, EndsByAnswer DEF pcbVars
<1>2. CASE /\ curr_state[proc] = BLOCKED /\ resolve_blocking(proc)
           /\ signals_fired' = [signals_fired EXCEPT ![proc] = @ \cup {signal}]
  <2> DEFINE why == blocking_queue_name[proc]
             i == CHOOSE j \in DOMAIN sleeping : sleeping[j] = proc
  <2>1. proc # currproc /\ proc \in Procs
    BY <1>2, IInvTypes
  <2>2. /\ blocking_queue_name' = [blocking_queue_name EXCEPT ![proc] = NO_BLOCKER]
        /\ ret' = [interrupted_ret(proc) EXCEPT ![currproc] = 0]
    BY <1>2 DEF resolve_blocking
  <2>3. signals_fired'[proc] # {}
    <3>1. DOMAIN signals_fired = Procs
      BY DEF SigInv, SignalTypes
    <3> QED BY <1>2, <2>1, <3>1
  <2>4. why \in Queues \cup {RECEIVE_ANY, SLEEP}
    BY <1>2, <2>1, IInvTypes DEF WaitChosen, IInv, BlockersMatchStates, Blockers, Queues
  <2>5. ASSUME why # SLEEP
        PROVE  /\ ret'[proc] = (IF why = WAITING THEN SYSWAIT_SIGNALLED ELSE PROC_SIGNALLED)
               /\ \A p \in Slots : p # proc /\ p # currproc => ret'[p] = ret[p]
    BY <1>0, <2>1, <2>2, <2>4, <2>5 DEF interrupted_ret, Queues
  <2>6. ASSUME why = SLEEP
        PROVE  \A p \in Slots : curr_state[p] = BLOCKED /\ blocking_queue_name[p] = WAITING
                                => ret'[p] = ret[p]
    <3>1. sleeping \in Seq(Slots) /\ Lists(sleeping, Asleep) /\ proc \in Asleep
      BY <1>2, <2>6, IInvTypes, IInvLists DEF Asleep
    <3>2. DOMAIN sleeping = 1..Len(sleeping) /\ Len(sleeping) \in Nat
      BY <3>1
    <3>3. i \in 1..Len(sleeping)
      <4>1. \E j \in 1..Len(sleeping) : proc = sleeping[j]
        BY <3>1, LeftAt
      <4> QED BY <3>2, <4>1
    <3> HIDE DEF i
    <3>4. i < Len(sleeping) => sleeping[i + 1] \in Asleep
      <4>1. i < Len(sleeping) => i + 1 \in 1..Len(sleeping)
        BY <3>2, <3>3
      <4> QED BY <3>1, <4>1, LeftAt
    <3>5. ret' = [woken_ret(proc) EXCEPT ![currproc] = 0]
      BY <2>2, <2>6 DEF interrupted_ret
    <3>6. woken_ret(proc) = [p \in Procs |-> IF p = proc THEN ret[proc] * TICK_LENGTH_IN_MS
                               ELSE IF i < Len(sleeping) /\ p = sleeping[i + 1] THEN ret[p] + ret[proc]
                               ELSE ret[p]]
      BY DEF woken_ret, i
    <3> SUFFICES ASSUME NEW p \in Slots, curr_state[p] = BLOCKED, blocking_queue_name[p] = WAITING
                 PROVE  ret'[p] = ret[p]
      OBVIOUS
    <3>7. p \notin Asleep /\ p # currproc /\ p \in Procs
      BY IInvTypes DEF Asleep
    <3> QED BY <3>1, <3>4, <3>5, <3>6, <3>7
  <2>7. ASSUME NEW p \in Slots, Ends(p) PROVE Reason(p)
    <3>1. p = proc
      BY <2>1, <2>2, <2>7, IInvTypes, EndsTold
    <3>2. CASE why = SLEEP
      <4>1. proc \in Asleep /\ Ends(proc)
        BY <1>2, <2>7, <3>1, <3>2 DEF Asleep
      <4>2. ret'[proc] = beyond(proc) * TICK_LENGTH_IN_MS
        BY <4>1, KillLeft
      <4> HIDE DEF why
      <4> QED BY <2>3, <3>1, <3>2, <4>2, ReasonIs DEF why
    <3>3. CASE why # SLEEP
      BY <2>3, <2>4, <2>5, <3>1, <3>3, ReasonIs
    <3> QED BY <3>2, <3>3
  <2>8. \A p \in Slots : curr_state[p] = BLOCKED /\ blocking_queue_name[p] = WAITING
                         /\ blocking_queue_name'[p] = WAITING => ret'[p] = ret[p]
    <3>1. blocking_queue_name'[proc] = NO_BLOCKER
      BY <2>1, <2>2, IInvTypes
    <3>2. \A p \in Slots : curr_state[p] = BLOCKED => p # currproc
      BY IInvTypes
    <3> QED BY <2>5, <2>6, <3>1, <3>2
  <2>9. currproc \in Slots => blocking_queue_name'[currproc] = NO_BLOCKER
    BY <2>2, IInvTypes DEF IInv, BlockersMatchStates
  <2>10. WaitChosen'
    BY <2>8, <2>9, WaitKept
  <2> QED BY <2>7, <2>10 DEF ReasonsGiven
<1> QED BY <1>1, <1>2 DEF set_proc_signal, Asserting, pcbVars

\* The second of two matching calls ends the first, with success for both.
LEMMA EndsByMeeting ==
    ASSUME IInv, IInv', SigInv, ValueTypes, WaitChosen, Next, currproc \in Slots,
           NEW p \in Slots,
           \/ blocked_in(p, currproc, SENDER) /\ \E len : recv_now(p, len)
           \/ receiver_waits(currproc, p) /\ \E message : send_now(p, message)
    PROVE  ReasonsGiven /\ WaitChosen'
<1> USE SlotFacts
<1> DEFINE why == blocking_queue_name[p]
<1>0. DOMAIN ret = Procs /\ DOMAIN from_pid = Procs
  BY DEF ValueTypes
<1>1. why \in {SENDER, RECEIVER, RECEIVE_ANY}
  BY DEF blocked_in, receiver_waits
<1>2. CASE UNCHANGED <<pcbVars, ret>>
  BY <1>2, EndsByAnswer DEF pcbVars
<1>3. CASE /\ blocking_queue_name' = [blocking_queue_name EXCEPT ![p] = NO_BLOCKER]
           /\ ret' = [ret EXCEPT ![p] = SYSPID_OK, ![currproc] = SYSPID_OK]
           /\ why = RECEIVE_ANY => from_pid' = [from_pid EXCEPT ![p] = pid[currproc]]
           /\ why # RECEIVE_ANY => blocking_proc[p] = currproc
  <2>1. ASSUME NEW x \in Slots, Ends(x) PROVE Reason(x)
    <3>1. x = p
      BY <1>3, <2>1, EndsTold, IInvTypes
    <3>2. /\ ret'[p] = SYSPID_OK /\ ret'[currproc] = SYSPID_OK
          /\ why = RECEIVE_ANY => from_pid'[p] = pid[currproc]
          /\ why # RECEIVE_ANY => currproc = blocking_proc[p]
      BY <1>0, <1>3
    <3> QED BY <1>1, <3>1, <3>2, ReasonIs
  <2>2. \A x \in Slots : curr_state[x] = BLOCKED /\ blocking_queue_name[x] = WAITING
                         /\ blocking_queue_name'[x] = WAITING => ret'[x] = ret[x]
    <3>1. \A x \in Slots : curr_state[x] = BLOCKED => x # currproc
      BY IInvTypes
    <3> QED BY <1>0, <1>1, <1>3, <3>1
  <2>3. currproc \in Slots => blocking_queue_name'[currproc] = NO_BLOCKER
    BY <1>3, IInvTypes DEF IInv, BlockersMatchStates
  <2>4. WaitChosen'
    BY <2>2, <2>3, WaitKept
  <2> QED BY <2>1, <2>4 DEF ReasonsGiven
<1>4. ASSUME NEW len, blocked_in(p, currproc, SENDER), recv_now(p, len)
      PROVE  ReasonsGiven /\ WaitChosen'
  <2>1. blocking_proc[p] = currproc /\ why = SENDER
    BY <1>4 DEF blocked_in
  <2> HIDE DEF why
  <2> QED BY <1>2, <1>3, <1>4, <2>1 DEF recv_now, Asserting
<1>5. ASSUME NEW message, receiver_waits(currproc, p), send_now(p, message)
      PROVE  ReasonsGiven /\ WaitChosen'
  <2>1. why # RECEIVE_ANY => blocking_proc[p] = currproc
    BY <1>5 DEF receiver_waits, blocked_in
  <2> QED BY <1>2, <1>3, <1>5, <2>1 DEF send_now, Asserting
<1> QED BY <1>4, <1>5

\* create and create_without_table touch the running process and a STOPPED one.
LEMMA EndsByCreate ==
    ASSUME IInv, IInv', SigInv, ValueTypes, WaitChosen, Next, create \/ create_without_table
    PROVE  ReasonsGiven /\ WaitChosen'
<1> USE SlotFacts
<1> DEFINE proc == Head(stopped)
<1>1. /\ proc \in Slots /\ curr_state[proc] = STOPPED /\ proc # currproc
      /\ DOMAIN ret = Procs /\ DOMAIN blocking_queue_name = Procs
  BY NextFree, IInvTypes DEF create, create_without_table, ValueTypes
<1> HIDE DEF proc
<1>2. CASE UNCHANGED <<pcbVars, ret>>
  BY <1>2, EndsByAnswer DEF pcbVars
<1>3. ASSUME NEW name, NEW code,
             blocking_queue_name' = [blocking_queue_name EXCEPT ![proc] = name],
             ret' = [ret EXCEPT ![proc] = 0, ![currproc] = code]
      PROVE  ReasonsGiven /\ WaitChosen'
  <2>1. \A p \in Slots : curr_state[p] = BLOCKED => p # currproc /\ p # proc
    BY <1>1, IInvTypes
  <2>2. \A p \in Slots : curr_state[p] = BLOCKED =>
           blocking_queue_name'[p] = blocking_queue_name[p] /\ ret'[p] = ret[p]
    BY <1>1, <1>3, <2>1
  <2>3. currproc \in Slots => blocking_queue_name'[currproc] = NO_BLOCKER
    BY <1>1, <1>3, IInvTypes DEF IInv, BlockersMatchStates
  <2> QED BY <2>2, <2>3, EndsNothing
<1> QED BY <1>2, <1>3 DEF create, create_without_table, Asserting, proc

\* syssleep ends no call; its caller sleeps.
LEMMA EndsBySleep ==
    ASSUME IInv, IInv', SigInv, WaitChosen, Next, NEW milliseconds, sleep(milliseconds)
    PROVE  ReasonsGiven /\ WaitChosen'
<1> USE SlotFacts
<1> DEFINE i == insert_position(ticks(milliseconds))
           delta == ticks(milliseconds) - ticks_until[i - 1]
<1>1. /\ blocking_queue_name' = [blocking_queue_name EXCEPT ![currproc] = SLEEP]
      /\ ret' = inserted_ret(i, delta)
  BY DEF sleep
<1>2. i \in 1..(Len(sleeping) + 1)
  BY InsertRange
<1> HIDE DEF i, delta
<1>3. sleeping \in Seq(Slots) /\ Lists(sleeping, Asleep) /\ Len(sleeping) \in Nat
  BY IInvTypes, IInvLists
<1>4. i <= Len(sleeping) => sleeping[i] \in Asleep
  BY <1>2, <1>3, LeftAt
<1>5. ASSUME NEW p \in Slots, curr_state[p] = BLOCKED
      PROVE  /\ blocking_queue_name'[p] = blocking_queue_name[p]
             /\ blocking_queue_name[p] = WAITING => ret'[p] = ret[p]
  <2>1. p # currproc /\ p \in Procs
    BY <1>5, IInvTypes
  <2>2. blocking_queue_name[p] = WAITING => p \notin Asleep
    BY DEF Asleep
  <2> QED BY <1>1, <1>4, <2>1, <2>2, IInvTypes DEF inserted_ret
<1>6. currproc \in Slots => blocking_queue_name'[currproc] = SLEEP
  BY <1>1, IInvTypes
<1>7. WaitChosen'
  BY <1>5, <1>6, WaitKept
<1> QED BY <1>5, <1>7, EndsTold DEF ReasonsGiven

\* Every step ends the calls it ends for a reason.
LEMMA NextReasons ==
    ASSUME IInv, IInv', SigInv, MsgInv, ValueTypes, SleepInv, WaitChosen, Next
    PROVE  ReasonsGiven /\ WaitChosen'
<1> USE SlotFacts
<1>0. DOMAIN ret = Procs
  BY DEF ValueTypes
<1>e. ASSUME UNCHANGED pcbVars, NEW code, ret' = ret \/ ret' = [ret EXCEPT ![currproc] = code]
      PROVE  ReasonsGiven /\ WaitChosen'
  <2>1. \A p \in Slots : p # currproc => ret'[p] = ret[p]
    BY <1>0, <1>e
  <2> QED BY <1>e, <2>1, EndsByAnswer DEF pcbVars
<1>r. ASSUME NEW code, Return(code) PROVE ReasonsGiven /\ WaitChosen'
  BY <1>r, <1>e DEF Return
<1>s. ASSUME NEW name, Syscall(name) PROVE currproc \in Slots
  BY <1>s, IInvTypes DEF Syscall
<1>b. ASSUME NEW p \in Int, pid_to_proc(p) # NULL PROVE pid_to_proc(p) \in Slots
  BY <1>b, PidToProc
<1>o. ASSUME NEW owner, NEW queue \in Queues, NEW code, block_on(owner, queue, code),
             queue = WAITING => code = 0
      PROVE  ReasonsGiven /\ WaitChosen'
  BY <1>0, <1>o, EndsByBlock DEF block_on, Queues
<1>1. CASE ctsw_contextswitch
  BY <1>1, <1>e DEF ctsw_contextswitch
<1>2. CASE timer_handler
  BY <1>2, EndsByTick
<1>3. CASE dispatch_syscall_create
  BY <1>3, <1>r, EndsByCreate DEF dispatch_syscall_create
<1>4. CASE syscall_yield
  BY <1>4, EndsByAnswer DEF syscall_yield
<1>5. CASE syscall_stop \/ dispatch_syscall_sigreturn
  <2>1. CASE sigreturn
    BY <1>e, <2>1 DEF sigreturn
  <2>2. currproc \in Slots
    BY <1>5, <1>s DEF syscall_stop, dispatch_syscall_sigreturn
  <2> QED BY <1>5, <2>1, <2>2, EndsByDeath DEF syscall_stop, dispatch_syscall_sigreturn
<1>6. CASE syscall_getpid \/ dispatch_syscall_puts
  BY <1>6, <1>e, <1>r DEF syscall_getpid, dispatch_syscall_puts, Ignore
<1>7. CASE dispatch_syscall_kill
  <2>1. PICK target \in PidArgs, signal \in SignalArgs :
          \/ \E code : Return(code)
          \/ pid_to_proc(target) # NULL /\ set_proc_signal(pid_to_proc(target), signal)
    BY <1>7 DEF dispatch_syscall_kill
  <2> QED BY <2>1, <1>b, <1>r, PidAssumption, EndsBySignal
<1>8. CASE dispatch_syscall_wait
  BY <1>8, <1>o, <1>r DEF dispatch_syscall_wait, Queues
<1>9. CASE dispatch_syscall_send
  <2>1. PICK dest_pid \in PidArgs :
          \/ \E code : Return(code)
          \/ /\ pid_to_proc(dest_pid) # NULL
             /\ \E message \in Messages : \/ send_now(pid_to_proc(dest_pid), message)
                                          \/ send_blocks(pid_to_proc(dest_pid), message)
    BY <1>9 DEF dispatch_syscall_send
  <2>2. currproc \in Slots
    BY <1>9, <1>s DEF dispatch_syscall_send
  <2>3. ASSUME NEW dest \in Slots, NEW message, send_now(dest, message)
        PROVE  ReasonsGiven /\ WaitChosen'
    <3>1. receiver_waits(currproc, dest)
      BY <2>3 DEF send_now
    <3> QED BY <2>2, <2>3, <3>1, EndsByMeeting
  <2>4. ASSUME NEW dest, NEW message, send_blocks(dest, message)
        PROVE  ReasonsGiven /\ WaitChosen'
    BY <2>4, <1>o DEF send_blocks, Queues
  <2> QED BY <2>1, <2>3, <2>4, <1>b, <1>r, PidAssumption
<1>10. CASE dispatch_syscall_recv
  <2>1. currproc \in Slots
    BY <1>10, <1>s DEF dispatch_syscall_recv
  <2>2. ASSUME NEW src \in Slots, NEW len, blocked_in(src, currproc, SENDER), recv_now(src, len)
        PROVE  ReasonsGiven /\ WaitChosen'
    BY <2>1, <2>2, EndsByMeeting
  <2>3. ASSUME NEW src \in Slots, NEW len, recv(src, len) PROVE ReasonsGiven /\ WaitChosen'
    BY <2>2, <2>3, <1>o DEF recv, Queues
  <2>4. ASSUME NEW len, recv_any(len) PROVE ReasonsGiven /\ WaitChosen'
    <3> DEFINE senders == blocking_queue[currproc][SENDER]
    <3>1. senders # <<>> => Head(senders) \in Slots
      <4>1. senders \in Seq(Slots)
        BY IInvTypes DEF Queues
      <4> QED BY <4>1
    <3> HIDE DEF senders
    <3>2. CASE senders # <<>> /\ blocked_in(Head(senders), currproc, SENDER)
                 /\ recv_now(Head(senders), len)
      BY <2>2, <3>1, <3>2
    <3>3. CASE Return(SYSERR_OTHER)
      BY <1>r, <3>3
    <3>4. CASE /\ blocking_queue_name' = [blocking_queue_name EXCEPT ![currproc] = RECEIVE_ANY]
               /\ ret' = [ret EXCEPT ![currproc] = SYSPID_DNE]
      BY <1>0, <3>4, EndsByBlock
    <3> QED BY <2>4, <3>2, <3>3, <3>4 DEF recv_any, senders
  <2>5. ASSUME NEW from \in PidArgs \cup {0}, pid_to_proc(from) # NULL PROVE pid_to_proc(from) \in Slots
    BY <1>b, <2>5, PidAssumption
  <2> QED BY <1>10, <1>r, <2>3, <2>4, <2>5 DEF dispatch_syscall_recv
<1>11. CASE dispatch_syscall_sleep
  <2>1. CASE Ignore
    BY <1>e, <2>1 DEF Ignore
  <2> QED BY <1>11, <2>1, EndsBySleep DEF dispatch_syscall_sleep
<1>12. CASE dispatch_syscall_getcputimes
  BY <1>12, <1>e, <1>r DEF dispatch_syscall_getcputimes, Asserting
<1>13. CASE dispatch_syscall_sighandler
  BY <1>13, <1>e, <1>r DEF dispatch_syscall_sighandler
<1> QED BY <1>1, <1>2, <1>3, <1>4, <1>5, <1>6, <1>7, <1>8, <1>9, <1>10, <1>11, <1>12, <1>13 DEF Next

\* The invariant behind the reasons.
ReasonInv == TypesInv /\ SleepInv /\ MsgInv /\ WaitChosen

\* It is inductive, and the reasons follow from it.
LEMMA NextReasonInv ==
    ReasonInv /\ [Next]_vars =>
        ReasonInv' /\ [\A p \in Slots : Ends(p) => Reason(p)]_vars
<1> SUFFICES ASSUME ReasonInv, [Next]_vars
             PROVE  ReasonInv' /\ [\A p \in Slots : Ends(p) => Reason(p)]_vars
  OBVIOUS
<1>1. TypesInv' /\ SleepInv'
  BY NextSleepInv DEF ReasonInv
<1>2. MsgInv'
  BY NextAllInv DEF ReasonInv, TypesInv, AllInv
<1>3. CASE Next
  <2>1. IInv /\ IInv' /\ SigInv /\ MsgInv /\ ValueTypes /\ SleepInv /\ WaitChosen
    BY <1>1 DEF ReasonInv, TypesInv
  <2>2. ReasonsGiven /\ WaitChosen'
    BY <1>3, <2>1, NextReasons
  <2> QED BY <1>1, <1>2, <2>2 DEF ReasonInv, ReasonsGiven
<1>4. CASE UNCHANGED vars
  <2>1. WaitChosen'
    BY <1>4 DEF vars, pcbVars, ReasonInv, WaitChosen
  <2> QED BY <1>1, <1>2, <1>4, <2>1 DEF ReasonInv
<1> QED BY <1>3, <1>4

\* Nobody is blocked at first.
LEMMA InitReasonInv == Init => ReasonInv
<1> SUFFICES ASSUME Init PROVE ReasonInv
  OBVIOUS
<1>1. \A p \in Slots : curr_state[p] # BLOCKED
  BY SlotFacts DEF Init
<1> QED BY <1>1, InitTypesInv, InitLeft, InitMsg DEF ReasonInv, WaitChosen

\* In every behaviour of the kernel, a blocked call ends only because the
\* owner of its queue died, a signal came, its peer's call completed it or its
\* last tick passed; and it returns the value that says which.
THEOREM CallsReturnTheirReason == Spec => CallsEndForAReason
BY InitReasonInv, NextReasonInv, PTL DEF Spec, CallsEndForAReason
=============================================================================
