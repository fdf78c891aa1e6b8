------------------------------ MODULE Countdown ------------------------------
(***************************************************************************)
(* What syssleep promises, without the delta list of src/c/sleep.c: every  *)
(* sleeper has a counter of its own, and each tick of the clock takes one  *)
(* from all of them.                                                       *)
(***************************************************************************)
EXTENDS Naturals

CONSTANTS Sleepers,    \* the processes that may sleep
          Durations    \* the numbers of ticks they ask for

VARIABLE left          \* ticks left to sleep, 0 for a process that is awake

Init == left = [p \in Sleepers |-> 0]

Sleep(p) == /\ left[p] = 0
            /\ \E t \in Durations : left' = [left EXCEPT ![p] = t]

Tick == left' = [p \in Sleepers |-> IF left[p] > 0 THEN left[p] - 1 ELSE 0]

\* A signal ends one sleep early and leaves the others alone.
Interrupt(p) == left[p] > 0 /\ left' = [left EXCEPT ![p] = 0]

Next == Tick \/ \E p \in Sleepers : Sleep(p) \/ Interrupt(p)

Spec == Init /\ [][Next]_left
=============================================================================
