--------------------------------- MODULE MCMem ---------------------------------
(* Constants of the small instance of Mem and its callers. *)
EXTENDS ProcMem

CONSTANTS p1, p2, p3

\* The two dvioblks and the idle process's stack.
MCAtBoot == <<1, 1, 16>>
=============================================================================
