-------------------------------- MODULE MCDisp --------------------------------
(* Constants of the small instances of Disp. *)
EXTENDS Disp

OneByte == {<<1>>}

IpcCalls    == {"CREATE", "STOP", "SEND", "RECV", "GETPID", "PUTS", "CPUTIMES"}
SignalCalls == {"CREATE", "SEND", "RECV", "WAIT", "KILL", "SIGHANDLER", "SIGRETURN"}
SleepCalls  == {"CREATE", "SLEEP", "WAIT", "YIELD", "KILL", "SIGHANDLER"}
=============================================================================
