--------------------------------- MODULE MCKbd ---------------------------------
(* Constants of the small instances of Kbd. *)
EXTENDS Kbd

\* a letter, a newline and the default EOF
LetterLine == {97, 10}
AllKeys    == {97, 10, 4}
OneByte    == {<<1>>}

KbdCalls   == {"CREATE", "STOP", "OPEN", "CLOSE", "READ", "WRITE", "IOCTL"}
KbdSignals == {"CREATE", "STOP", "OPEN", "CLOSE", "READ", "KILL", "SIGHANDLER"}
StaleReads == {"CREATE", "OPEN", "READ", "SLEEP", "KILL", "SIGHANDLER"}
=============================================================================
