--------------------------------- MODULE Shell ---------------------------------
(***************************************************************************)
(* The programs of src/c/user.c: login, the shell and its commands, each a *)
(* process, over the system calls they make (src/c/syscall.c).             *)
(*                                                                         *)
(* The kernel is reduced to what these programs see of it; modules Disp    *)
(* and Kbd have the rest.  A line is typed at once, goes to every process  *)
(* that reads, and is a sequence of tokens: words, blanks and ampersands.  *)
(* An end of file (EOF) is typed on a line of its own.  A process is a     *)
(* slot of the process table; slots are used again.  What a program will   *)
(* not look at again is forgotten.                                         *)
(***************************************************************************)
EXTENDS Integers, Sequences, SequencesExt, FiniteSets, FiniteSetsExt, TLC

CONSTANTS
    PCB_TABLE_SIZE,
    Lines           \* what the user types

NEWLINE == "newline"

\* A line ends at its newline, which Type adds.
ASSUME ShellAssumption ==
    /\ PCB_TABLE_SIZE \in Nat \ {0}
    /\ \A l \in Lines : l \in Seq(STRING) /\ NEWLINE \notin Range(l)

Pids     == 1..PCB_TABLE_SIZE
LOGIN    == 1                               \* the root process
NONE     == "none"
Commands == {"t", "ps", "a", "k", "sudo"}
valid_user == <<"cpsc415">>
valid_pass == <<"EveryoneGetsAnA">>

VARIABLES
    prog, pc,       \* what each process runs, and the call it makes next
    reading,        \* processes that wait for a line
    child,          \* the process that login or the shell has started last, or 0
    holders,        \* processes with the keyboard open
    echo_device,    \* which of the two devices they have open
    echo, done,     \* the keyboard's echo flag; EOF was typed
    user_buf, pass_buf, buf,    \* buffers of login, and of the others
    bytes,          \* whether the last sysread of a process returned 0
    arg,            \* the shell's arg, to which g_arg points
    g_pid_to_kill, prev_echo,
    typed,          \* the lines that login was given in this round
    own,            \* the argument that a command was started with
    disturbed       \* since the keyboard was opened, a sudo was killed or ran
                    \* together with another

procVars == <<prog, pc, child>>
kbdVars  == <<holders, echo_device, echo, done>>
bufVars  == <<user_buf, pass_buf, buf, bytes>>
argVars  == <<arg, g_pid_to_kill, own>>
shellVars == <<procVars, reading, kbdVars, bufVars, argVars, prev_echo, typed, disturbed>>

Init ==
    /\ prog = [p \in Pids |-> IF p = LOGIN THEN "login" ELSE NONE]
    /\ pc = [p \in Pids |-> IF p = LOGIN THEN "open" ELSE NONE]
    /\ reading = {} /\ child = [p \in Pids |-> 0]
    /\ holders = {} /\ echo_device = FALSE /\ echo = FALSE /\ done = FALSE
    /\ user_buf = <<>> /\ pass_buf = <<>> /\ buf = [p \in Pids |-> <<>>]
    /\ bytes = [p \in Pids |-> TRUE]
    /\ arg = "" /\ g_pid_to_kill = 0 /\ prev_echo = [p \in Pids |-> FALSE]
    /\ typed = <<>> /\ own = [p \in Pids |-> ""] /\ disturbed = FALSE

At(p, program, call) == prog[p] = program /\ pc[p] = call /\ p \notin reading
Goto(p, call)        == pc' = [pc EXCEPT ![p] = call]
Running(program)     == {p \in Pids : prog[p] = program}

-----------------------------------------------------------------------------
(* System calls, as their callers see them *)

\* sysopen of the device with or without echo; it fails while the other one
\* is open.
sysopen(p, with_echo) ==
    /\ IF holders = {}
       THEN /\ holders' = {p} /\ echo_device' = with_echo
            /\ echo' = with_echo /\ done' = FALSE
            /\ disturbed' = (Running("sudo") \ {p} # {})
       ELSE /\ holders' = IF echo_device = with_echo THEN holders \cup {p} ELSE holders
            /\ UNCHANGED <<echo_device, echo, done, disturbed>>

\* sysioctl that sets the echo; it fails without an open keyboard.
sysioctl(p, on) == echo' = IF p \in holders THEN on ELSE echo

\* sysread: the process goes on at once if its keyboard is not open or at EOF.
sysread(p, next) ==
    IF p \in holders /\ ~done
    THEN reading' = reading \cup {p} /\ UNCHANGED <<pc, bytes>>
    ELSE /\ Goto(p, next) /\ bytes' = [bytes EXCEPT ![p] = p \notin holders]
         /\ UNCHANGED reading

\* syscreate, which fails if the table is full, of a process that is started
\* by p, which makes the call next.
syscreate(p, program, argument, next) ==
    LET free == {q \in Pids : prog[q] = NONE}
    IN  IF free = {}
        THEN /\ child' = [child EXCEPT ![p] = 0] /\ Goto(p, next)
             /\ UNCHANGED <<prog, own, disturbed>>
        ELSE LET q == Min(free)
             IN  /\ child' = [child EXCEPT ![p] = IF next = "wait" THEN q ELSE 0]
                 /\ prog' = [prog EXCEPT ![q] = program]
                 /\ pc' = [pc EXCEPT ![p] = next, ![q] = "start"]
                 /\ own' = [own EXCEPT ![q] = argument]
                 /\ disturbed' = (disturbed \/ (program = "sudo" /\ Running("sudo") # {}))

\* syswait returns when the process is gone, and at once if there is none.
syswait(p) == child[p] \notin {q \in Pids : prog[q] # NONE}

\* sysstop, and the return of a program: everything it has open is closed.
sysstop(p) ==
    /\ pc[p] = "sysstop"
    /\ prog' = [prog EXCEPT ![p] = NONE] /\ pc' = [pc EXCEPT ![p] = NONE]
    /\ holders' = holders \ {p} /\ own' = [own EXCEPT ![p] = ""]
    /\ buf' = [buf EXCEPT ![p] = <<>>] /\ bytes' = [bytes EXCEPT ![p] = TRUE]
    /\ prev_echo' = [prev_echo EXCEPT ![p] = FALSE] /\ child' = [child EXCEPT ![p] = 0]
    /\ UNCHANGED <<reading, echo_device, echo, done, user_buf, pass_buf,
                   arg, g_pid_to_kill, typed, disturbed>>

\* Processes that a SIGNAL 25 stops: those that have called setup_kill_handler.
Killable(p) == prog[p] \notin {NONE, "login"} /\ pc[p] # "start"

-----------------------------------------------------------------------------
(* The user *)

BLANK       == " "
AMPERSAND   == "&"
AfterRead   == [user |-> "pass", pass |-> "check", prompt |-> "got", read |-> "check"]

\* All reads end with text in the buffers, or, at EOF, with nothing.
ReadsEnd(text, count) ==
    /\ reading # {} /\ reading' = {}
    /\ pc' = [p \in Pids |-> IF p \in reading THEN AfterRead[pc[p]] ELSE pc[p]]
    /\ bytes' = [p \in Pids |-> IF p \in reading THEN count ELSE bytes[p]]
    /\ buf' = [p \in Pids |-> IF p \in reading \ {LOGIN} /\ count THEN text ELSE buf[p]]
    /\ user_buf' = IF LOGIN \in reading /\ pc[LOGIN] = "user" /\ count THEN text ELSE user_buf
    /\ pass_buf' = IF LOGIN \in reading /\ pc[LOGIN] = "pass" /\ count THEN text ELSE pass_buf
    /\ typed' = IF LOGIN \in reading /\ count THEN Append(typed, text) ELSE typed
    /\ UNCHANGED <<prog, child, holders, echo_device, echo, argVars, prev_echo, disturbed>>

Type(line) == ReadsEnd(Append(line, NEWLINE), TRUE) /\ UNCHANGED done
TypeEOF    == ReadsEnd(<<>>, FALSE) /\ done' = TRUE

-----------------------------------------------------------------------------
(* login_proc *)

Leading(s, C) == Min({n \in 0..Len(s) : n = Len(s) \/ s[n + 1] \notin C})
Words(s)      == Range(s) \ {NEWLINE, BLANK, AMPERSAND}

filter_newline(s) == SubSeq(s, 1, Leading(s, Range(s) \ {NEWLINE}))

\* Mutant: a buffer that is not cleared.
memset_forgotten(b) == b

\* A buffer after memset.
memset(b) == <<>>

login_open ==
    /\ At(LOGIN, "login", "open") /\ Goto(LOGIN, "user")
    /\ user_buf' = memset(user_buf) /\ pass_buf' = memset(pass_buf) /\ typed' = <<>>
    /\ sysopen(LOGIN, FALSE)
    /\ UNCHANGED <<prog, child, reading, buf, bytes, argVars, prev_echo>>

login_read(call, on) ==
    /\ At(LOGIN, "login", call)
    /\ sysioctl(LOGIN, on)
    /\ sysread(LOGIN, AfterRead[call])
    /\ UNCHANGED <<prog, child, holders, echo_device, done, user_buf, pass_buf, buf, argVars,
                   prev_echo, typed, disturbed>>

\* Mutant: keeps the keyboard open.
closed_at_the_end(p) == holders

\* The processes with the keyboard open after sysclose.
closed(p) == holders \ {p}

login_check ==
    /\ At(LOGIN, "login", "check")
    /\ holders' = closed(LOGIN)
    /\ IF filter_newline(user_buf) = valid_user /\ filter_newline(pass_buf) = valid_pass
       THEN syscreate(LOGIN, "shell", "", "wait")
       ELSE Goto(LOGIN, "open") /\ UNCHANGED <<prog, child, own, disturbed>>
    /\ UNCHANGED <<reading, echo_device, echo, done, bufVars, arg, g_pid_to_kill, prev_echo, typed>>

login_wait ==
    /\ At(LOGIN, "login", "wait") /\ syswait(LOGIN) /\ Goto(LOGIN, "open")
    /\ child' = [child EXCEPT ![LOGIN] = 0]
    /\ UNCHANGED <<prog, reading, kbdVars, bufVars, argVars, prev_echo, typed, disturbed>>

-----------------------------------------------------------------------------
(* shell *)

\* The command, its argument, and whether the last thing on the line, blanks
\* aside, is an ampersand (not in the first place).
get_command(s) ==
    LET c    == Leading(s, Words(s))
        a    == c + Leading(SubSeq(s, c + 1, Len(s)), {BLANK, AMPERSAND})
        last == Len(s) - Leading(Reverse(s), {BLANK})
    IN  [command   |-> IF c > 0 THEN s[1] ELSE "",
         arg       |-> IF a < Len(s) THEN s[a + 1] ELSE "",
         ampersand |-> last > 1 /\ s[last] = AMPERSAND]

atoi(word) == IF \E n \in Pids : ToString(n) = word
              THEN CHOOSE n \in Pids : ToString(n) = word ELSE 0

\* wait, after the command is started: only t and sudo mind the ampersand.
waited_for(command, ampersand) == command \in {"t", "sudo"} => ~ampersand

shell_open(p) ==
    /\ At(p, "shell", "open") /\ Goto(p, "prompt")
    /\ sysopen(p, TRUE)
    /\ UNCHANGED <<prog, child, reading, bufVars, argVars, prev_echo, typed>>

shell_prompt(p) ==
    /\ At(p, "shell", "prompt") /\ sysread(p, "got")
    /\ buf' = [buf EXCEPT ![p] = memset(@)]
    /\ UNCHANGED <<prog, child, kbdVars, user_buf, pass_buf, argVars, prev_echo, typed, disturbed>>

shell_got(p) ==
    /\ At(p, "shell", "got")
    /\ LET cmd == get_command(filter_newline(buf[p]))
       IN  IF ~bytes[p] THEN Goto(p, "exit") /\ UNCHANGED <<prog, child, argVars, disturbed>>
           ELSE /\ arg' = cmd.arg
                /\ g_pid_to_kill' = IF cmd.command = "k" THEN atoi(cmd.arg) ELSE g_pid_to_kill
                /\ IF cmd.command \in Commands
                   THEN syscreate(p, cmd.command, cmd.arg,
                                  IF waited_for(cmd.command, cmd.ampersand) THEN "wait" ELSE "prompt")
                   ELSE /\ Goto(p, IF cmd.command = "ex" THEN "exit" ELSE "wait")
                        /\ child' = [child EXCEPT ![p] = 0]
                        /\ UNCHANGED <<prog, own, disturbed>>
    /\ buf' = [buf EXCEPT ![p] = <<>>]
    /\ UNCHANGED <<reading, kbdVars, user_buf, pass_buf, bytes, prev_echo, typed>>

shell_wait(p) ==
    /\ At(p, "shell", "wait") /\ syswait(p) /\ Goto(p, "prompt")
    /\ child' = [child EXCEPT ![p] = 0]
    /\ UNCHANGED <<prog, reading, kbdVars, bufVars, argVars, prev_echo, typed, disturbed>>

shell_exit(p) ==
    /\ At(p, "shell", "exit") /\ Goto(p, "sysstop")
    /\ holders' = closed(p)
    /\ UNCHANGED <<prog, child, reading, echo_device, echo, done, bufVars, argVars,
                   prev_echo, typed, disturbed>>

-----------------------------------------------------------------------------
(* Commands *)

FirstCall == [shell |-> "open", t |-> "sleep", ps |-> "sysgetcputimes", a |-> "atoi",
              k |-> "syskill", sudo |-> "open"]

setup_kill_handler(p) ==
    /\ prog[p] \in DOMAIN FirstCall /\ pc[p] = "start" /\ Goto(p, FirstCall[prog[p]])
    /\ UNCHANGED <<prog, child, reading, kbdVars, bufVars, argVars, prev_echo, typed, disturbed>>

Step(p, program, call, next) ==
    /\ At(p, program, call) /\ Goto(p, next)
    /\ buf' = [buf EXCEPT ![p] = <<>>]
    /\ UNCHANGED <<prog, child, reading, user_buf, pass_buf, bytes, argVars, typed, disturbed>>

\* t prints and sleeps for ever.
command_t(p) == Step(p, "t", "sleep", "sleep") /\ UNCHANGED <<kbdVars, prev_echo>>

command_ps(p) == Step(p, "ps", "sysgetcputimes", "sysstop") /\ UNCHANGED <<kbdVars, prev_echo>>

\* The process stops when it runs next, whatever call it was in.
command_k(p) ==
    /\ At(p, "k", "syskill")
    /\ IF g_pid_to_kill \in Pids /\ Killable(g_pid_to_kill)
       THEN /\ pc' = [pc EXCEPT ![p] = "sysstop", ![g_pid_to_kill] = "sysstop"]
            /\ reading' = reading \ {g_pid_to_kill}
            /\ disturbed' = (disturbed \/ prog[g_pid_to_kill] = "sudo")
       ELSE Goto(p, "sysstop") /\ UNCHANGED <<reading, disturbed>>
    /\ g_pid_to_kill' = 0
    /\ UNCHANGED <<prog, child, kbdVars, bufVars, arg, own, prev_echo, typed>>

\* a sleeps for its argument, then signals itself; the handler of the alarm
\* prints and returns.
command_a(p) ==
    /\ \/ Step(p, "a", "atoi", IF atoi(arg) > 0 THEN "sleep" ELSE "sysstop")
       \/ Step(p, "a", "sleep", "alarm")
       \/ Step(p, "a", "alarm", "sysstop")
    /\ UNCHANGED <<kbdVars, prev_echo>>

sudo_open(p) ==
    /\ At(p, "sudo", "open") /\ Goto(p, "get_echo") /\ sysopen(p, TRUE)
    /\ UNCHANGED <<prog, child, reading, bufVars, argVars, prev_echo, typed>>

\* GET_ECHO; a failed sysioctl returns -1, which counts as true.
sudo_get_echo(p) ==
    /\ Step(p, "sudo", "get_echo", "disable")
    /\ prev_echo' = [prev_echo EXCEPT ![p] = (p \notin holders \/ echo)]
    /\ UNCHANGED kbdVars

\* Mutant: the echo stays as it is.
sudo_disable_forgotten(p) ==
    Step(p, "sudo", "disable", "read") /\ UNCHANGED <<kbdVars, prev_echo>>

sudo_disable(p) ==
    /\ Step(p, "sudo", "disable", "read") /\ sysioctl(p, FALSE)
    /\ UNCHANGED <<holders, echo_device, done, prev_echo>>

sudo_read(p) ==
    /\ At(p, "sudo", "read") /\ sysread(p, "check")
    /\ UNCHANGED <<prog, child, kbdVars, user_buf, pass_buf, buf, argVars, prev_echo, typed, disturbed>>

\* With the right password, sudo sleeps before it prints g_arg.
sudo_check(p) ==
    /\ \/ Step(p, "sudo", "check", IF buf[p] = Append(valid_pass, NEWLINE) THEN "sleep" ELSE "restore")
       \/ Step(p, "sudo", "sleep", "g_arg")
       \/ Step(p, "sudo", "g_arg", "restore")
    /\ UNCHANGED <<kbdVars, prev_echo>>

\* Mutant: the echo is not restored.
sudo_restore_forgotten(p) ==
    Step(p, "sudo", "restore", "sysstop") /\ UNCHANGED <<kbdVars, prev_echo>>

\* The number of a device, not a descriptor, is closed: that fails, and the
\* keyboard stays open until the process is gone.
sudo_restore(p) ==
    /\ Step(p, "sudo", "restore", "sysstop")
    /\ sysioctl(p, prev_echo[p] \/ echo)
    /\ UNCHANGED <<holders, echo_device, done, prev_echo>>

-----------------------------------------------------------------------------
Process(p) ==
    \/ setup_kill_handler(p) \/ sysstop(p)
    \/ shell_open(p) \/ shell_prompt(p) \/ shell_got(p) \/ shell_wait(p) \/ shell_exit(p)
    \/ command_t(p) \/ command_ps(p) \/ command_k(p) \/ command_a(p)
    \/ sudo_open(p) \/ sudo_get_echo(p) \/ sudo_disable(p) \/ sudo_read(p) \/ sudo_check(p)
    \/ sudo_restore(p)

Login == login_open \/ login_read("user", TRUE) \/ login_read("pass", FALSE)
         \/ login_check \/ login_wait

Next == Login \/ (\E p \in Pids : Process(p)) \/ (\E line \in Lines : Type(line)) \/ TypeEOF

Spec == Init /\ [][Next]_shellVars

-----------------------------------------------------------------------------
(* Properties *)

\* There is a shell only for the user name and the password: login got both, in
\* this round, as long as it waits for its shell.  Reads that fail or end at
\* EOF leave a buffer as it was.
ShellNeedsPassword ==
    pc[LOGIN] = "wait" =>
        typed = <<Append(valid_user, NEWLINE), Append(valid_pass, NEWLINE)>>

\* The sysopen of the shell, which it does not check, never fails: login has
\* closed the other device, and no command of an earlier shell has it open.
ShellHasKeyboard ==
    \A p \in Running("shell") : pc[p] \in {"prompt", "got", "wait"} => p \in holders

\* No password is echoed: not while login reads one, and not while sudo does
\* unless another sudo restores the echo meanwhile or was killed.
PasswordHidden ==
    /\ (LOGIN \in reading /\ pc[LOGIN] = "pass") => ~echo
    /\ \A p \in Running("sudo") \cap reading : echo => disturbed

\* The user sees what he types at the prompt once all sudos are over.
EchoComesBack ==
    \A p \in Running("shell") \cap reading :
        (Running("sudo") = {} /\ ~echo) => disturbed

ReadsArgument(p) == At(p, "a", "atoi") \/ At(p, "sudo", "g_arg")
InBackground(p)  == prog[p] = "sudo" /\ \A q \in Running("shell") : child[q] # p

\* g_arg still points to the argument that a command was started with when the
\* command reads it; not so for a sudo in the background, whose shell goes on.
ArgumentKept ==
    \A p \in Pids : ReadsArgument(p) /\ ~InBackground(p) => arg = own[p]
=============================================================================
