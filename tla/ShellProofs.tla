------------------------------ MODULE ShellProofs ------------------------------
(***************************************************************************)
(* Proofs about the programs of src/c/user.c: for every size of the        *)
(* process table and every set of lines that the user may type, there is a *)
(* shell only for the password, it has the keyboard, passwords are not     *)
(* echoed, the echo comes back, and commands find their argument.          *)
(***************************************************************************)
EXTENDS Shell, WellFoundedInduction, TLAPS

Programs == Commands \cup {"login", "shell", NONE}

ShellTypes ==
    /\ prog \in [Pids -> Programs]
    /\ DOMAIN pc = Pids /\ DOMAIN child = Pids /\ DOMAIN own = Pids /\ DOMAIN buf = Pids
    /\ prev_echo \in [Pids -> BOOLEAN] /\ echo \in BOOLEAN
    /\ echo_device \in BOOLEAN /\ done \in BOOLEAN /\ disturbed \in BOOLEAN
    /\ reading \subseteq Pids /\ holders \subseteq Pids

\* The root process is login and nobody else is.
OneLogin ==
    /\ \A p \in Pids : prog[p] = "login" <=> p = LOGIN
    /\ pc[LOGIN] \in {"open", "user", "pass", "check", "wait"}

\* Only three programs read, at one place each but login, and only a process
\* with the keyboard open is left waiting.
Readers ==
    \A p \in reading :
        /\ p \in holders
        /\ \/ prog[p] = "login" /\ pc[p] \in {"user", "pass"}
           \/ prog[p] = "shell" /\ pc[p] = "prompt"
           \/ prog[p] = "sudo" /\ pc[p] = "read"

\* Login alone opens the keyboard without echo, and alone has it then.
OneDevice ==
    /\ LOGIN \in holders => /\ holders = {LOGIN} /\ ~echo_device
                            /\ pc[LOGIN] \in {"user", "pass", "check"}
    /\ LOGIN \notin holders /\ holders # {} => echo_device

\* There is one shell at a time, and login waits for it.
OneShell == \A p \in Pids : prog[p] = "shell" => pc[LOGIN] = "wait" /\ child[LOGIN] = p

\* What login was given is what it has in its buffers.
Filled(b) == b = <<>> \/ \E l \in Lines : b = Append(l, NEWLINE)
Got(b)    == IF b = <<>> THEN <<>> ELSE <<b>>
LoginBuffers ==
    /\ Filled(user_buf) /\ Filled(pass_buf)
    /\ pc[LOGIN] = "user" => typed = <<>> /\ user_buf = <<>> /\ pass_buf = <<>>
    /\ pc[LOGIN] = "pass" => typed = Got(user_buf) /\ pass_buf = <<>>
    /\ pc[LOGIN] = "check" => typed = Got(user_buf) \o Got(pass_buf)
    /\ ShellNeedsPassword

\* Two sudos disturb each other, and while login reads a password the echo is
\* off, as it is for an undisturbed sudo.
TwoSudos == \A p, q \in Running("sudo") : p # q => disturbed
EchoOff  ==
    /\ LOGIN \in reading /\ pc[LOGIN] = "pass" => ~echo
    /\ \A p \in Running("sudo") \cap holders : pc[p] = "read" /\ echo => disturbed

\* While the keyboard is open with echo and nothing is disturbed, the echo is
\* on unless a sudo has turned it off, and that sudo will turn it on again.
Disabled == {"read", "check", "sleep", "g_arg", "restore"}
EchoKept ==
    holders # {} /\ LOGIN \notin holders /\ ~disturbed =>
        /\ echo \/ \E p \in Running("sudo") : pc[p] \in Disabled
        /\ \A p \in Running("sudo") :
              /\ pc[p] \in Disabled \cup {"get_echo", "disable"} => p \in holders
              /\ pc[p] \in Disabled \cup {"disable"} => prev_echo[p]

\* The shell waits for its child, and every command but t and sudo is one,
\* until it stops.
Foreground ==
    \A p \in Pids :
        /\ prog[p] \in {"ps", "a", "k"} /\ pc[p] # "sysstop" =>
              \E s \in Running("shell") : child[s] = p
        /\ prog[p] \in {"ps", "a", "k", "sudo"} =>
              \A s \in Running("shell") : child[s] = p /\ pc[p] # "sysstop"
                    => pc[s] = "wait" /\ arg = own[p]

\* Only login and the shell have children.
Childless == \A p \in Pids : prog[p] \notin {"login", "shell"} => child[p] = 0

ShellInv ==
    /\ ShellTypes /\ Childless /\ OneLogin /\ Readers /\ OneDevice /\ OneShell /\ LoginBuffers
    /\ ShellHasKeyboard /\ TwoSudos /\ EchoOff /\ EchoKept /\ Foreground

-----------------------------------------------------------------------------
(* Lemmas *)

\* The slots, among them login's.
LEMMA PidFacts == Pids \subseteq Nat /\ LOGIN \in Pids /\ 0 \notin Pids
BY ShellAssumption DEF Pids, LOGIN

\* A set of natural numbers that is not empty has a least element.
LEMMA Least ==
    ASSUME NEW T, T \subseteq Nat, T # {}
    PROVE  Min(T) \in T /\ \A y \in T : Min(T) <= y
<1>1. PICK x \in T : \A y \in T : ~(<<y, x>> \in OpToRel(<, Nat))
  BY NatLessThanWellFounded, WFMin
<1>2. \A y \in T : ~(y < x)
  BY <1>1 DEF OpToRel
<1>3. \A y \in T : x =< y
  BY <1>2
<1> QED BY <1>3 DEF Min

\* The slot of a new process is free.
LEMMA FreeSlot ==
    ASSUME {q \in Pids : prog[q] = NONE} # {}
    PROVE  Min({q \in Pids : prog[q] = NONE}) \in Pids
           /\ prog[Min({q \in Pids : prog[q] = NONE})] = NONE
<1>1. {q \in Pids : prog[q] = NONE} \subseteq Nat
  BY PidFacts
<1>2. Min({q \in Pids : prog[q] = NONE}) \in {q \in Pids : prog[q] = NONE}
  BY <1>1, Least
<1> QED BY <1>2

\* Where the first token outside C is.
LEMMA LeadingIs ==
    ASSUME NEW s, Len(s) \in Nat, NEW C, NEW n \in 0..Len(s), n = Len(s) \/ s[n + 1] \notin C,
           \A m \in 1..n : s[m] \in C
    PROVE  Leading(s, C) = n
<1> DEFINE T == {k \in 0..Len(s) : k = Len(s) \/ s[k + 1] \notin C}
<1>1. n \in T /\ T \subseteq Nat
  OBVIOUS
<1>2. \A k \in T : n <= k
  <2> SUFFICES ASSUME NEW k \in T, k < n PROVE FALSE
    BY <1>1
  <2>1. k \in Nat /\ k # Len(s) /\ k + 1 \in 1..n
    OBVIOUS
  <2> QED BY <2>1
<1>3. Min(T) \in T /\ \A k \in T : Min(T) <= k
  BY <1>1, Least
<1>4. Min(T) = n
  BY <1>1, <1>2, <1>3
<1> QED BY <1>4 DEF Leading

\* A buffer that was filled or not is a sequence of lines.
LEMMA GotSeq == \A b : Got(b) \o <<>> = Got(b) /\ Append(Got(b), b) = Got(b) \o <<b>>
<1> SUFFICES ASSUME NEW b PROVE Got(b) \o <<>> = Got(b) /\ Append(Got(b), b) = Got(b) \o <<b>>
  OBVIOUS
<1>1. CASE b = <<>>
  BY <1>1 DEF Got
<1>2. CASE b # <<>>
  <2>1. Got(b) = <<b>> /\ <<b>> \in Seq({b})
    BY <1>2 DEF Got
  <2>2. <<b>> \o <<>> = <<b>> /\ Append(<<b>>, b) = <<b>> \o <<b>>
    BY <2>1
  <2> QED BY <2>1, <2>2
<1> QED BY <1>1, <1>2

\* filter_newline gives back the line.
LEMMA FilterLine ==
    /\ \A l \in Lines : filter_newline(Append(l, NEWLINE)) = l
    /\ filter_newline(<<>>) = <<>>
<1>1. ASSUME NEW l \in Lines PROVE filter_newline(Append(l, NEWLINE)) = l
  <2> DEFINE s == Append(l, NEWLINE)
             C == Range(s) \ {NEWLINE}
  <2>1. /\ l \in Seq(STRING) /\ Len(l) \in Nat /\ Len(s) = Len(l) + 1 /\ s[Len(l) + 1] = NEWLINE
        /\ \A m \in 1..Len(l) : s[m] = l[m] /\ l[m] # NEWLINE /\ m \in DOMAIN s
    BY ShellAssumption DEF Range, NEWLINE
  <2>2. \A m \in 1..Len(l) : s[m] \in C
    BY <2>1 DEF Range
  <2>3. Leading(s, C) = Len(l)
    <3> HIDE DEF C, s
    <3>1. NEWLINE \notin C
      BY DEF C
    <3> QED BY <2>1, <2>2, <3>1, LeadingIs
  <2>4. SubSeq(s, 1, Len(l)) = l
    BY <2>1
  <2> QED BY <2>3, <2>4 DEF filter_newline
<1>2. filter_newline(<<>>) = <<>>
  <2>1. Leading(<<>>, Range(<<>>) \ {NEWLINE}) = 0
    BY LeadingIs
  <2> QED BY <2>1 DEF filter_newline
<1> QED BY <1>1, <1>2

\* What the other processes leave to login.
LEMMA LoginApart ==
    ASSUME ShellInv, UNCHANGED <<user_buf, pass_buf, typed>>, ShellTypes',
           pc'[LOGIN] = pc[LOGIN], child'[LOGIN] = child[LOGIN],
           \A q \in Pids : /\ prog'[q] = "login" <=> prog[q] = "login"
                           /\ prog'[q] = "shell" => prog[q] = "shell"
    PROVE  OneLogin' /\ OneShell' /\ LoginBuffers'
<1> USE PidFacts DEF ShellInv
<1>1. OneLogin' /\ OneShell'
  BY DEF OneLogin, OneShell
<1>2. LoginBuffers'
  BY DEF LoginBuffers, Filled, Got, ShellNeedsPassword
<1> QED BY <1>1, <1>2

\* A process makes its first call.
LEMMA setup_kill_handler_keeps ==
    ASSUME ShellInv, NEW p \in Pids, setup_kill_handler(p)
    PROVE ShellInv'
<1> USE PidFacts DEF ShellInv, At, Goto, Running, LOGIN, setup_kill_handler, FirstCall, procVars,
    kbdVars, bufVars, argVars
<1>1. ShellTypes'
  BY DEF ShellTypes, OneLogin, Programs, NONE
<1>2. OneLogin' /\ OneShell' /\ LoginBuffers'
  BY <1>1, LoginApart DEF OneLogin, ShellTypes, NONE
<1>3. Readers'
  BY DEF ShellTypes, Readers, NONE
<1>4. OneDevice' /\ ShellHasKeyboard'
  BY DEF ShellTypes, OneLogin, OneShell, Readers, OneDevice, ShellHasKeyboard, NONE
<1>5. TwoSudos' /\ EchoOff' /\ EchoKept'
  BY DEF ShellTypes, OneLogin, Readers, OneDevice, TwoSudos, EchoOff, EchoKept, Disabled, NONE
<1>6. Foreground'
  BY DEF ShellTypes, OneLogin, OneShell, Foreground, NONE
<1>7. Childless'
  BY DEF ShellTypes, Childless, NONE
<1> QED BY <1>1, <1>2, <1>3, <1>4, <1>5, <1>6, <1>7

\* A process stops.
LEMMA sysstop_keeps == ASSUME ShellInv, NEW p \in Pids, sysstop(p) PROVE ShellInv'
<1> USE PidFacts DEF ShellInv, At, Goto, Running, LOGIN, sysstop, procVars, kbdVars, bufVars,
    argVars
<1>1. ShellTypes'
  BY DEF ShellTypes, OneLogin, Programs, NONE
<1>2. OneLogin' /\ OneShell' /\ LoginBuffers'
  BY <1>1, LoginApart DEF OneLogin, ShellTypes, NONE
<1>3. Readers'
  BY DEF ShellTypes, Readers, NONE
<1>4. OneDevice' /\ ShellHasKeyboard'
  BY DEF ShellTypes, OneLogin, OneShell, Readers, OneDevice, ShellHasKeyboard, NONE
<1>5. TwoSudos' /\ EchoOff' /\ EchoKept'
  BY DEF ShellTypes, OneLogin, Readers, OneDevice, TwoSudos, EchoOff, EchoKept, Disabled, NONE
<1>6. Foreground'
  <2> SUFFICES ASSUME NEW q \in Pids
               PROVE  /\ prog'[q] \in {"ps", "a", "k"} /\ pc'[q] # "sysstop" =>
                            \E s \in Running("shell")' : child'[s] = q
                      /\ prog'[q] \in {"ps", "a", "k", "sudo"} =>
                            \A s \in Running("shell")' : child'[s] = q /\ pc'[q] # "sysstop"
                                  => pc'[s] = "wait" /\ arg' = own'[q]
    BY DEF Foreground
  <2>1. prog'[p] = NONE /\ pc[p] = "sysstop"
    BY DEF ShellTypes
  <2>2. \A s \in Pids \ {p} : /\ prog'[s] = prog[s] /\ pc'[s] = pc[s]
                             /\ child'[s] = child[s] /\ own'[s] = own[s]
    BY DEF ShellTypes
  <2>3. CASE q = p
    BY <2>1, <2>3 DEF NONE
  <2>4. CASE q # p
    <3>1. ASSUME prog'[q] \in {"ps", "a", "k"}, pc'[q] # "sysstop"
          PROVE  \E s \in Running("shell")' : child'[s] = q
      <4>1. prog[q] \in {"ps", "a", "k"} /\ pc[q] # "sysstop"
        BY <2>2, <2>4, <3>1
      <4>2. PICK s \in Pids : prog[s] = "shell" /\ child[s] = q
        BY <4>1 DEF Foreground
      <4>3. pc[s] = "wait"
        BY <4>1, <4>2 DEF Foreground
      <4> QED BY <2>1, <2>2, <4>2, <4>3
    <3>2. ASSUME prog'[q] \in {"ps", "a", "k", "sudo"}, pc'[q] # "sysstop",
                 NEW s \in Running("shell")', child'[s] = q
          PROVE  pc'[s] = "wait" /\ arg' = own'[q]
      <4>1. s # p /\ s \in Running("shell") /\ child[s] = q
        BY <2>1, <2>2, <3>2 DEF NONE
      <4>2. prog[q] \in {"ps", "a", "k", "sudo"} /\ pc[q] # "sysstop" /\ own'[q] = own[q]
        BY <2>2, <2>4, <3>2
      <4>3. pc[s] = "wait" /\ arg = own[q]
        BY <4>1, <4>2 DEF Foreground
      <4> QED BY <2>2, <4>1, <4>2, <4>3
    <3> QED BY <3>1, <3>2
  <2> QED BY <2>3, <2>4
<1>7. Childless'
  BY DEF ShellTypes, Childless, NONE
<1> QED BY <1>1, <1>2, <1>3, <1>4, <1>5, <1>6, <1>7

\* The shell opens the keyboard; nobody has the other device open.
LEMMA shell_open_keeps == ASSUME ShellInv, NEW p \in Pids, shell_open(p) PROVE ShellInv'
<1> USE PidFacts DEF ShellInv, At, Goto, Running, LOGIN, shell_open, sysopen, procVars, kbdVars,
    bufVars, argVars
<1>1. ShellTypes'
  BY DEF ShellTypes, OneLogin, Programs, NONE
<1>2. OneLogin' /\ OneShell' /\ LoginBuffers'
  BY <1>1, LoginApart DEF OneLogin, ShellTypes, NONE
<1>3. Readers'
  BY DEF ShellTypes, Readers, NONE
<1>4. OneDevice' /\ ShellHasKeyboard'
  BY DEF ShellTypes, OneLogin, OneShell, Readers, OneDevice, ShellHasKeyboard, NONE
<1>5. TwoSudos' /\ EchoOff' /\ EchoKept'
  BY DEF ShellTypes, OneLogin, Readers, OneDevice, TwoSudos, EchoOff, EchoKept, Disabled, NONE
<1>6. Foreground'
  BY DEF ShellTypes, OneLogin, OneShell, Foreground, NONE
<1>7. Childless'
  BY DEF ShellTypes, Childless, NONE
<1> QED BY <1>1, <1>2, <1>3, <1>4, <1>5, <1>6, <1>7

\* The shell reads, or finds that it cannot.
LEMMA shell_prompt_keeps == ASSUME ShellInv, NEW p \in Pids, shell_prompt(p) PROVE ShellInv'
<1> USE PidFacts DEF ShellInv, At, Goto, Running, LOGIN, shell_prompt, sysread, procVars, kbdVars,
    bufVars, argVars
<1>1. ShellTypes'
  BY DEF ShellTypes, OneLogin, Programs, NONE
<1>2. OneLogin' /\ OneShell' /\ LoginBuffers'
  BY <1>1, LoginApart DEF OneLogin, ShellTypes, NONE
<1>3. Readers'
  <2>1. CASE p \in holders /\ ~done
    BY <2>1 DEF ShellTypes, Readers
  <2>2. CASE ~(p \in holders /\ ~done)
    <3>1. UNCHANGED <<reading, holders, prog>> /\ \A q \in reading : pc'[q] = pc[q]
      BY <2>2 DEF ShellTypes
    <3> QED BY <3>1 DEF Readers
  <2> QED BY <2>1, <2>2
<1>4. OneDevice' /\ ShellHasKeyboard'
  BY DEF ShellTypes, OneLogin, OneDevice, ShellHasKeyboard
<1>5. TwoSudos' /\ EchoOff' /\ EchoKept'
  BY DEF ShellTypes, OneLogin, Readers, OneDevice, TwoSudos, EchoOff, EchoKept, Disabled, NONE
<1>6. Foreground'
  BY DEF ShellTypes, OneLogin, OneShell, Foreground, NONE
<1>7. Childless'
  BY DEF ShellTypes, Childless, NONE
<1> QED BY <1>1, <1>2, <1>3, <1>4, <1>5, <1>6, <1>7

\* The shell goes on when its child is gone.
LEMMA shell_wait_keeps == ASSUME ShellInv, NEW p \in Pids, shell_wait(p) PROVE ShellInv'
<1> USE PidFacts DEF ShellInv, At, Goto, Running, LOGIN, shell_wait, syswait, procVars, kbdVars,
    bufVars, argVars
<1>1. ShellTypes'
  BY DEF ShellTypes, OneLogin, Programs, NONE
<1>2. OneLogin' /\ OneShell' /\ LoginBuffers'
  BY <1>1, LoginApart DEF OneLogin, ShellTypes, NONE
<1>3. Readers'
  BY DEF ShellTypes, Readers, NONE
<1>4. OneDevice' /\ ShellHasKeyboard'
  BY DEF ShellTypes, OneLogin, OneShell, Readers, OneDevice, ShellHasKeyboard, NONE
<1>5. TwoSudos' /\ EchoOff' /\ EchoKept'
  BY DEF ShellTypes, OneLogin, Readers, OneDevice, TwoSudos, EchoOff, EchoKept, Disabled, NONE
<1>6. Foreground'
  BY DEF ShellTypes, OneLogin, OneShell, Foreground, NONE
<1>7. Childless'
  BY DEF ShellTypes, Childless, NONE
<1> QED BY <1>1, <1>2, <1>3, <1>4, <1>5, <1>6, <1>7

\* The shell closes the keyboard.
LEMMA shell_exit_keeps == ASSUME ShellInv, NEW p \in Pids, shell_exit(p) PROVE ShellInv'
<1> USE PidFacts DEF ShellInv, At, Goto, Running, LOGIN, shell_exit, closed, procVars, kbdVars,
    bufVars, argVars
<1>1. ShellTypes'
  BY DEF ShellTypes, OneLogin, Programs, NONE
<1>2. OneLogin' /\ OneShell' /\ LoginBuffers'
  BY <1>1, LoginApart DEF OneLogin, ShellTypes, NONE
<1>3. Readers'
  BY DEF ShellTypes, Readers, NONE
<1>4. OneDevice' /\ ShellHasKeyboard'
  BY DEF ShellTypes, OneLogin, OneShell, Readers, OneDevice, ShellHasKeyboard, NONE
<1>5. TwoSudos' /\ EchoOff' /\ EchoKept'
  BY DEF ShellTypes, OneLogin, Readers, OneDevice, TwoSudos, EchoOff, EchoKept, Disabled, NONE
<1>6. Foreground'
  BY DEF ShellTypes, OneLogin, OneShell, Foreground, NONE
<1>7. Childless'
  BY DEF ShellTypes, Childless, NONE
<1> QED BY <1>1, <1>2, <1>3, <1>4, <1>5, <1>6, <1>7

\* t sleeps.
LEMMA command_t_keeps == ASSUME ShellInv, NEW p \in Pids, command_t(p) PROVE ShellInv'
<1> USE PidFacts DEF ShellInv, At, Goto, Running, LOGIN, command_t, Step, procVars, kbdVars,
    bufVars, argVars
<1>1. ShellTypes'
  BY DEF ShellTypes, OneLogin, Programs, NONE
<1>2. OneLogin' /\ OneShell' /\ LoginBuffers'
  BY <1>1, LoginApart DEF OneLogin, ShellTypes, NONE
<1>3. Readers'
  BY DEF ShellTypes, Readers, NONE
<1>4. OneDevice' /\ ShellHasKeyboard'
  BY DEF ShellTypes, OneLogin, OneShell, Readers, OneDevice, ShellHasKeyboard, NONE
<1>5. TwoSudos' /\ EchoOff' /\ EchoKept'
  BY DEF ShellTypes, OneLogin, Readers, OneDevice, TwoSudos, EchoOff, EchoKept, Disabled, NONE
<1>6. Foreground'
  BY DEF ShellTypes, OneLogin, OneShell, Foreground, NONE
<1>7. Childless'
  BY DEF ShellTypes, Childless, NONE
<1> QED BY <1>1, <1>2, <1>3, <1>4, <1>5, <1>6, <1>7

\* ps prints.
LEMMA command_ps_keeps == ASSUME ShellInv, NEW p \in Pids, command_ps(p) PROVE ShellInv'
<1> USE PidFacts DEF ShellInv, At, Goto, Running, LOGIN, command_ps, Step, procVars, kbdVars,
    bufVars, argVars
<1>1. ShellTypes'
  BY DEF ShellTypes, OneLogin, Programs, NONE
<1>2. OneLogin' /\ OneShell' /\ LoginBuffers'
  BY <1>1, LoginApart DEF OneLogin, ShellTypes, NONE
<1>3. Readers'
  BY DEF ShellTypes, Readers, NONE
<1>4. OneDevice' /\ ShellHasKeyboard'
  BY DEF ShellTypes, OneLogin, OneShell, Readers, OneDevice, ShellHasKeyboard, NONE
<1>5. TwoSudos' /\ EchoOff' /\ EchoKept'
  BY DEF ShellTypes, OneLogin, Readers, OneDevice, TwoSudos, EchoOff, EchoKept, Disabled, NONE
<1>6. Foreground'
  BY DEF ShellTypes, OneLogin, OneShell, Foreground, NONE
<1>7. Childless'
  BY DEF ShellTypes, Childless, NONE
<1> QED BY <1>1, <1>2, <1>3, <1>4, <1>5, <1>6, <1>7

\* a waits for its alarm.
LEMMA command_a_keeps == ASSUME ShellInv, NEW p \in Pids, command_a(p) PROVE ShellInv'
<1> USE PidFacts DEF ShellInv, At, Goto, Running, LOGIN, command_a, Step, procVars, kbdVars,
    bufVars, argVars
<1>1. ShellTypes'
  BY DEF ShellTypes, OneLogin, Programs, NONE
<1>2. OneLogin' /\ OneShell' /\ LoginBuffers'
  BY <1>1, LoginApart DEF OneLogin, ShellTypes, NONE
<1>3. Readers'
  BY DEF ShellTypes, Readers
<1>4. OneDevice' /\ ShellHasKeyboard'
  BY DEF ShellTypes, OneLogin, OneDevice, ShellHasKeyboard
<1>5. TwoSudos' /\ EchoOff' /\ EchoKept'
  BY DEF ShellTypes, OneLogin, Readers, OneDevice, TwoSudos, EchoOff, EchoKept, Disabled, NONE
<1>6. Foreground'
  BY DEF ShellTypes, OneLogin, OneShell, Foreground, NONE
<1>7. Childless'
  BY DEF ShellTypes, Childless, NONE
<1> QED BY <1>1, <1>2, <1>3, <1>4, <1>5, <1>6, <1>7

\* sudo opens the keyboard, unless login has it.
LEMMA sudo_open_keeps == ASSUME ShellInv, NEW p \in Pids, sudo_open(p) PROVE ShellInv'
<1> USE PidFacts DEF ShellInv, At, Goto, Running, LOGIN, sudo_open, sysopen, procVars, kbdVars,
    bufVars, argVars
<1>1. ShellTypes'
  BY DEF ShellTypes, OneLogin, Programs, NONE
<1>2. OneLogin' /\ OneShell' /\ LoginBuffers'
  BY <1>1, LoginApart DEF OneLogin, ShellTypes, NONE
<1>3. Readers'
  BY DEF ShellTypes, Readers, NONE
<1>4. OneDevice' /\ ShellHasKeyboard'
  BY DEF ShellTypes, OneLogin, OneShell, Readers, OneDevice, ShellHasKeyboard, NONE
<1>5. TwoSudos' /\ EchoOff' /\ EchoKept'
  BY DEF ShellTypes, OneLogin, Readers, OneDevice, TwoSudos, EchoOff, EchoKept, Disabled, NONE
<1>6. Foreground'
  BY DEF ShellTypes, OneLogin, OneShell, Foreground, NONE
<1>7. Childless'
  BY DEF ShellTypes, Childless, NONE
<1> QED BY <1>1, <1>2, <1>3, <1>4, <1>5, <1>6, <1>7

\* sudo asks for the echo.
LEMMA sudo_get_echo_keeps == ASSUME ShellInv, NEW p \in Pids, sudo_get_echo(p) PROVE ShellInv'
<1> USE PidFacts DEF ShellInv, At, Goto, Running, LOGIN, sudo_get_echo, Step, procVars, kbdVars,
    bufVars, argVars
<1>1. ShellTypes'
  BY DEF ShellTypes, OneLogin, Programs, NONE
<1>2. OneLogin' /\ OneShell' /\ LoginBuffers'
  BY <1>1, LoginApart DEF OneLogin, ShellTypes, NONE
<1>3. Readers'
  BY DEF ShellTypes, Readers, NONE
<1>4. OneDevice' /\ ShellHasKeyboard'
  BY DEF ShellTypes, OneLogin, OneShell, Readers, OneDevice, ShellHasKeyboard, NONE
<1>5. TwoSudos' /\ EchoOff' /\ EchoKept'
  BY DEF ShellTypes, OneLogin, Readers, OneDevice, TwoSudos, EchoOff, EchoKept, Disabled, NONE
<1>6. Foreground'
  BY DEF ShellTypes, OneLogin, OneShell, Foreground, NONE
<1>7. Childless'
  BY DEF ShellTypes, Childless, NONE
<1> QED BY <1>1, <1>2, <1>3, <1>4, <1>5, <1>6, <1>7

\* sudo turns the echo off.
LEMMA sudo_disable_keeps == ASSUME ShellInv, NEW p \in Pids, sudo_disable(p) PROVE ShellInv'
<1> USE PidFacts DEF ShellInv, At, Goto, Running, LOGIN, sudo_disable, Step, sysioctl, procVars,
    kbdVars, bufVars, argVars
<1>1. ShellTypes'
  BY DEF ShellTypes, OneLogin, Programs, NONE
<1>2. OneLogin' /\ OneShell' /\ LoginBuffers'
  BY <1>1, LoginApart DEF OneLogin, ShellTypes, NONE
<1>3. Readers'
  BY DEF ShellTypes, Readers, NONE
<1>4. OneDevice' /\ ShellHasKeyboard'
  BY DEF ShellTypes, OneLogin, OneShell, Readers, OneDevice, ShellHasKeyboard, NONE
<1>5. TwoSudos' /\ EchoOff' /\ EchoKept'
  BY DEF ShellTypes, OneLogin, Readers, OneDevice, TwoSudos, EchoOff, EchoKept, Disabled, NONE
<1>6. Foreground'
  BY DEF ShellTypes, OneLogin, OneShell, Foreground, NONE
<1>7. Childless'
  BY DEF ShellTypes, Childless, NONE
<1> QED BY <1>1, <1>2, <1>3, <1>4, <1>5, <1>6, <1>7

\* sudo reads.
LEMMA sudo_read_keeps == ASSUME ShellInv, NEW p \in Pids, sudo_read(p) PROVE ShellInv'
<1> USE PidFacts DEF ShellInv, At, Goto, Running, LOGIN, sudo_read, sysread, procVars, kbdVars,
    bufVars, argVars
<1>1. ShellTypes'
  BY DEF ShellTypes, OneLogin, Programs, NONE
<1>2. OneLogin' /\ OneShell' /\ LoginBuffers'
  BY <1>1, LoginApart DEF OneLogin, ShellTypes, NONE
<1>3. Readers'
  <2>1. CASE p \in holders /\ ~done
    BY <2>1 DEF ShellTypes, Readers
  <2>2. CASE ~(p \in holders /\ ~done)
    <3>1. UNCHANGED <<reading, holders, prog>> /\ \A q \in reading : pc'[q] = pc[q]
      BY <2>2 DEF ShellTypes
    <3> QED BY <3>1 DEF Readers
  <2> QED BY <2>1, <2>2
<1>4. OneDevice' /\ ShellHasKeyboard'
  BY DEF ShellTypes, OneLogin, OneDevice, ShellHasKeyboard
<1>5. TwoSudos' /\ EchoOff' /\ EchoKept'
  BY DEF ShellTypes, OneLogin, Readers, OneDevice, TwoSudos, EchoOff, EchoKept, Disabled, NONE
<1>6. Foreground'
  BY DEF ShellTypes, OneLogin, OneShell, Foreground, NONE
<1>7. Childless'
  BY DEF ShellTypes, Childless, NONE
<1> QED BY <1>1, <1>2, <1>3, <1>4, <1>5, <1>6, <1>7

\* sudo checks what it read.
LEMMA sudo_check_keeps == ASSUME ShellInv, NEW p \in Pids, sudo_check(p) PROVE ShellInv'
<1> USE PidFacts DEF ShellInv, At, Goto, Running, LOGIN, sudo_check, Step, procVars, kbdVars,
    bufVars, argVars
<1>1. ShellTypes'
  BY DEF ShellTypes, OneLogin, Programs, NONE
<1>2. OneLogin' /\ OneShell' /\ LoginBuffers'
  BY <1>1, LoginApart DEF OneLogin, ShellTypes, NONE
<1>3. Readers'
  BY DEF ShellTypes, Readers
<1>4. OneDevice' /\ ShellHasKeyboard'
  BY DEF ShellTypes, OneLogin, OneDevice, ShellHasKeyboard
<1>5. TwoSudos' /\ EchoOff' /\ EchoKept'
  BY DEF ShellTypes, OneLogin, Readers, OneDevice, TwoSudos, EchoOff, EchoKept, Disabled, NONE
<1>6. Foreground'
  BY DEF ShellTypes, OneLogin, OneShell, Foreground, NONE
<1>7. Childless'
  BY DEF ShellTypes, Childless, NONE
<1> QED BY <1>1, <1>2, <1>3, <1>4, <1>5, <1>6, <1>7

\* sudo turns the echo on again.
LEMMA sudo_restore_keeps == ASSUME ShellInv, NEW p \in Pids, sudo_restore(p) PROVE ShellInv'
<1> USE PidFacts DEF ShellInv, At, Goto, Running, LOGIN, sudo_restore, Step, sysioctl, procVars,
    kbdVars, bufVars, argVars
<1>1. ShellTypes'
  BY DEF ShellTypes, OneLogin, Programs, NONE
<1>2. OneLogin' /\ OneShell' /\ LoginBuffers'
  BY <1>1, LoginApart DEF OneLogin, ShellTypes, NONE
<1>3. Readers'
  BY DEF ShellTypes, Readers, NONE
<1>4. OneDevice' /\ ShellHasKeyboard'
  BY DEF ShellTypes, OneLogin, OneShell, Readers, OneDevice, ShellHasKeyboard, NONE
<1>5. TwoSudos' /\ EchoOff' /\ EchoKept'
  BY DEF ShellTypes, OneLogin, Readers, OneDevice, TwoSudos, EchoOff, EchoKept, Disabled, NONE
<1>6. Foreground'
  BY DEF ShellTypes, OneLogin, OneShell, Foreground, NONE
<1>7. Childless'
  BY DEF ShellTypes, Childless, NONE
<1> QED BY <1>1, <1>2, <1>3, <1>4, <1>5, <1>6, <1>7

\* k stops another process, but not login.  The shell waits for k meanwhile, so
\* that no other command that it waits for loses its shell.
LEMMA command_k_keeps == ASSUME ShellInv, NEW p \in Pids, command_k(p) PROVE ShellInv'
<1> DEFINE g == g_pid_to_kill
           hit == g \in Pids /\ Killable(g)
<1> USE PidFacts DEF ShellInv, At, Running, LOGIN
<1>1. /\ prog[p] = "k" /\ pc[p] = "syskill" /\ p \notin reading
      /\ UNCHANGED <<prog, child, holders, echo_device, echo, done, user_buf, pass_buf, buf, arg,
                     own, prev_echo, typed>>
      /\ hit => /\ prog[g] \notin {NONE, "login"} /\ reading' = reading \ {g}
                /\ disturbed' = (disturbed \/ prog[g] = "sudo")
      /\ ~hit => UNCHANGED <<reading, disturbed>>
      /\ DOMAIN pc' = Pids
      /\ \A q \in Pids : pc'[q] = IF q = p \/ (hit /\ q = g) THEN "sysstop" ELSE pc[q]
  BY DEF command_k, Goto, Killable, ShellTypes, kbdVars, bufVars
<1> HIDE DEF g, hit
<1>2. ShellTypes'
  BY <1>1 DEF ShellTypes
<1>3. g # LOGIN \/ ~hit
  BY <1>1 DEF OneLogin
<1>4. OneLogin' /\ OneShell' /\ LoginBuffers'
  BY <1>1, <1>2, <1>3, LoginApart DEF OneLogin
<1>5. Readers'
  <2>1. \A q \in reading' : q \in reading /\ pc'[q] = pc[q]
    <3>1. \A q \in reading' : q \in reading /\ q # p /\ (hit => q # g)
      BY <1>1
    <3>2. reading \subseteq Pids
      BY DEF ShellTypes
    <3> QED BY <1>1, <3>1, <3>2
  <2> QED BY <1>1, <2>1 DEF Readers
<1>6. OneDevice' /\ ShellHasKeyboard'
  BY <1>1, <1>3 DEF OneDevice, ShellHasKeyboard, OneLogin
<1>7. TwoSudos' /\ EchoOff' /\ EchoKept'
  BY <1>1, <1>3 DEF ShellTypes, OneLogin, TwoSudos, EchoOff, EchoKept, Disabled
<1>8. Foreground'
  <2>1. PICK s \in Running("shell") : child[s] = p /\ pc[s] = "wait"
    BY <1>1 DEF Foreground
  <2>2. \A r \in Running("shell") : r = s
    BY <2>1 DEF OneShell
  <2>3. ASSUME NEW q \in Pids, pc'[q] # "sysstop", prog[q] \in {"ps", "a", "k", "sudo"},
               NEW r \in Running("shell"), child[r] = q
        PROVE  FALSE
    BY <1>1, <2>1, <2>2, <2>3
  <2>4. ASSUME NEW q \in Pids, pc'[q] # "sysstop", prog[q] \in {"ps", "a", "k"} PROVE FALSE
    <3>1. pc[q] # "sysstop"
      BY <1>1, <2>4
    <3>2. \E r \in Running("shell") : child[r] = q
      BY <3>1, <2>4 DEF Foreground
    <3> QED BY <2>3, <2>4, <3>2
  <2> QED BY <1>1, <2>3, <2>4 DEF Foreground
<1>9. Childless'
  BY <1>1 DEF Childless
<1> QED BY <1>2, <1>4, <1>5, <1>6, <1>7, <1>8, <1>9

\* What syscreate does.
LEMMA Created ==
    ASSUME ShellTypes, NEW p \in Pids, prog[p] # NONE, NEW program \in Programs, NEW argument, NEW next,
           syscreate(p, program, argument, next)
    PROVE  \/ /\ UNCHANGED <<prog, own, disturbed>>
              /\ pc' = [pc EXCEPT ![p] = next] /\ child' = [child EXCEPT ![p] = 0]
           \/ \E q \in Pids \ {p} :
                /\ prog[q] = NONE
                /\ prog' = [prog EXCEPT ![q] = program]
                /\ pc' = [pc EXCEPT ![p] = next, ![q] = "start"]
                /\ child' = [child EXCEPT ![p] = IF next = "wait" THEN q ELSE 0]
                /\ own' = [own EXCEPT ![q] = argument]
                /\ disturbed' = (disturbed \/ (program = "sudo" /\ Running("sudo") # {}))
<1>1. CASE {q \in Pids : prog[q] = NONE} = {}
  BY <1>1 DEF syscreate, Goto
<1>2. CASE {q \in Pids : prog[q] = NONE} # {}
  <2> DEFINE q == Min({r \in Pids : prog[r] = NONE})
  <2>1. q \in Pids \ {p} /\ prog[q] = NONE
    BY <1>2, FreeSlot
  <2>2. /\ prog' = [prog EXCEPT ![q] = program]
        /\ pc' = [pc EXCEPT ![p] = next, ![q] = "start"]
        /\ child' = [child EXCEPT ![p] = IF next = "wait" THEN q ELSE 0]
        /\ own' = [own EXCEPT ![q] = argument]
        /\ disturbed' = (disturbed \/ (program = "sudo" /\ Running("sudo") # {}))
    BY <1>2 DEF syscreate
  <2> QED BY <2>1, <2>2
<1> QED BY <1>1, <1>2

\* The shell starts a command that is none of those that exist, ends, or does
\* nothing.
LEMMA shell_got_keeps == ASSUME ShellInv, NEW p \in Pids, shell_got(p) PROVE ShellInv'
<1> USE PidFacts DEF ShellInv, LOGIN
<1>1. /\ prog[p] = "shell" /\ pc[p] = "got" /\ p \notin reading
      /\ UNCHANGED <<reading, holders, echo_device, echo, done, user_buf, pass_buf, bytes, prev_echo, typed>>
      /\ DOMAIN buf' = Pids /\ p # LOGIN /\ p \in holders
  BY DEF shell_got, At, kbdVars, ShellTypes, OneLogin, ShellHasKeyboard, Running
<1>2. \A q \in Running("shell") : q = p
  BY <1>1 DEF OneShell, Running
<1>3. CASE /\ UNCHANGED <<prog, own, disturbed>>
           /\ \/ UNCHANGED <<child, arg>> /\ pc' = [pc EXCEPT ![p] = "exit"]
              \/ \E next \in {"exit", "wait", "prompt"} :
                    child' = [child EXCEPT ![p] = 0] /\ pc' = [pc EXCEPT ![p] = next]
  <2>1. ShellTypes'
    BY <1>1, <1>3 DEF ShellTypes
  <2>2. OneLogin' /\ OneShell' /\ LoginBuffers'
    BY <1>1, <1>3, <2>1, LoginApart DEF ShellTypes
  <2>3. Readers' /\ OneDevice' /\ ShellHasKeyboard'
    BY <1>1, <1>3 DEF ShellTypes, Readers, OneDevice, ShellHasKeyboard, Running
  <2>4. TwoSudos' /\ EchoOff' /\ EchoKept'
    BY <1>1, <1>3 DEF ShellTypes, TwoSudos, EchoOff, EchoKept, Disabled, Running
  <2>5. Foreground'
    <3>1. \A q \in Pids : prog[q] \in {"ps", "a", "k"} => pc[q] = "sysstop"
      BY <1>1, <1>2 DEF Foreground
    <3>2. \A q \in Pids : prog[q] \in {"ps", "a", "k", "sudo"} /\ pc[q] # "sysstop" => child[p] # q
      BY <1>1, <1>2 DEF Foreground, Running
    <3>3. child'[p] \in {0, child[p]} /\ \A q \in Pids \ {p} : pc'[q] = pc[q] /\ prog'[q] = prog[q]
      BY <1>3 DEF ShellTypes
    <3> QED BY <1>1, <1>2, <1>3, <3>1, <3>2, <3>3 DEF Foreground, Running
  <2>6. Childless'
    BY <1>1, <1>3 DEF ShellTypes, Childless
  <2> QED BY <2>1, <2>2, <2>3, <2>4, <2>5, <2>6
<1>4. ASSUME NEW q \in Pids \ {p}, prog[q] = NONE, NEW program \in Commands, NEW next \in {"wait", "prompt"},
             prog' = [prog EXCEPT ![q] = program],
             pc' = [pc EXCEPT ![p] = next, ![q] = "start"],
             child' = [child EXCEPT ![p] = IF next = "wait" THEN q ELSE 0],
             own' = [own EXCEPT ![q] = arg'],
             disturbed' = (disturbed \/ (program = "sudo" /\ Running("sudo") # {})),
             program \notin {"t", "sudo"} => next = "wait"
      PROVE  ShellInv'
  <2>0. /\ \A r \in Pids : prog'[r] = IF r = q THEN program ELSE prog[r]
        /\ \A r \in Pids : pc'[r] = IF r = q THEN "start" ELSE IF r = p THEN next ELSE pc[r]
        /\ \A r \in Pids : child'[r] = IF r = p THEN IF next = "wait" THEN q ELSE 0 ELSE child[r]
        /\ \A r \in Pids : own'[r] = IF r = q THEN arg' ELSE own[r]
        /\ program \notin {NONE, "login", "shell"} /\ prog[q] \notin {"login", "shell", "sudo"}
        /\ q # LOGIN /\ q \notin reading
    BY <1>4 DEF ShellTypes, Commands, NONE, OneLogin, Readers
  <2>1. ShellTypes'
    BY <1>1, <1>4, <2>0 DEF ShellTypes, Programs
  <2>2. OneLogin' /\ OneShell' /\ LoginBuffers'
    BY <1>1, <2>0, <2>1, LoginApart DEF NONE
  <2>3. Readers' /\ OneDevice' /\ ShellHasKeyboard'
    <3>1. \A r \in reading : r # p /\ r # q
      BY <1>1, <2>0
    <3>2. Readers'
      <4>1. \A r \in reading : pc'[r] = pc[r] /\ prog'[r] = prog[r]
        BY <2>0, <3>1 DEF ShellTypes
      <4> QED BY <1>1, <4>1 DEF Readers
    <3>3. OneDevice'
      BY <1>1, <2>0 DEF OneDevice
    <3>4. ShellHasKeyboard'
      BY <1>1, <1>2, <2>0 DEF ShellHasKeyboard, Running
    <3> QED BY <3>2, <3>3, <3>4
  <2>4. TwoSudos' /\ EchoOff' /\ EchoKept'
    <3>1. ASSUME NEW r \in Running("sudo")', r # q PROVE r \in Running("sudo")
      BY <2>0, <3>1 DEF Running
    <3>2. \A r \in Running("sudo") : r # p /\ r # q /\ r \in Running("sudo")'
      BY <1>1, <2>0 DEF Running
    <3>3. TwoSudos'
      <4>1. q \in Running("sudo")' => program = "sudo"
        BY <2>0 DEF Running
      <4> QED BY <1>4, <3>1, <3>2, <4>1 DEF TwoSudos
    <3>4. EchoOff'
      BY <1>1, <1>4, <2>0, <3>1, <3>2 DEF EchoOff, ShellTypes, Running
    <3>5. EchoKept'
      <4> SUFFICES ASSUME holders # {}, LOGIN \notin holders, ~disturbed'
                   PROVE  /\ echo \/ \E r \in Running("sudo")' : pc'[r] \in Disabled
                          /\ \A r \in Running("sudo")' :
                                /\ pc'[r] \in Disabled \cup {"get_echo", "disable"} => r \in holders
                                /\ pc'[r] \in Disabled \cup {"disable"} => prev_echo[r]
        BY <1>1 DEF EchoKept
      <4>1. pc'[q] = "start" /\ \A r \in Running("sudo") : pc'[r] = pc[r]
        BY <2>0, <3>2 DEF Running
      <4>2. ~disturbed
        BY <1>4 DEF ShellTypes
      <4> QED BY <3>1, <3>2, <4>1, <4>2 DEF EchoKept, Disabled
    <3> QED BY <3>3, <3>4, <3>5
  <2>5. Foreground'
    <3>1. \A r \in Pids : prog[r] \in {"ps", "a", "k"} => pc[r] = "sysstop"
      BY <1>1, <1>2 DEF Foreground
    <3>2. \A s \in Running("shell")' : s = p
      BY <1>2, <2>0 DEF Running
    <3>3. p \in Running("shell")'
      BY <1>1, <2>0 DEF Running
    <3>4. ASSUME NEW r \in Pids, prog'[r] \in {"ps", "a", "k"}, pc'[r] # "sysstop"
          PROVE  child'[p] = r
      BY <1>1, <1>4, <2>0, <3>1, <3>4
    <3>5. ASSUME NEW r \in Pids, pc'[r] # "sysstop", child'[p] = r
          PROVE  pc'[p] = "wait" /\ arg' = own'[r]
      BY <1>1, <1>4, <2>0, <3>5
    <3> QED BY <3>2, <3>3, <3>4, <3>5 DEF Foreground
  <2>6. Childless'
    BY <1>1, <2>0 DEF Childless, NONE
  <2> QED BY <2>1, <2>2, <2>3, <2>4, <2>5, <2>6
<1>5. \/ /\ UNCHANGED <<prog, own, disturbed>>
         /\ \/ UNCHANGED <<child, arg>> /\ pc' = [pc EXCEPT ![p] = "exit"]
            \/ \E next \in {"exit", "wait", "prompt"} :
                  child' = [child EXCEPT ![p] = 0] /\ pc' = [pc EXCEPT ![p] = next]
      \/ \E program \in Commands, next \in {"wait", "prompt"} :
            /\ program \notin {"t", "sudo"} => next = "wait"
            /\ syscreate(p, program, arg', next)
  <2> DEFINE cmd == get_command(filter_newline(buf[p]))
  <2>1. CASE ~bytes[p]
    BY <2>1 DEF shell_got, Goto, argVars
  <2>2. CASE bytes[p] /\ cmd.command \notin Commands
    BY <2>2 DEF shell_got, Goto
  <2>3. CASE bytes[p] /\ cmd.command \in Commands
    <3>1. arg' = cmd.arg
      BY <2>3 DEF shell_got
    <3> DEFINE next == IF waited_for(cmd.command, cmd.ampersand) THEN "wait" ELSE "prompt"
    <3>2. syscreate(p, cmd.command, cmd.arg, next)
      BY <2>3 DEF shell_got
    <3>3. cmd.command \notin {"t", "sudo"} => next = "wait"
      BY DEF waited_for
    <3> QED BY <2>3, <3>1, <3>2, <3>3
  <2> QED BY <2>1, <2>2, <2>3
<1>6. ASSUME NEW program \in Commands, NEW next \in {"wait", "prompt"},
             program \notin {"t", "sudo"} => next = "wait", syscreate(p, program, arg', next)
      PROVE  ShellInv'
  <2>1. program \in Programs /\ prog[p] # NONE
    BY <1>1 DEF Programs, NONE
  <2> QED BY <1>3, <1>4, <1>6, <2>1, Created
<1> QED BY <1>3, <1>5, <1>6

-----------------------------------------------------------------------------
(* The user *)

\* Where the processes that read go on.
LEMMA AfterReads ==
    ASSUME ShellInv, NEW text, NEW count \in BOOLEAN, ReadsEnd(text, count)
    PROVE  /\ reading' = {} /\ DOMAIN pc' = Pids
           /\ \A p \in Pids \ reading : pc'[p] = pc[p]
           /\ LOGIN \in reading =>
                /\ prog[LOGIN] = "login"
                /\ \/ pc[LOGIN] = "user" /\ pc'[LOGIN] = "pass"
                   \/ pc[LOGIN] = "pass" /\ pc'[LOGIN] = "check"
           /\ \A p \in reading \ {LOGIN} :
                /\ p \in holders
                /\ \/ prog[p] = "shell" /\ pc[p] = "prompt" /\ pc'[p] = "got"
                   \/ prog[p] = "sudo" /\ pc[p] = "read" /\ pc'[p] = "check"
<1>1. \A p \in Pids : pc'[p] = IF p \in reading THEN AfterRead[pc[p]] ELSE pc[p]
  BY DEF ReadsEnd
<1>2. /\ AfterRead["user"] = "pass" /\ AfterRead["pass"] = "check"
      /\ AfterRead["prompt"] = "got" /\ AfterRead["read"] = "check"
  BY DEF AfterRead
<1>3. reading \subseteq Pids /\ \A p \in reading : prog[p] = "login" <=> p = LOGIN
  BY DEF ShellInv, ShellTypes, OneLogin
<1>4. \A p \in reading : /\ p \in holders
                         /\ \/ prog[p] = "login" /\ pc[p] \in {"user", "pass"}
                            \/ prog[p] = "shell" /\ pc[p] = "prompt"
                            \/ prog[p] = "sudo" /\ pc[p] = "read"
  BY DEF ShellInv, Readers
<1>5. reading' = {} /\ DOMAIN pc' = Pids
  BY DEF ReadsEnd
<1>6. ASSUME LOGIN \in reading
      PROVE  /\ prog[LOGIN] = "login"
             /\ \/ pc[LOGIN] = "user" /\ pc'[LOGIN] = "pass"
                \/ pc[LOGIN] = "pass" /\ pc'[LOGIN] = "check"
  BY <1>1, <1>2, <1>3, <1>4, <1>6
<1>7. ASSUME NEW p \in reading \ {LOGIN}
      PROVE  /\ p \in holders
             /\ \/ prog[p] = "shell" /\ pc[p] = "prompt" /\ pc'[p] = "got"
                \/ prog[p] = "sudo" /\ pc[p] = "read" /\ pc'[p] = "check"
  BY <1>1, <1>2, <1>3, <1>4
<1> QED BY <1>1, <1>5, <1>6, <1>7

\* The characters that end a read.
LEMMA ReadsEnd_keeps ==
    ASSUME ShellInv, NEW text, NEW count \in BOOLEAN, ReadsEnd(text, count), done' \in BOOLEAN,
           count => \E l \in Lines : text = Append(l, NEWLINE)
    PROVE  ShellInv'
<1> USE PidFacts DEF ShellInv
<1>1. /\ reading' = {} /\ DOMAIN pc' = Pids
      /\ \A p \in Pids \ reading : pc'[p] = pc[p]
      /\ LOGIN \in reading =>
           /\ prog[LOGIN] = "login"
           /\ \/ pc[LOGIN] = "user" /\ pc'[LOGIN] = "pass"
              \/ pc[LOGIN] = "pass" /\ pc'[LOGIN] = "check"
      /\ \A p \in reading \ {LOGIN} :
           /\ p \in holders
           /\ \/ prog[p] = "shell" /\ pc[p] = "prompt" /\ pc'[p] = "got"
              \/ prog[p] = "sudo" /\ pc[p] = "read" /\ pc'[p] = "check"
  BY AfterReads
<1>2. /\ UNCHANGED <<prog, child, holders, echo_device, echo, arg, g_pid_to_kill, own, prev_echo, disturbed>>
      /\ DOMAIN buf' = Pids
      /\ user_buf' = IF LOGIN \in reading /\ pc[LOGIN] = "user" /\ count THEN text ELSE user_buf
      /\ pass_buf' = IF LOGIN \in reading /\ pc[LOGIN] = "pass" /\ count THEN text ELSE pass_buf
      /\ typed' = IF LOGIN \in reading /\ count THEN Append(typed, text) ELSE typed
  BY DEF ReadsEnd, argVars
<1>3. ShellTypes'
  BY <1>1, <1>2 DEF ShellTypes
<1>4. OneLogin' /\ OneShell' /\ OneDevice'
  BY <1>1, <1>2 DEF OneLogin, OneShell, OneDevice
<1>5. LoginBuffers'
  <2>1. CASE LOGIN \notin reading
    BY <1>1, <1>2, <2>1 DEF LoginBuffers, ShellNeedsPassword, Filled
  <2>2. CASE LOGIN \in reading /\ ~count
    <3>1. UNCHANGED <<user_buf, pass_buf, typed>> /\ Got(<<>>) = <<>>
      BY <1>2, <2>2 DEF Got
    <3>2. pc[LOGIN] = "pass" => typed = Got(user_buf) \o Got(pass_buf)
      BY <3>1, GotSeq DEF LoginBuffers
    <3> QED BY <1>1, <2>2, <3>1, <3>2 DEF LoginBuffers, ShellNeedsPassword, Filled
  <2>3. CASE LOGIN \in reading /\ count
    <3>1. PICK l \in Lines : text = Append(l, NEWLINE)
      BY <2>3
    <3>2. text # <<>>
      BY <3>1, ShellAssumption
    <3>3. Filled(text) /\ Got(text) = <<text>>
      BY <3>1, <3>2 DEF Filled, Got
    <3>4. CASE pc[LOGIN] = "user"
      <4>1. typed' = <<text>> /\ user_buf' = text /\ pass_buf' = <<>> /\ pc'[LOGIN] = "pass"
        BY <1>1, <1>2, <2>3, <3>4 DEF LoginBuffers
      <4>2. Filled(pass_buf')
        BY <4>1 DEF Filled
      <4> QED BY <3>3, <4>1, <4>2 DEF LoginBuffers, ShellNeedsPassword, Filled
    <3>5. CASE pc[LOGIN] = "pass"
      <4>1. /\ typed' = Append(Got(user_buf), text) /\ user_buf' = user_buf /\ pass_buf' = text
            /\ pc'[LOGIN] = "check"
        BY <1>1, <1>2, <2>3, <3>5 DEF LoginBuffers
      <4>2. Append(Got(user_buf), text) = Got(user_buf) \o <<text>>
        BY DEF Got
      <4> QED BY <3>3, <4>1, <4>2 DEF LoginBuffers, ShellNeedsPassword, Filled
    <3> QED BY <1>1, <2>3, <3>4, <3>5
  <2> QED BY <2>1, <2>2, <2>3
<1>6. Readers' /\ ShellHasKeyboard'
  BY <1>1, <1>2 DEF Readers, ShellHasKeyboard, Running, OneLogin
<1>7. TwoSudos' /\ EchoOff' /\ EchoKept'
  <2>1. \A p \in Running("sudo") : p # LOGIN /\ (pc'[p] = pc[p] \/ (pc[p] = "read" /\ pc'[p] = "check"))
    BY <1>1 DEF Running, OneLogin
  <2>2. Running("sudo")' = Running("sudo")
    BY <1>2 DEF Running
  <2>3. TwoSudos' /\ EchoOff'
    BY <1>1, <1>2, <2>1, <2>2 DEF TwoSudos, EchoOff
  <2>4. EchoKept'
    BY <1>2, <2>1, <2>2 DEF EchoKept, Disabled
  <2> QED BY <2>3, <2>4
<1>8. Foreground'
  <2>1. \A p \in Pids : /\ pc'[p] = "sysstop" <=> pc[p] = "sysstop"
                        /\ pc[p] = "wait" => pc'[p] = "wait"
    BY <1>1
  <2> QED BY <1>2, <2>1 DEF Foreground, Running
<1>9. Childless'
  BY <1>2 DEF Childless
<1> QED BY <1>3, <1>4, <1>5, <1>6, <1>7, <1>8, <1>9

\* A line, and EOF.
LEMMA UserKeeps == ASSUME ShellInv, (\E line \in Lines : Type(line)) \/ TypeEOF PROVE ShellInv'
<1>1. ASSUME NEW line \in Lines, Type(line) PROVE ShellInv'
  BY <1>1, ReadsEnd_keeps DEF Type, ShellInv, ShellTypes
<1>2. CASE TypeEOF
  BY <1>2, ReadsEnd_keeps DEF TypeEOF
<1> QED BY <1>1, <1>2

-----------------------------------------------------------------------------
(* Login *)

\* Login begins a round: it opens the keyboard unless a sudo has it.
LEMMA login_open_keeps == ASSUME ShellInv, login_open PROVE ShellInv'
<1> USE PidFacts DEF ShellInv
<1>1. /\ prog[LOGIN] = "login" /\ pc[LOGIN] = "open" /\ LOGIN \notin reading /\ LOGIN \notin holders
      /\ UNCHANGED <<prog, child, reading, buf, bytes, arg, g_pid_to_kill, own, prev_echo>>
      /\ user_buf' = <<>> /\ pass_buf' = <<>> /\ typed' = <<>>
      /\ DOMAIN pc' = Pids /\ \A p \in Pids : pc'[p] = IF p = LOGIN THEN "user" ELSE pc[p]
  BY DEF login_open, At, Goto, memset, argVars, OneDevice, ShellTypes
<1>2. \/ /\ holders = {} /\ holders' = {LOGIN} /\ ~echo_device' /\ ~echo' /\ ~done'
         /\ disturbed' = (Running("sudo") \ {LOGIN} # {})
      \/ UNCHANGED <<holders, echo_device, echo, done, disturbed>>
  BY <1>1 DEF login_open, sysopen, OneDevice, ShellTypes
<1>3. \A p \in Pids : prog[p] # "shell"
  BY <1>1 DEF OneShell
<1>4. ShellTypes'
  <2>1. CASE UNCHANGED <<holders, echo_device, echo, done, disturbed>>
    BY <1>1, <2>1 DEF ShellTypes
  <2>2. CASE holders' = {LOGIN}
    BY <1>1, <1>2, <2>2 DEF ShellTypes, login_open, sysopen
  <2> QED BY <1>2, <2>1, <2>2
<1>5. OneLogin' /\ OneShell' /\ OneDevice' /\ ShellHasKeyboard'
  BY <1>1, <1>2, <1>3 DEF OneLogin, OneShell, OneDevice, ShellHasKeyboard, Running
<1>6. LoginBuffers'
  BY <1>1 DEF LoginBuffers, Filled, ShellNeedsPassword
<1>7. Readers' /\ Foreground'
  BY <1>1, <1>2, <1>3 DEF Readers, Foreground, Running, ShellTypes
<1>8. TwoSudos' /\ EchoOff' /\ EchoKept'
  <2>1. \A p \in Running("sudo") : p # LOGIN /\ pc'[p] = pc[p]
    BY <1>1 DEF Running
  <2>2. Running("sudo")' = Running("sudo")
    BY <1>1 DEF Running
  <2>3. TwoSudos'
    <3> SUFFICES ASSUME NEW p \in Running("sudo"), NEW q \in Running("sudo"), p # q
                 PROVE  disturbed'
      BY <2>2 DEF TwoSudos
    <3>1. p \in Running("sudo") \ {LOGIN}
      BY <2>1
    <3>2. disturbed
      BY DEF TwoSudos
    <3> QED BY <1>2, <3>1, <3>2
  <2>4. EchoOff'
    BY <1>1, <1>2, <2>1, <2>2 DEF EchoOff
  <2>5. EchoKept'
    BY <1>1, <1>2, <2>1, <2>2 DEF EchoKept, Disabled
  <2> QED BY <2>3, <2>4, <2>5
<1>9. Childless'
  BY <1>1 DEF Childless
<1> QED BY <1>4, <1>5, <1>6, <1>7, <1>8, <1>9

\* Login reads the name with the echo on, and the password with the echo off.
LEMMA login_read_keeps ==
    ASSUME ShellInv, login_read("user", TRUE) \/ login_read("pass", FALSE)
    PROVE  ShellInv'
<1> USE PidFacts DEF ShellInv
<1> DEFINE next == IF pc[LOGIN] = "user" THEN "pass" ELSE "check"
<1>1. /\ prog[LOGIN] = "login" /\ pc[LOGIN] \in {"user", "pass"} /\ LOGIN \notin reading
      /\ UNCHANGED <<prog, child, holders, echo_device, done, user_buf, pass_buf, buf, arg,
                     g_pid_to_kill, own, prev_echo, typed, disturbed>>
      /\ echo' = IF LOGIN \in holders THEN pc[LOGIN] = "user" ELSE echo
  BY DEF login_read, At, sysioctl, argVars
<1>2. \/ LOGIN \in holders /\ reading' = reading \cup {LOGIN} /\ UNCHANGED pc
      \/ UNCHANGED reading /\ pc' = [pc EXCEPT ![LOGIN] = next]
  BY DEF login_read, At, sysread, Goto, AfterRead
<1>3. DOMAIN pc' = Pids /\ \A p \in Pids \ {LOGIN} : pc'[p] = pc[p]
  BY <1>2 DEF ShellTypes
<1>4. \A p \in Pids : prog[p] # "shell"
  BY <1>1 DEF OneShell
<1>5. ShellTypes'
  BY <1>1, <1>2, <1>3 DEF ShellTypes
<1>6. pc'[LOGIN] = pc[LOGIN] \/ pc'[LOGIN] = next
  BY <1>2 DEF ShellTypes
<1>7. OneLogin' /\ OneShell' /\ OneDevice' /\ ShellHasKeyboard'
  BY <1>1, <1>3, <1>4, <1>6 DEF OneLogin, OneShell, OneDevice, ShellHasKeyboard, Running
<1>8. LoginBuffers'
  <2>1. pc[LOGIN] = "user" => typed = Got(user_buf) /\ pass_buf = <<>>
    BY DEF LoginBuffers, Got
  <2>2. pc[LOGIN] = "pass" => typed = Got(user_buf) \o Got(pass_buf)
    <3>1. Got(<<>>) = <<>>
      BY DEF Got
    <3> QED BY <3>1, GotSeq DEF LoginBuffers
  <2> QED BY <1>1, <1>6, <2>1, <2>2 DEF LoginBuffers, Filled, ShellNeedsPassword, Got
<1>9. Readers'
  <2>1. CASE LOGIN \in holders /\ reading' = reading \cup {LOGIN} /\ UNCHANGED pc
    BY <1>1, <2>1 DEF Readers
  <2>2. CASE UNCHANGED reading
    <3>1. \A p \in reading : pc'[p] = pc[p] /\ prog'[p] = prog[p]
      BY <1>1, <1>3 DEF ShellTypes
    <3> QED BY <1>1, <2>2, <3>1 DEF Readers
  <2> QED BY <1>2, <2>1, <2>2
<1>10. Foreground'
  BY <1>1, <1>3, <1>4 DEF Foreground, Running
<1>11. TwoSudos' /\ EchoOff' /\ EchoKept'
  <2>1. \A p \in Running("sudo") : p # LOGIN /\ pc'[p] = pc[p]
    BY <1>1, <1>3 DEF Running
  <2>2. Running("sudo")' = Running("sudo")
    BY <1>1 DEF Running
  <2>3. LOGIN \in holders => holders = {LOGIN}
    BY DEF OneDevice
  <2> QED BY <1>1, <1>2, <2>1, <2>2, <2>3 DEF TwoSudos, EchoOff, EchoKept, Disabled
<1>12. Childless'
  BY <1>1 DEF Childless
<1> QED BY <1>5, <1>7, <1>8, <1>9, <1>10, <1>11, <1>12

\* The right name and password are all that login was given.
LEMMA PasswordTyped ==
    ASSUME LoginBuffers, pc[LOGIN] = "check",
           filter_newline(user_buf) = valid_user, filter_newline(pass_buf) = valid_pass
    PROVE  typed = <<Append(valid_user, NEWLINE), Append(valid_pass, NEWLINE)>>
<1>1. valid_user # <<>> /\ valid_pass # <<>>
  BY DEF valid_user, valid_pass
<1>2. user_buf # <<>> /\ pass_buf # <<>>
  BY <1>1, FilterLine
<1>3. user_buf = Append(valid_user, NEWLINE) /\ pass_buf = Append(valid_pass, NEWLINE)
  BY <1>2, FilterLine DEF LoginBuffers, Filled
<1>4. typed = <<user_buf>> \o <<pass_buf>>
  BY <1>2 DEF LoginBuffers, Got
<1>5. <<user_buf>> \o <<pass_buf>> = <<user_buf, pass_buf>>
  <2>1. <<user_buf>> \in Seq({user_buf, pass_buf}) /\ <<pass_buf>> \in Seq({user_buf, pass_buf})
    OBVIOUS
  <2> DEFINE both == <<user_buf>> \o <<pass_buf>>
  <2>3. both \in Seq({user_buf, pass_buf}) /\ Len(both) = 2 /\ both[1] = user_buf /\ both[2] = pass_buf
    BY <2>1
  <2>4. both = <<both[1], both[2]>>
    <3> HIDE DEF both
    <3> QED BY <2>3
  <2> QED BY <2>3, <2>4
<1> QED BY <1>3, <1>4, <1>5

\* Login closes the keyboard and starts a shell, or another round.
LEMMA login_check_keeps == ASSUME ShellInv, login_check PROVE ShellInv'
<1> USE PidFacts DEF ShellInv
<1>1. /\ prog[LOGIN] = "login" /\ pc[LOGIN] = "check" /\ LOGIN \notin reading
      /\ UNCHANGED <<reading, echo_device, echo, done, user_buf, pass_buf, buf, arg, prev_echo, typed>>
      /\ holders' = holders \ {LOGIN}
  BY DEF login_check, At, closed, bufVars
<1>2. /\ \A p \in Pids : prog[p] # "shell"
      /\ holders' = holders \/ holders' = {}
      /\ \A p \in reading : p \in holders'
  BY <1>1 DEF OneShell, OneDevice, Readers
<1>3. CASE /\ UNCHANGED <<prog, own, disturbed>>
           /\ child' \in {child, [child EXCEPT ![LOGIN] = 0]}
           /\ \/ pc' = [pc EXCEPT ![LOGIN] = "open"]
              \/ pc' = [pc EXCEPT ![LOGIN] = "wait"] /\ ShellNeedsPassword'
  <2>1. /\ DOMAIN pc' = Pids /\ \A p \in Pids \ {LOGIN} : pc'[p] = pc[p]
        /\ pc'[LOGIN] \in {"open", "wait"}
        /\ DOMAIN child' = Pids /\ \A p \in Pids \ {LOGIN} : child'[p] = child[p]
    BY <1>3 DEF ShellTypes
  <2>2. ShellTypes'
    BY <1>1, <1>3, <2>1 DEF ShellTypes
  <2>3. OneLogin' /\ OneShell' /\ OneDevice' /\ ShellHasKeyboard'
    BY <1>1, <1>2, <1>3, <2>1 DEF OneLogin, OneShell, OneDevice, ShellHasKeyboard, Running
  <2>4. LoginBuffers'
    <3>1. pc'[LOGIN] = "wait" => ShellNeedsPassword'
      BY <1>3 DEF ShellTypes
    <3> QED BY <1>1, <2>1, <3>1 DEF LoginBuffers, Filled, ShellNeedsPassword
  <2>5. Readers'
    <3>1. \A p \in reading : pc'[p] = pc[p] /\ prog'[p] = prog[p]
      BY <1>1, <1>3, <2>1 DEF ShellTypes
    <3> QED BY <1>1, <1>2, <3>1 DEF Readers
  <2>7. Foreground'
    <3>1. \A p \in Pids : prog[p] \in {"ps", "a", "k"} => pc[p] = "sysstop"
      BY <1>2 DEF Foreground, Running
    <3> QED BY <1>1, <1>2, <1>3, <2>1, <3>1 DEF Foreground, Running
  <2>8. Childless'
    BY <1>1, <1>3, <2>1 DEF Childless
  <2>6. TwoSudos' /\ EchoOff' /\ EchoKept'
    <3>1. \A p \in Running("sudo") : p # LOGIN /\ pc'[p] = pc[p]
      BY <1>1, <2>1 DEF Running
    <3>2. Running("sudo")' = Running("sudo")
      BY <1>3 DEF Running
    <3> QED BY <1>1, <1>2, <1>3, <3>1, <3>2 DEF TwoSudos, EchoOff, EchoKept, Disabled
  <2> QED BY <2>2, <2>3, <2>4, <2>5, <2>6, <2>7, <2>8
<1>4. ASSUME NEW q \in Pids \ {LOGIN}, prog[q] = NONE, ShellNeedsPassword',
             prog' = [prog EXCEPT ![q] = "shell"],
             pc' = [pc EXCEPT ![LOGIN] = "wait", ![q] = "start"],
             child' = [child EXCEPT ![LOGIN] = q],
             own' = [own EXCEPT ![q] = ""],
             disturbed' = disturbed
      PROVE  ShellInv'
  <2>1. /\ \A r \in Pids : prog'[r] = IF r = q THEN "shell" ELSE prog[r]
        /\ \A r \in Pids : pc'[r] = IF r = q THEN "start" ELSE IF r = LOGIN THEN "wait" ELSE pc[r]
        /\ \A r \in Pids : child'[r] = IF r = LOGIN THEN q ELSE child[r]
        /\ \A r \in Pids \ {q} : own'[r] = own[r]
        /\ q \notin reading /\ DOMAIN pc' = Pids /\ DOMAIN child' = Pids /\ DOMAIN own' = Pids
        /\ prog[q] \notin {"login", "sudo"}
    BY <1>4 DEF ShellTypes, Readers, NONE
  <2>2. ShellTypes'
    BY <1>1, <1>4, <2>1 DEF ShellTypes, Programs
  <2>3. OneLogin' /\ OneShell'
    <3>1. \A r \in Pids : prog'[r] = "login" <=> r = LOGIN
      BY <1>1, <2>1 DEF OneLogin
    <3>2. pc'[LOGIN] = "wait" /\ child'[LOGIN] = q /\ \A r \in Pids : prog'[r] = "shell" => r = q
      BY <1>2, <2>1
    <3> QED BY <3>1, <3>2 DEF OneLogin, OneShell
  <2>4. OneDevice' /\ ShellHasKeyboard'
    <3>1. pc'[q] = "start" /\ \A r \in Pids : prog'[r] = "shell" => r = q
      BY <1>2, <2>1
    <3>2. LOGIN \notin holders' /\ (holders' # {} => echo_device')
      BY <1>1, <1>2 DEF OneDevice
    <3> QED BY <3>1, <3>2 DEF OneDevice, ShellHasKeyboard, Running
  <2>5. LoginBuffers'
    BY <1>1, <1>4, <2>1 DEF LoginBuffers, Filled, ShellNeedsPassword
  <2>6. Readers'
    <3>1. \A r \in reading : r # q /\ r # LOGIN /\ r \in Pids
      BY <1>1, <2>1 DEF ShellTypes
    <3> QED BY <1>1, <1>2, <2>1, <3>1 DEF Readers
  <2>7. Foreground'
    <3>1. Running("shell")' = {q}
      BY <1>2, <2>1 DEF Running
    <3>2. \A r \in Pids : prog[r] \in {"ps", "a", "k"} => pc[r] = "sysstop"
      BY <1>2 DEF Foreground, Running
    <3>3. child'[q] \notin Pids
      BY <1>4, <2>1 DEF Childless, NONE
    <3>4. \A r \in Pids : prog'[r] \in {"ps", "a", "k"} => pc'[r] = "sysstop"
      BY <1>1, <2>1, <3>2
    <3> QED BY <3>1, <3>3, <3>4 DEF Foreground
  <2>8. TwoSudos' /\ EchoOff' /\ EchoKept'
    <3>1. \A p \in Running("sudo") : p # LOGIN /\ pc'[p] = pc[p]
      BY <1>1, <2>1 DEF Running
    <3>2. Running("sudo")' = Running("sudo")
      BY <2>1 DEF Running
    <3> QED BY <1>1, <1>2, <1>4, <3>1, <3>2 DEF TwoSudos, EchoOff, EchoKept, Disabled
  <2>9. Childless'
    BY <1>1, <2>1 DEF Childless, NONE
  <2> QED BY <2>2, <2>3, <2>4, <2>5, <2>6, <2>7, <2>8, <2>9
<1>5. CASE ~(filter_newline(user_buf) = valid_user /\ filter_newline(pass_buf) = valid_pass)
  <2>1. pc' = [pc EXCEPT ![LOGIN] = "open"] /\ UNCHANGED <<prog, child, own, disturbed>>
    BY <1>5 DEF login_check, Goto
  <2> QED BY <1>3, <2>1
<1>6. CASE filter_newline(user_buf) = valid_user /\ filter_newline(pass_buf) = valid_pass
  <2>1. ShellNeedsPassword'
    BY <1>1, <1>6, PasswordTyped DEF ShellNeedsPassword
  <2>2. syscreate(LOGIN, "shell", "", "wait") /\ "shell" \in Programs /\ prog[LOGIN] # NONE
    BY <1>1, <1>6 DEF login_check, Programs, NONE
  <2>3. CASE /\ UNCHANGED <<prog, own, disturbed>>
             /\ pc' = [pc EXCEPT ![LOGIN] = "wait"] /\ child' = [child EXCEPT ![LOGIN] = 0]
    BY <1>3, <2>1, <2>3
  <2>4. CASE \E q \in Pids \ {LOGIN} :
                /\ prog[q] = NONE
                /\ prog' = [prog EXCEPT ![q] = "shell"]
                /\ pc' = [pc EXCEPT ![LOGIN] = "wait", ![q] = "start"]
                /\ child' = [child EXCEPT ![LOGIN] = IF "wait" = "wait" THEN q ELSE 0]
                /\ own' = [own EXCEPT ![q] = ""]
                /\ disturbed' = (disturbed \/ ("shell" = "sudo" /\ Running("sudo") # {}))
    <3>1. disturbed' = disturbed
      BY <2>4 DEF ShellTypes
    <3> QED BY <1>4, <2>1, <2>4, <3>1
  <2>5. LOGIN \in Pids /\ ShellTypes
    OBVIOUS
  <2>6. \/ /\ UNCHANGED <<prog, own, disturbed>>
           /\ pc' = [pc EXCEPT ![LOGIN] = "wait"] /\ child' = [child EXCEPT ![LOGIN] = 0]
        \/ \E q \in Pids \ {LOGIN} :
                /\ prog[q] = NONE
                /\ prog' = [prog EXCEPT ![q] = "shell"]
                /\ pc' = [pc EXCEPT ![LOGIN] = "wait", ![q] = "start"]
                /\ child' = [child EXCEPT ![LOGIN] = IF "wait" = "wait" THEN q ELSE 0]
                /\ own' = [own EXCEPT ![q] = ""]
                /\ disturbed' = (disturbed \/ ("shell" = "sudo" /\ Running("sudo") # {}))
    BY <2>2, <2>5, Created, Zenon
  <2> QED BY <2>3, <2>4, <2>6
<1> QED BY <1>5, <1>6

\* The next round begins when the shell is gone.
LEMMA login_wait_keeps == ASSUME ShellInv, login_wait PROVE ShellInv'
<1> USE PidFacts DEF ShellInv
<1>1. /\ prog[LOGIN] = "login" /\ pc[LOGIN] = "wait" /\ LOGIN \notin reading
      /\ UNCHANGED <<prog, reading, holders, echo_device, echo, done, user_buf, pass_buf, buf, arg,
                     own, prev_echo, typed, disturbed>>
      /\ pc' = [pc EXCEPT ![LOGIN] = "open"] /\ child' = [child EXCEPT ![LOGIN] = 0]
      /\ child[LOGIN] \in Pids => prog[child[LOGIN]] = NONE
  BY DEF login_wait, At, Goto, syswait, kbdVars, bufVars, argVars
<1>2. /\ DOMAIN pc' = Pids /\ DOMAIN child' = Pids /\ pc'[LOGIN] = "open" /\ child'[LOGIN] = 0
      /\ \A p \in Pids \ {LOGIN} : pc'[p] = pc[p] /\ child'[p] = child[p]
  BY <1>1 DEF ShellTypes
<1>3. \A p \in Pids : prog[p] # "shell"
  BY <1>1 DEF OneShell, NONE
<1>4. ShellTypes'
  BY <1>1, <1>2 DEF ShellTypes
<1>5. OneLogin' /\ OneShell' /\ OneDevice' /\ ShellHasKeyboard'
  BY <1>1, <1>2, <1>3 DEF OneLogin, OneShell, OneDevice, ShellHasKeyboard, Running
<1>6. LoginBuffers'
  BY <1>1, <1>2 DEF LoginBuffers, Filled, ShellNeedsPassword
<1>7. Readers'
  BY <1>1, <1>2 DEF Readers, ShellTypes
<1>8. Foreground'
  BY <1>1, <1>2, <1>3 DEF Foreground, Running
<1>9. TwoSudos' /\ EchoOff' /\ EchoKept'
  <2>1. \A p \in Running("sudo") : p # LOGIN /\ pc'[p] = pc[p]
    BY <1>1, <1>2 DEF Running
  <2>2. Running("sudo")' = Running("sudo")
    BY <1>1 DEF Running
  <2> QED BY <1>1, <1>2, <2>1, <2>2 DEF TwoSudos, EchoOff, EchoKept, Disabled
<1>10. Childless'
  BY <1>1, <1>2 DEF Childless
<1> QED BY <1>4, <1>5, <1>6, <1>7, <1>8, <1>9, <1>10

-----------------------------------------------------------------------------
(* The theorems *)

\* Initially login is alone.
LEMMA InitShellInv == Init => ShellInv
<1> SUFFICES ASSUME Init PROVE ShellInv
  OBVIOUS
<1> USE PidFacts DEF Init
<1>1. ShellTypes /\ Childless
  BY DEF ShellTypes, Childless, Programs, NONE
<1>2. OneLogin /\ Readers /\ OneDevice /\ OneShell
  BY DEF OneLogin, Readers, OneDevice, OneShell, NONE
<1>3. LoginBuffers
  BY DEF LoginBuffers, Filled, ShellNeedsPassword
<1>4. ShellHasKeyboard /\ TwoSudos /\ EchoOff /\ EchoKept /\ Foreground
  BY DEF ShellHasKeyboard, TwoSudos, EchoOff, EchoKept, Foreground, Running, NONE
<1> QED BY <1>1, <1>2, <1>3, <1>4 DEF ShellInv

\* Every step keeps the invariant.
LEMMA NextShellInv == ShellInv /\ [Next]_shellVars => ShellInv'
<1> SUFFICES ASSUME ShellInv, [Next]_shellVars PROVE ShellInv'
  OBVIOUS
<1>1. CASE Login
  BY <1>1, login_open_keeps, login_read_keeps, login_check_keeps, login_wait_keeps DEF Login
<1>2. ASSUME NEW p \in Pids, Process(p) PROVE ShellInv'
  <2>1. CASE setup_kill_handler(p) \/ sysstop(p) \/ shell_exit(p)
    BY <2>1, setup_kill_handler_keeps, sysstop_keeps, shell_exit_keeps
  <2>2. CASE shell_open(p) \/ shell_prompt(p) \/ shell_got(p) \/ shell_wait(p)
    BY <2>2, shell_open_keeps, shell_prompt_keeps, shell_got_keeps, shell_wait_keeps
  <2>3. CASE command_t(p) \/ command_ps(p) \/ command_k(p) \/ command_a(p)
    BY <2>3, command_t_keeps, command_ps_keeps, command_k_keeps, command_a_keeps
  <2>4. CASE sudo_open(p) \/ sudo_get_echo(p) \/ sudo_disable(p)
    BY <2>4, sudo_open_keeps, sudo_get_echo_keeps, sudo_disable_keeps
  <2>5. CASE sudo_read(p) \/ sudo_check(p) \/ sudo_restore(p)
    BY <2>5, sudo_read_keeps, sudo_check_keeps, sudo_restore_keeps
  <2> QED BY <1>2, <2>1, <2>2, <2>3, <2>4, <2>5 DEF Process
<1>3. CASE (\E line \in Lines : Type(line)) \/ TypeEOF
  BY <1>3, UserKeeps
<1>4. CASE UNCHANGED shellVars
  <2> USE <1>4 DEF shellVars, procVars, kbdVars, bufVars, argVars
  <2>1. ShellTypes' /\ Childless' /\ OneLogin' /\ Readers' /\ OneDevice' /\ OneShell'
    BY DEF ShellInv, ShellTypes, Childless, OneLogin, Readers, OneDevice, OneShell
  <2>2. LoginBuffers' /\ ShellHasKeyboard'
    BY DEF ShellInv, LoginBuffers, Filled, ShellNeedsPassword, ShellHasKeyboard, Running
  <2>3. TwoSudos' /\ EchoOff' /\ EchoKept' /\ Foreground'
    BY DEF ShellInv, TwoSudos, EchoOff, EchoKept, Foreground, Running
  <2> QED BY <2>1, <2>2, <2>3 DEF ShellInv
<1> QED BY <1>1, <1>2, <1>3, <1>4 DEF Next

\* The inductive invariant of login, the shell and its commands.
THEOREM ProgramsInOrder == Spec => []ShellInv
BY InitShellInv, NextShellInv, PTL DEF Spec

\* Without the name and the password there is no shell (login_proc).
THEOREM NoShellWithoutPassword == Spec => []ShellNeedsPassword
<1>1. ShellInv => ShellNeedsPassword
  BY DEF ShellInv, LoginBuffers
<1> QED BY <1>1, ProgramsInOrder, PTL

\* The shell's unchecked sysopen never fails.
THEOREM ShellCanRead == Spec => []ShellHasKeyboard
<1>1. ShellInv => ShellHasKeyboard
  BY DEF ShellInv
<1> QED BY <1>1, ProgramsInOrder, PTL

\* No password is echoed, but for sudos that disturb each other.
THEOREM PasswordsStayHidden == Spec => []PasswordHidden
<1>1. ShellInv => PasswordHidden
  <2> SUFFICES ASSUME ShellInv PROVE PasswordHidden
    OBVIOUS
  <2>1. \A p \in Running("sudo") \cap reading : p \in holders /\ pc[p] = "read"
    BY DEF ShellInv, Readers, Running
  <2> QED BY <2>1 DEF ShellInv, EchoOff, PasswordHidden
<1> QED BY <1>1, ProgramsInOrder, PTL

\* The echo is back when all sudos are over.
THEOREM EchoIsRestored == Spec => []EchoComesBack
<1>1. ShellInv => EchoComesBack
  <2> SUFFICES ASSUME ShellInv, NEW p \in Running("shell") \cap reading,
                      Running("sudo") = {}, ~echo
               PROVE  disturbed
    BY DEF EchoComesBack
  <2>1. p \in holders /\ p # LOGIN
    BY DEF ShellInv, Readers, OneLogin, Running
  <2>2. LOGIN \notin holders
    BY <2>1 DEF ShellInv, OneDevice
  <2> QED BY <2>1, <2>2 DEF ShellInv, EchoKept
<1> QED BY <1>1, ProgramsInOrder, PTL

\* Commands that the shell waits for find their own argument in g_arg.
THEOREM ArgumentsStay == Spec => []ArgumentKept
<1>1. ShellInv => ArgumentKept
  <2> SUFFICES ASSUME ShellInv, NEW p \in Pids, ReadsArgument(p), ~InBackground(p)
               PROVE  arg = own[p]
    BY DEF ArgumentKept
  <2>1. prog[p] \in {"a", "sudo"} /\ pc[p] # "sysstop"
    BY DEF ReadsArgument, At
  <2>2. \E s \in Running("shell") : child[s] = p
    BY <2>1 DEF InBackground, ShellInv, Foreground
  <2> QED BY <2>1, <2>2 DEF ShellInv, Foreground
<1> QED BY <1>1, ProgramsInOrder, PTL
=============================================================================
