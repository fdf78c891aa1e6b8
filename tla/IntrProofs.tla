------------------------------- MODULE IntrProofs -------------------------------
(***************************************************************************)
(* Proofs about interrupts, for any number of processes: what makes a      *)
(* handler of the dispatcher one step, that the clock always gets through, *)
(* and that no entry or signal handler loses the context under it.         *)
(***************************************************************************)
EXTENDS Intr, FiniteSetTheorems, SequenceTheorems, TLAPS

USE DEF TIMER_IRQ, KEYBOARD_IRQ, OTHER_IRQ, IRQs, Entries

Steps == {"initevec", "init8259", "ctsw_init_evec", "dispinit", "initPIT", "dispatch", "up"}

\* A context is one of user code, or of an entry point before its cli; that of
\* the clock is never interrupted.  Interrupts are armed in all of them.
Contexts == [at : {"user", "syscall", "keyboard"}, iflag : {TRUE}]

IntrTypes ==
    /\ boot \in Steps
    /\ DOMAIN idt = Entries \cup {"other"}
    /\ imr \subseteq IRQs /\ irr \subseteq IRQs /\ isr \subseteq IRQs
    /\ cpu \in {"user", "common", "kernel", "trap"} \cup Entries
    /\ currproc \in Procs /\ live \subseteq Users /\ lost \in BOOLEAN

\* Interrupts are armed exactly in user code and at an entry point, where a
\* trap gate leaves them so.
Flags ==
    /\ kflags = FALSE
    /\ iflag \in BOOLEAN
    /\ iflag <=> cpu \in {"user"} \cup Entries
    /\ reason \in Entries \cup {"boot", "run", "none"}
    /\ cpu = "common" => reason \in Entries

\* How far start-up has come tells what it has set up.
BootOrder ==
    /\ reason = "boot" <=> boot # "up"
    /\ boot # "up" =>
         /\ cpu = "kernel" /\ live = {} /\ isr = {} /\ ~lost /\ currproc = Idle
         /\ \A p \in Procs : depth[p] = 0
    /\ boot \in {"dispinit", "initPIT", "dispatch", "up"} => \A e \in Entries : idt[e] = "entry"
    /\ boot \in Steps \ {"initevec", "init8259"} => OTHER_IRQ \in imr
    /\ boot \in {"dispatch", "up"} /\ cpu # "trap" => TIMER_IRQ \notin imr
    /\ boot \in {"initPIT", "dispatch"} => stack[Idle] # <<>>

\* The entry that is being handled, from its interrupt on.
InHand(entry) == cpu = entry \/ (cpu \in {"common", "kernel"} /\ reason = entry)

ClockInService ==
    /\ OTHER_IRQ \notin isr
    /\ TIMER_IRQ \in isr <=> InHand("timer")

\* The contexts on a stack: user code under everything, again under what a
\* signal handler was interrupted by, and an entry of a system call only right
\* above user code.
Nested(s, d) ==
    /\ d <= Len(s)
    /\ \A i \in 1..Len(s) :
         /\ s[i].at = "user" <=> i \in {1, d + 1}
         /\ s[i].at = "syscall" => i \in {2, d + 2}

Stacks ==
    /\ stack \in [Procs -> Seq(Contexts)] /\ depth \in [Procs -> Nat]
    /\ \A p \in Procs : Nested(stack[p], depth[p])
    /\ \A p \in Users \ live : stack[p] = <<>> /\ depth[p] = 0
    /\ depth[Idle] = 0
    /\ \A i \in 1..Len(stack[Idle]) : stack[Idle][i].at # "syscall"

\* Every process that does not run has something to go on with above the
\* contexts that its signal handler will return to.
Waiting ==
    /\ boot = "up" => /\ currproc \in live \cup {Idle}
                      /\ \A p \in live \cup {Idle} :
                            Len(stack[p]) > depth[p] \/ (cpu = "user" /\ p = currproc)
    /\ cpu = "user" => Len(stack[currproc]) = depth[currproc]
    /\ InHand("syscall") => currproc \in live /\ Len(stack[currproc]) = depth[currproc] + 1

\* A keyboard entry waits on a stack.
KeyAt(p, i) == i \in 1..Len(stack[p]) /\ stack[p][i].at = "keyboard"
KeyWaits    == \E p \in Procs : \E i \in Nat : KeyAt(p, i)
Keys ==
    /\ \A p, q \in Procs : \A i, j \in Nat : KeyAt(p, i) /\ KeyAt(q, j) => p = q /\ i = j
    /\ KeyWaits => ~InHand("keyboard") /\ ~lost
    /\ InHand("keyboard") => ~lost
    /\ KEYBOARD_IRQ \in isr <=> (KeyWaits \/ InHand("keyboard") \/ lost)

IntrInv == IntrTypes /\ Flags /\ BootOrder /\ ClockInService /\ Stacks /\ Waiting /\ Keys

-----------------------------------------------------------------------------
(* Lemmas about stacks *)

\* The first d elements of a sequence.
LEMMA CutFacts ==
    ASSUME NEW S, NEW s \in Seq(S), NEW d \in 0..Len(s)
    PROVE  /\ SubSeq(s, 1, d) \in Seq(S) /\ Len(SubSeq(s, 1, d)) = d
           /\ \A i \in 1..d : SubSeq(s, 1, d)[i] = s[i]
BY SubSeqProperties

\* What is on top of a stack and what is under it.
LEMMA PopFacts ==
    ASSUME NEW S, NEW s \in Seq(S), Len(s) > 0
    PROVE  /\ Front(s) \in Seq(S) /\ Len(Front(s)) = Len(s) - 1
           /\ \A i \in 1..(Len(s) - 1) : Front(s)[i] = s[i]
           /\ Last(s) = s[Len(s)] /\ Last(s) \in S
<1>1. Len(s) \in Nat /\ Len(s) - 1 \in 0..Len(s)
  OBVIOUS
<1>2. Last(s) = s[Len(s)] /\ Last(s) \in S
  BY <1>1 DEF Last
<1> QED BY <1>1, <1>2, CutFacts DEF Front

\* What a frame pushed on a stack leaves of the stack.
LEMMA PushFacts ==
    ASSUME NEW S, NEW s \in Seq(S), NEW c \in S
    PROVE  /\ Append(s, c) \in Seq(S) /\ Len(Append(s, c)) = Len(s) + 1
           /\ \A i \in 1..Len(s) : Append(s, c)[i] = s[i]
           /\ Append(s, c)[Len(s) + 1] = c
OBVIOUS

\* A context saved on a stack: of user code, when nothing is above what the
\* signal handler will return to; of an entry, when something is.
LEMMA PushNested ==
    ASSUME NEW s \in Seq(Contexts), NEW d \in Nat, Nested(s, d), NEW c \in Contexts,
           c.at = "user" <=> Len(s) = d, c.at = "syscall" => Len(s) = d + 1
    PROVE  Nested(Append(s, c), d)
BY PushFacts DEF Nested

\* The stack under the context on top, which tells where the process goes on.
LEMMA PopNested ==
    ASSUME NEW s \in Seq(Contexts), NEW d \in Nat, Nested(s, d), Len(s) > d
    PROVE  /\ Nested(Front(s), d)
           /\ Last(s).at = "user" <=> Len(Front(s)) = d
           /\ Last(s).at = "syscall" => Len(Front(s)) = d + 1
<1> DEFINE f == Front(s)
           n == Len(s)
<1>1. /\ n \in Nat /\ n > d /\ Len(f) = n - 1 /\ Last(s) = s[n]
      /\ \A i \in 1..(n - 1) : f[i] = s[i]
  BY PopFacts
<1>2. /\ d <= n
      /\ \A i \in 1..n : /\ s[i].at = "user" <=> (i = 1 \/ i = d + 1)
                         /\ s[i].at = "syscall" => (i = 2 \/ i = d + 2)
  BY DEF Nested
<1> HIDE DEF f, n
<1>3. s[n].at = "user" <=> n = d + 1
  BY <1>1, <1>2
<1>4. s[n].at = "syscall" => n = d + 2
  BY <1>1, <1>2, <1>3
<1>5. Nested(f, d)
  BY <1>1, <1>2 DEF Nested
<1> QED BY <1>1, <1>3, <1>4, <1>5 DEF f

\* A signal handler is put above the whole stack.
LEMMA DeliverNested ==
    ASSUME NEW s \in Seq(Contexts), Nested(s, 0)
    PROVE  Nested(s, Len(s))
BY DEF Nested

\* Its return cuts the stack to what it was.
LEMMA CutNested ==
    ASSUME NEW s \in Seq(Contexts), NEW d \in Nat, Nested(s, d), d > 0
    PROVE  Nested(SubSeq(s, 1, d), 0) /\ Len(SubSeq(s, 1, d)) = d
<1>1. d \in 0..Len(s)
  BY DEF Nested
<1>2. /\ Len(SubSeq(s, 1, d)) = d /\ Len(s) \in Nat
      /\ \A i \in 1..d : SubSeq(s, 1, d)[i] = s[i]
  BY <1>1, CutFacts
<1> QED BY <1>1, <1>2 DEF Nested

-----------------------------------------------------------------------------
(* Start-up, flags, masks and the clock *)

\* What an EOI leaves in service.
LEMMA EndOfIntr ==
    ASSUME isr \subseteq {TIMER_IRQ, KEYBOARD_IRQ}
    PROVE  end_of_intr = IF TIMER_IRQ \in isr THEN isr \ {TIMER_IRQ} ELSE {}
<1>1. ASSUME NEW x \in isr, \A y \in isr : x <= y PROVE Min(isr) = x
  <2>1. Min(isr) \in isr /\ \A y \in isr : Min(isr) <= y
    <3>1. \E m \in isr : \A y \in isr : m <= y
      BY <1>1
    <3> QED BY <3>1 DEF Min
  <2>2. x \in {0, 1} /\ Min(isr) \in {0, 1}
    BY <2>1
  <2> QED BY <1>1, <2>1, <2>2
<1>2. CASE TIMER_IRQ \in isr
  <2>1. Min(isr) = TIMER_IRQ
    BY <1>1, <1>2
  <2> QED BY <1>2, <2>1 DEF end_of_intr
<1>3. CASE isr = {KEYBOARD_IRQ}
  <2>1. Min(isr) = KEYBOARD_IRQ
    BY <1>1, <1>3
  <2> QED BY <1>3, <2>1 DEF end_of_intr
<1>4. CASE isr = {}
  BY <1>4 DEF end_of_intr
<1> QED BY <1>2, <1>3, <1>4

\* What an interrupt finds: start-up is over, the CPU is in user code or at an
\* entry other than the clock's, and the line is one that has an entry.
LEMMA Interrupted ==
    ASSUME IntrInv, NEW irq \in IRQs, Interrupt(irq)
    PROVE  /\ boot = "up" /\ cpu \in {"user", "syscall", "keyboard"} /\ iflag = TRUE
           /\ irq \in {TIMER_IRQ, KEYBOARD_IRQ} /\ cpu' = EntryOf(irq)
           /\ EntryOf(TIMER_IRQ) = "timer" /\ EntryOf(KEYBOARD_IRQ) = "keyboard"
           /\ TIMER_IRQ \notin isr /\ irq \notin isr
<1>1. iflag = TRUE /\ cpu \in {"user"} \cup Entries /\ boot = "up"
  BY DEF Interrupt, IntrInv, Flags, BootOrder
<1>2. TIMER_IRQ \notin isr /\ irq \notin isr
  BY DEF Interrupt, IntrInv, IntrTypes
<1>3. cpu # "timer"
  BY <1>2 DEF IntrInv, ClockInService, InHand
<1>4. irq \in {TIMER_IRQ, KEYBOARD_IRQ}
  BY <1>1 DEF Interrupt, IntrInv, BootOrder, Steps
<1>5. EntryOf(TIMER_IRQ) = "timer" /\ EntryOf(KEYBOARD_IRQ) = "keyboard"
  BY DEF EntryOf
<1>6. cpu' = EntryOf(irq)
  BY <1>1, <1>4, <1>5 DEF Interrupt, IntrInv, BootOrder
<1> QED BY <1>1, <1>2, <1>3, <1>4, <1>5, <1>6

\* What the switch finds on the stack of the process it runs.
LEMMA Switched ==
    ASSUME IntrInv, cpu = "kernel", reason = "run"
    PROVE  /\ boot = "up" /\ currproc \in live \cup {Idle} /\ currproc \in Procs
           /\ stack[currproc] \in Seq(Contexts) /\ depth[currproc] \in Nat
           /\ Len(stack[currproc]) > depth[currproc] /\ Len(stack[currproc]) > 0
           /\ Last(stack[currproc]) \in Contexts
<1>1. boot = "up" /\ currproc \in Procs
  BY DEF IntrInv, BootOrder, IntrTypes
<1>2. currproc \in live \cup {Idle} /\ Len(stack[currproc]) > depth[currproc]
  BY <1>1 DEF IntrInv, Waiting
<1>3. stack[currproc] \in Seq(Contexts) /\ depth[currproc] \in Nat
  BY <1>1 DEF IntrInv, Stacks
<1>4. Len(stack[currproc]) > 0
  BY <1>2, <1>3
<1> QED BY <1>1, <1>2, <1>3, <1>4, PopFacts

Control == IntrTypes /\ Flags /\ BootOrder /\ ClockInService

\* Nothing but start-up, an interrupt, an EOI and the masks touches the rest
\* of what Control says.
LEMMA HandlerControl ==
    ASSUME IntrInv, NEW why \in Entries, Handling(why),
           imr' \in {imr, imr \cup {KEYBOARD_IRQ}, imr \ {KEYBOARD_IRQ}},
           currproc' \in Procs, live' \subseteq Users, lost' \in BOOLEAN,
           isr' = IF why = "syscall" THEN isr ELSE end_of_intr
    PROVE  Control'
<1>1. /\ cpu = "kernel" /\ reason = why /\ reason' = "run"
      /\ UNCHANGED <<boot, idt, irr, iflag, kflags, cpu>>
  BY DEF Handling
<1>2. boot = "up"
  BY <1>1 DEF IntrInv, BootOrder
<1>3. isr' \subseteq IRQs /\ ClockInService'
  <2>1. isr \subseteq {TIMER_IRQ, KEYBOARD_IRQ} /\ (TIMER_IRQ \in isr <=> why = "timer")
    BY <1>1 DEF IntrInv, ClockInService, IntrTypes, InHand
  <2> QED BY <1>1, <2>1, EndOfIntr DEF ClockInService, InHand
<1>4. IntrTypes'
  BY <1>1, <1>3 DEF IntrInv, IntrTypes
<1>5. Flags'
  BY <1>1 DEF IntrInv, Flags
<1>6. BootOrder'
  BY <1>1, <1>2 DEF IntrInv, BootOrder, Steps
<1> QED BY <1>3, <1>4, <1>5, <1>6 DEF Control

\* Every step keeps the control state of the processor right.
LEMMA NextControl == ASSUME IntrInv, Next PROVE Control'
<1> USE DEF IntrInv, Steps
<1>a. ASSUME NEW step, NEW next, Booting(step, next) PROVE reason = "boot" /\ boot = step /\ boot # "up"
  BY <1>a DEF Booting, BootOrder
<1>1. CASE initevec
  <2>1. /\ boot = "initevec" /\ boot' = "init8259" /\ DOMAIN idt' = DOMAIN idt
        /\ UNCHANGED <<iflag, kflags, cpu, picVars, reason, procVars>>
    BY <1>1 DEF initevec, Booting
  <2> QED BY <2>1 DEF Control, IntrTypes, Flags, BootOrder, ClockInService, InHand, picVars, procVars
<1>2. CASE init8259
  <2>1. /\ boot = "init8259" /\ boot' = "ctsw_init_evec" /\ imr' = IRQs /\ irr' = {} /\ isr' = {}
        /\ reason = "boot" /\ UNCHANGED <<iflag, kflags, cpu, idt, reason, procVars>>
    BY <1>2 DEF init8259, Booting
  <2> QED BY <2>1 DEF Control, IntrTypes, Flags, BootOrder, ClockInService, InHand, procVars
<1>3. CASE ctsw_init_evec
  <2>1. /\ boot = "ctsw_init_evec" /\ boot' = "dispinit" /\ DOMAIN idt' = DOMAIN idt
        /\ \A e \in Entries : idt'[e] = "entry"
        /\ UNCHANGED <<iflag, kflags, cpu, picVars, reason, procVars>>
    BY <1>3 DEF ctsw_init_evec, Booting, IntrTypes
  <2> QED BY <2>1 DEF Control, IntrTypes, Flags, BootOrder, ClockInService, InHand, picVars, procVars
<1>4. CASE init_idle_proc
  <2>1. /\ boot = "dispinit" /\ boot' = "initPIT" /\ stack'[Idle] # <<>>
        /\ UNCHANGED <<iflag, kflags, cpu, idt, picVars, reason, currproc, depth, live, lost>>
    BY <1>4 DEF init_idle_proc, Booting, Stacks, Procs
  <2> QED BY <2>1 DEF Control, IntrTypes, Flags, BootOrder, ClockInService, InHand, picVars
<1>5. CASE initPIT
  <2>1. /\ boot = "initPIT" /\ boot' = "dispatch" /\ imr' = imr \ {TIMER_IRQ}
        /\ UNCHANGED <<iflag, kflags, cpu, irr, isr, idt, reason, procVars>>
    BY <1>5 DEF initPIT, Booting, enable_irq
  <2> QED BY <2>1 DEF Control, IntrTypes, Flags, BootOrder, ClockInService, InHand, procVars
<1>6. CASE dispatch
  <2>1. /\ boot = "dispatch" /\ boot' = "up" /\ reason = "boot" /\ reason' = "run" /\ cpu = "kernel"
        /\ live' \subseteq Users /\ currproc' \in Procs
        /\ UNCHANGED <<iflag, kflags, cpu, picVars, idt, depth, lost>>
    BY <1>6 DEF dispatch, Booting, BootOrder, Procs
  <2> QED BY <2>1 DEF Control, IntrTypes, Flags, BootOrder, ClockInService, InHand, picVars
<1>7. CASE \E irq \in IRQs : Request(irq)
  <2>1. irr' \subseteq IRQs /\ UNCHANGED <<boot, idt, imr, isr, iflag, kflags, cpu, reason, procVars>>
    BY <1>7 DEF Request, IntrTypes
  <2> QED BY <2>1 DEF Control, IntrTypes, Flags, BootOrder, ClockInService, InHand, procVars
<1>8. ASSUME NEW irq \in IRQs, Interrupt(irq) PROVE Control'
  <2>1. /\ boot = "up" /\ cpu \in {"user", "syscall", "keyboard"} /\ iflag = TRUE
        /\ irq \in {TIMER_IRQ, KEYBOARD_IRQ} /\ cpu' = EntryOf(irq)
        /\ EntryOf(TIMER_IRQ) = "timer" /\ EntryOf(KEYBOARD_IRQ) = "keyboard"
        /\ TIMER_IRQ \notin isr
    BY <1>8, Interrupted
  <2>2. /\ irr' = irr \ {irq} /\ isr' = isr \cup {irq}
        /\ UNCHANGED <<boot, idt, imr, iflag, kflags, reason, currproc, depth, live, lost>>
    BY <1>8 DEF Interrupt
  <2>3. ClockInService'
    BY <2>1, <2>2 DEF ClockInService, InHand
  <2> QED BY <2>1, <2>2, <2>3 DEF Control, IntrTypes, Flags, BootOrder
<1>9. CASE syscall
  <2>1. /\ cpu = "user" /\ cpu' = "syscall"
        /\ UNCHANGED <<boot, idt, picVars, iflag, kflags, reason, currproc, depth, live, lost>>
    BY <1>9 DEF syscall
  <2> QED BY <2>1 DEF Control, IntrTypes, Flags, BootOrder, ClockInService, InHand, picVars
<1>10. CASE entry_point
  <2>1. /\ cpu \in Entries /\ cpu' = "common" /\ reason' = cpu /\ iflag' = FALSE
        /\ UNCHANGED <<boot, idt, picVars, kflags, procVars>>
    BY <1>10 DEF entry_point, cli
  <2>2. boot = "up"
    BY <2>1 DEF BootOrder
  <2> QED BY <2>1, <2>2 DEF Control, IntrTypes, Flags, BootOrder, ClockInService, InHand, picVars, procVars
<1>11. CASE common_entry_point
  <2>1. /\ cpu = "common" /\ cpu' = "kernel" /\ iflag' = kflags
        /\ UNCHANGED <<boot, idt, picVars, kflags, reason, procVars>>
    BY <1>11 DEF common_entry_point
  <2> QED BY <2>1 DEF Control, IntrTypes, Flags, BootOrder, ClockInService, InHand, picVars, procVars
<1>12. CASE ctsw_contextswitch
  <2>1. /\ cpu = "kernel" /\ reason = "run" /\ reason' = "none" /\ kflags' = iflag
        /\ UNCHANGED <<boot, idt, picVars, currproc, live, lost>>
        /\ \/ cpu' = "user" /\ iflag' = TRUE
           \/ cpu' = Last(stack[currproc]).at /\ iflag' = Last(stack[currproc]).iflag
    BY <1>12 DEF ctsw_contextswitch, setup_context_frame
  <2>2. boot = "up" /\ cpu' \in {"user", "syscall", "keyboard"} /\ iflag' = TRUE
    BY <2>1, Switched DEF Contexts
  <2> QED BY <2>1, <2>2 DEF Control, IntrTypes, Flags, BootOrder, ClockInService, InHand, picVars
<1>13. CASE timer_handler
  BY <1>13, HandlerControl DEF timer_handler, Switch, IntrTypes, Procs
<1>14. CASE keyboard_handler
  BY <1>14, HandlerControl DEF keyboard_handler, enable_irq, procVars, IntrTypes
<1>15. CASE setEnabledKbd
  BY <1>15, HandlerControl DEF setEnabledKbd, enable_irq, procVars, IntrTypes
<1>16. CASE dispatch_syscall_other
  BY <1>16, HandlerControl DEF dispatch_syscall_other, Switch, IntrTypes, Procs
<1>17. CASE create
  <2>1. Handling("syscall") /\ live' \subseteq Users /\ UNCHANGED <<imr, isr, currproc, lost>>
    BY <1>17 DEF create, IntrTypes
  <2> QED BY <2>1, HandlerControl DEF IntrTypes
<1>18. CASE dispatch_syscall_sigreturn
  BY <1>18, HandlerControl DEF dispatch_syscall_sigreturn, IntrTypes
<1>19. CASE cleanup_proc
  <2>1. Handling("syscall") /\ live' \subseteq Users /\ lost' \in BOOLEAN /\ UNCHANGED <<imr, isr>>
        /\ currproc' \in Procs
    BY <1>19 DEF cleanup_proc, Switch, IntrTypes, Procs
  <2> QED BY <2>1, HandlerControl DEF IntrTypes
<1>20. CASE trap
  <2>1. /\ cpu = "user" /\ cpu' = "trap" /\ iflag' = FALSE /\ imr' = IRQs
        /\ UNCHANGED <<boot, idt, irr, isr, kflags, reason, currproc, depth, live, lost>>
    BY <1>20 DEF trap
  <2>2. boot = "up"
    BY <2>1 DEF BootOrder
  <2> QED BY <2>1, <2>2 DEF Control, IntrTypes, Flags, BootOrder, ClockInService, InHand
<1> QED BY <1>1, <1>2, <1>3, <1>4, <1>5, <1>6, <1>7, <1>8, <1>9, <1>10, <1>11, <1>12, <1>13,
           <1>14, <1>15, <1>16, <1>17, <1>18, <1>19, <1>20 DEF Next

-----------------------------------------------------------------------------
(* The stacks *)

\* A step that changes the stack of one process at most.
LEMMA ChangeStack ==
    ASSUME IntrInv, NEW p \in Procs, NEW s \in Seq(Contexts), NEW d \in Nat, Nested(s, d),
           stack' = [stack EXCEPT ![p] = s], depth' = [depth EXCEPT ![p] = d],
           p = Idle => d = 0 /\ \A i \in 1..Len(s) : s[i].at # "syscall",
           p \in Users \ live' => s = <<>> /\ d = 0,
           Users \ live' \subseteq (Users \ live) \cup {p}
    PROVE  /\ Stacks' /\ stack'[p] = s /\ depth'[p] = d
           /\ \A q \in Procs \ {p} : stack'[q] = stack[q] /\ depth'[q] = depth[q]
<1>1. /\ stack \in [Procs -> Seq(Contexts)] /\ depth \in [Procs -> Nat]
      /\ \A q \in Procs : Nested(stack[q], depth[q])
      /\ \A q \in Users \ live : stack[q] = <<>> /\ depth[q] = 0
      /\ depth[Idle] = 0
      /\ \A i \in 1..Len(stack[Idle]) : stack[Idle][i].at # "syscall"
  BY DEF IntrInv, Stacks
<1>2. /\ stack'[p] = s /\ depth'[p] = d
      /\ \A q \in Procs \ {p} : stack'[q] = stack[q] /\ depth'[q] = depth[q]
      /\ stack' \in [Procs -> Seq(Contexts)] /\ depth' \in [Procs -> Nat]
  BY <1>1
<1>3. \A q \in Procs : Nested(stack'[q], depth'[q])
  BY <1>1, <1>2
<1>4. \A q \in Users \ live' : stack'[q] = <<>> /\ depth'[q] = 0
  BY <1>1, <1>2 DEF Procs
<1>5. depth'[Idle] = 0 /\ \A i \in 1..Len(stack'[Idle]) : stack'[Idle][i].at # "syscall"
  <2>1. CASE p = Idle
    BY <1>2, <2>1
  <2>2. CASE p # Idle
    BY <1>1, <1>2, <2>2 DEF Procs
  <2> QED BY <2>1, <2>2
<1> QED BY <1>2, <1>3, <1>4, <1>5 DEF Stacks

\* A process that lives on, or begins to, and is not the idle process.
LEMMA NewStack ==
    ASSUME IntrInv, NEW p \in Users, NEW s \in Seq(Contexts), NEW d \in Nat, Nested(s, d),
           stack' = [stack EXCEPT ![p] = s], depth' = [depth EXCEPT ![p] = d],
           p \in live', Users \ live' \subseteq Users \ live
    PROVE  /\ Stacks' /\ stack'[p] = s /\ depth'[p] = d
           /\ \A q \in Procs \ {p} : stack'[q] = stack[q] /\ depth'[q] = depth[q]
<1>1. p \in Procs /\ p # Idle /\ p \notin Users \ live'
  BY IntrAssumption DEF Procs
<1>2. Users \ live' \subseteq (Users \ live) \cup {p}
  OBVIOUS
<1> QED BY <1>1, <1>2, ChangeStack

\* The code that is interrupted is saved on top of its stack.
LEMMA GateStack ==
    ASSUME IntrInv, cpu \in {"user", "syscall", "keyboard"},
           gate([at |-> cpu, iflag |-> TRUE]), UNCHANGED <<depth, live>>
    PROVE  /\ Stacks' /\ currproc \in live \cup {Idle} /\ currproc \in Procs
           /\ Len(stack'[currproc]) > depth[currproc]
           /\ cpu = "user" => Len(stack'[currproc]) = depth[currproc] + 1
           /\ \A q \in Procs \ {currproc} : stack'[q] = stack[q]
<1> DEFINE p == currproc
           c == [at |-> cpu, iflag |-> TRUE]
           s == Append(stack[p], c)
<1>0. boot = "up"
  BY DEF IntrInv, BootOrder
<1>1. boot = "up" /\ p \in live \cup {Idle} /\ p \in Procs
  BY <1>0 DEF IntrInv, Waiting, IntrTypes
<1>2. /\ stack[p] \in Seq(Contexts) /\ depth[p] \in Nat /\ Nested(stack[p], depth[p])
      /\ c \in Contexts
  BY <1>1 DEF IntrInv, Stacks, Contexts
<1>3. Len(stack[p]) \in Nat /\ depth[p] <= Len(stack[p])
  BY <1>2 DEF Nested
<1>4. /\ cpu = "user" <=> Len(stack[p]) = depth[p]
      /\ cpu = "syscall" => Len(stack[p]) = depth[p] + 1 /\ p \in live
  BY <1>1, <1>3 DEF IntrInv, Waiting, InHand
<1>5. c.at = cpu
  OBVIOUS
<1>6. stack' = [stack EXCEPT ![p] = s] /\ depth' = [depth EXCEPT ![p] = depth[p]]
  BY DEF gate, IntrInv, Stacks
<1> HIDE DEF c
<1>7. s \in Seq(Contexts) /\ Len(s) = Len(stack[p]) + 1 /\ Nested(s, depth[p])
  BY <1>2, <1>4, <1>5, PushFacts, PushNested
<1>8. p = Idle => depth[p] = 0 /\ \A i \in 1..Len(s) : s[i].at # "syscall"
  <2> SUFFICES ASSUME p = Idle PROVE depth[p] = 0 /\ \A i \in 1..Len(s) : s[i].at # "syscall"
    OBVIOUS
  <2>1. depth[p] = 0 /\ \A i \in 1..Len(stack[p]) : stack[p][i].at # "syscall"
    BY DEF IntrInv, Stacks
  <2>2. c.at # "syscall"
    BY <1>4, <1>5, IntrAssumption DEF IntrInv, IntrTypes
  <2> QED BY <1>2, <1>3, <2>1, <2>2, PushFacts
<1>9. p \notin Users \ live' /\ Users \ live' \subseteq (Users \ live) \cup {p}
  BY <1>1, IntrAssumption
<1> HIDE DEF s
<1>10. /\ Stacks' /\ stack'[p] = s
       /\ \A q \in Procs \ {p} : stack'[q] = stack[q]
  BY <1>1, <1>2, <1>6, <1>7, <1>8, <1>9, ChangeStack
<1> QED BY <1>1, <1>2, <1>3, <1>4, <1>7, <1>10

\* Whenever the CPU is in the kernel, every process can be run.
LEMMA AllCanRun ==
    ASSUME IntrInv, boot = "up", cpu # "user"
    PROVE  \A p \in live \cup {Idle} : p \in Procs /\ Len(stack[p]) > depth[p]
BY DEF IntrInv, Waiting, IntrTypes, Procs

\* A handler that touches no stack may run any process next.
LEMMA SwitchStack ==
    ASSUME IntrInv, NEW why \in Entries, Handling(why), UNCHANGED <<stack, depth, live>>,
           currproc' \in live \cup {Idle}
    PROVE  Stacks' /\ Waiting'
<1>1. boot = "up" /\ boot' = "up" /\ cpu = "kernel" /\ cpu' = "kernel" /\ reason' = "run"
  BY DEF Handling, IntrInv, BootOrder
<1>2. Stacks'
  BY DEF IntrInv, Stacks
<1>3. Waiting'
  BY <1>1, AllCanRun DEF Waiting, InHand
<1> QED BY <1>2, <1>3

\* Where start-up leaves user code to begin.
LEMMA FirstContext ==
    /\ setup_context_frame \in Contexts
    /\ <<setup_context_frame>> \in Seq(Contexts) /\ Len(<<setup_context_frame>>) = 1
    /\ Nested(<<setup_context_frame>>, 0)
    /\ \A i \in 1..1 : <<setup_context_frame>>[i].at = "user"
BY DEF setup_context_frame, Contexts, Nested

\* Every step keeps the stacks whole.
LEMMA NextStacks == ASSUME IntrInv, Control', Next PROVE Stacks' /\ Waiting'
<1>a. ASSUME UNCHANGED <<stack, depth, live, currproc, boot>>, cpu # "user", cpu' # "user",
             InHand("syscall")' => InHand("syscall")
      PROVE  Stacks' /\ Waiting'
  <2>1. Stacks'
    BY <1>a DEF IntrInv, Stacks
  <2> QED BY <1>a, <2>1 DEF IntrInv, Waiting
<1>1. CASE initevec \/ init8259 \/ ctsw_init_evec \/ initPIT
  <2>1. /\ UNCHANGED <<stack, depth, live, currproc, cpu, reason>>
        /\ boot # "up" /\ boot' # "up" /\ cpu = "kernel" /\ reason = "boot"
    BY <1>1 DEF initevec, init8259, ctsw_init_evec, initPIT, Booting, procVars, IntrInv, BootOrder
  <2>2. Stacks'
    BY <2>1 DEF IntrInv, Stacks
  <2> QED BY <2>1, <2>2 DEF Waiting, InHand
<1>2. CASE init_idle_proc
  <2> DEFINE s == <<setup_context_frame>>
  <2>1. /\ stack' = [stack EXCEPT ![Idle] = s] /\ depth' = [depth EXCEPT ![Idle] = 0]
        /\ UNCHANGED <<live, cpu, reason>> /\ cpu = "kernel" /\ reason = "boot" /\ boot' # "up"
    BY <1>2 DEF init_idle_proc, Booting, IntrInv, Stacks
  <2>2. s \in Seq(Contexts) /\ Nested(s, 0) /\ \A i \in 1..Len(s) : s[i].at # "syscall"
    BY FirstContext
  <2> HIDE DEF s
  <2>3. Stacks'
    BY <2>1, <2>2, ChangeStack, IntrAssumption DEF Procs
  <2> QED BY <2>1, <2>3 DEF Waiting, InHand
<1>3. CASE dispatch
  <2>0. PICK p \in Users : /\ stack' = [stack EXCEPT ![p] = <<setup_context_frame>>]
                           /\ live' = {p} /\ currproc' = p
    BY <1>3 DEF dispatch
  <2> DEFINE s == <<setup_context_frame>>
  <2>1. stack' = [stack EXCEPT ![p] = s] /\ live' = {p} /\ currproc' = p
    BY <2>0
  <2>2. /\ boot = "dispatch" /\ reason' = "run" /\ cpu' = "kernel" /\ cpu = "kernel"
        /\ depth' = depth /\ live = {} /\ depth[p] = 0 /\ p # Idle /\ p \in Procs
    BY <1>3, IntrAssumption DEF dispatch, Booting, IntrInv, BootOrder, Procs
  <2>3. s \in Seq(Contexts) /\ Nested(s, 0) /\ Len(s) = 1
    BY FirstContext
  <2>4. depth' = [depth EXCEPT ![p] = 0]
    BY <2>2 DEF IntrInv, Stacks
  <2> HIDE DEF s
  <2>5. p \in live' /\ Users \ live' \subseteq Users \ live
    BY <2>1, <2>2
  <2>6. /\ Stacks' /\ stack'[p] = s /\ depth'[p] = 0
        /\ \A q \in Procs \ {p} : stack'[q] = stack[q] /\ depth'[q] = depth[q]
    <3>1. s \in Seq(Contexts) /\ Nested(s, 0) /\ stack' = [stack EXCEPT ![p] = s]
      BY <2>1, <2>3
    <3> QED BY <3>1, <2>4, <2>5, NewStack
  <2>7. Len(stack[Idle]) > 0 /\ depth[Idle] = 0 /\ Idle \in Procs
    BY <2>2 DEF IntrInv, BootOrder, Stacks, Procs
  <2>8. \A q \in live' \cup {Idle} : Len(stack'[q]) > depth'[q]
    <3>1. Len(stack'[p]) > depth'[p]
      <4>1. Len(s) = 1
        BY <2>3
      <4>2. stack'[p] = s /\ depth'[p] = 0
        BY <2>6
      <4> QED BY <4>1, <4>2
    <3>2. Len(stack'[Idle]) > depth'[Idle]
      BY <2>2, <2>6, <2>7
    <3> QED BY <2>1, <3>1, <3>2
  <2>9. currproc' \in live' \cup {Idle}
    BY <2>1
  <2> QED BY <2>2, <2>6, <2>8, <2>9 DEF Waiting, InHand
<1>4. CASE \E irq \in IRQs : Request(irq)
  <2>1. UNCHANGED <<boot, cpu, reason, currproc, stack, depth, live>>
    BY <1>4 DEF Request, procVars
  <2>2. Stacks'
    BY <2>1 DEF IntrInv, Stacks
  <2> QED BY <2>1, <2>2 DEF IntrInv, Waiting, InHand
<1>5. ASSUME NEW irq \in IRQs, Interrupt(irq) PROVE Stacks' /\ Waiting'
  <2>1. /\ boot = "up" /\ cpu \in {"user", "syscall", "keyboard"} /\ iflag = TRUE
        /\ cpu' \in {"timer", "keyboard"}
    BY <1>5, Interrupted
  <2>2. gate([at |-> cpu, iflag |-> TRUE]) /\ UNCHANGED <<boot, currproc, depth, live, reason>>
    BY <1>5, <2>1 DEF Interrupt
  <2>3. /\ Stacks' /\ currproc \in live \cup {Idle} /\ Len(stack'[currproc]) > depth[currproc]
        /\ \A q \in Procs \ {currproc} : stack'[q] = stack[q]
    BY <2>1, <2>2, GateStack
  <2>4. \A q \in live \cup {Idle} : q \in Procs /\ (q # currproc => Len(stack[q]) > depth[q])
    BY <2>1 DEF IntrInv, Waiting, IntrTypes, Procs
  <2> QED BY <2>1, <2>2, <2>3, <2>4 DEF Waiting, InHand
<1>6. CASE syscall \/ trap
  <2>1. /\ boot = "up" /\ cpu = "user" /\ iflag = TRUE
        /\ cpu' \in {"syscall", "trap"} /\ (cpu' = "syscall" => currproc # Idle)
    BY <1>6 DEF syscall, trap, IntrInv, BootOrder, Flags
  <2>2. gate([at |-> cpu, iflag |-> TRUE]) /\ UNCHANGED <<boot, currproc, depth, live, reason>>
    BY <1>6, <2>1 DEF syscall, trap
  <2>3. /\ Stacks' /\ currproc \in live \cup {Idle} /\ Len(stack'[currproc]) > depth[currproc]
        /\ Len(stack'[currproc]) = depth[currproc] + 1
        /\ \A q \in Procs \ {currproc} : stack'[q] = stack[q]
    BY <2>1, <2>2, GateStack
  <2>4. \A q \in live \cup {Idle} : q \in Procs /\ (q # currproc => Len(stack[q]) > depth[q])
    BY <2>1 DEF IntrInv, Waiting, IntrTypes, Procs
  <2> QED BY <2>1, <2>2, <2>3, <2>4 DEF Waiting, InHand
<1>7. CASE entry_point
  BY <1>7, <1>a DEF entry_point, procVars, InHand
<1>8. CASE common_entry_point
  BY <1>8, <1>a DEF common_entry_point, procVars, InHand
<1>9. CASE ctsw_contextswitch
  <2> DEFINE p == currproc
             s == stack[p]
  <2>1. /\ boot = "up" /\ p \in live \cup {Idle} /\ p \in Procs
        /\ s \in Seq(Contexts) /\ depth[p] \in Nat /\ Len(s) > depth[p] /\ Len(s) > 0
        /\ cpu = "kernel" /\ reason' = "none" /\ UNCHANGED <<boot, currproc, live>>
    BY <1>9, Switched DEF ctsw_contextswitch
  <2>2. \A q \in live \cup {Idle} : q \in Procs /\ Len(stack[q]) > depth[q]
    BY <2>1, AllCanRun
  <2>3. Nested(s, depth[p])
    BY <2>1 DEF IntrInv, Stacks
  <2>4. p \notin Users \ live' /\ Users \ live' \subseteq (Users \ live) \cup {p}
    BY <2>1, IntrAssumption
  <2>5. ASSUME cpu' = Last(s).at, stack' = [stack EXCEPT ![p] = Front(s)], UNCHANGED depth
        PROVE  Stacks' /\ Waiting'
    <3> DEFINE f == Front(s)
    <3>a. /\ f \in Seq(Contexts) /\ Len(f) = Len(s) - 1
          /\ \A i \in 1..(Len(s) - 1) : f[i] = s[i]
          /\ Last(s) = s[Len(s)]
      BY <2>1, PopFacts
    <3>b. Len(s) \in Nat /\ Len(s) > 0
      BY <2>1
    <3>1. /\ f \in Seq(Contexts) /\ Len(f) = Len(s) - 1 /\ Len(f) \in Nat
          /\ \A i \in 1..Len(f) : f[i] = s[i] /\ i \in 1..Len(s)
          /\ Last(s) = s[Len(s)] /\ Len(s) \in 1..Len(s)
      <4> HIDE DEF f, s
      <4> QED BY <3>a, <3>b
    <3>2. /\ Nested(f, depth[p])
          /\ cpu' = "user" <=> Len(f) = depth[p]
          /\ cpu' = "syscall" => Len(f) = depth[p] + 1
      BY <2>1, <2>3, <2>5, PopNested
    <3> HIDE DEF f
    <3>3. depth' = [depth EXCEPT ![p] = depth[p]]
      BY <2>5 DEF IntrInv, Stacks
    <3>4. p = Idle => /\ depth[p] = 0 /\ \A i \in 1..Len(f) : f[i].at # "syscall"
                      /\ cpu' # "syscall"
      BY <2>5, <3>1 DEF IntrInv, Stacks
    <3>5. stack' = [stack EXCEPT ![p] = f]
      BY <2>5 DEF f
    <3>6. /\ Stacks' /\ stack'[p] = f
          /\ \A q \in Procs \ {p} : stack'[q] = stack[q]
      BY <2>1, <2>4, <3>1, <3>2, <3>3, <3>4, <3>5, ChangeStack
    <3>7. Len(f) >= depth[p]
      BY <3>2 DEF Nested
    <3>8. cpu' = "user" \/ Len(f) > depth[p]
      BY <2>1, <3>1, <3>2, <3>7
    <3>9. InHand("syscall")' => p \in live /\ Len(f) = depth[p] + 1
      BY <2>1, <3>2, <3>4 DEF InHand
    <3> QED BY <2>1, <2>2, <2>5, <3>2, <3>6, <3>8, <3>9 DEF Waiting
  <2>6. ASSUME currproc # Idle, depth[p] = 0, cpu' = "user", UNCHANGED stack,
               depth' = [depth EXCEPT ![p] = Len(s)]
        PROVE  Stacks' /\ Waiting'
    <3>1. Nested(s, Len(s)) /\ Len(s) \in Nat
      BY <2>1, <2>3, <2>6, DeliverNested
    <3>2. stack' = [stack EXCEPT ![p] = s]
      BY <2>6 DEF IntrInv, Stacks
    <3>3. /\ Stacks' /\ stack'[p] = s /\ depth'[p] = Len(s)
          /\ \A q \in Procs \ {p} : stack'[q] = stack[q] /\ depth'[q] = depth[q]
      BY <2>1, <2>4, <2>6, <3>1, <3>2, ChangeStack
    <3>4. ~InHand("syscall")'
      BY <2>1, <2>6 DEF InHand
    <3> QED BY <2>1, <2>2, <2>6, <3>3, <3>4 DEF Waiting
  <2> QED BY <1>9, <2>5, <2>6 DEF ctsw_contextswitch, setup_context_frame
<1>s. ASSUME NEW why, Handling(why), why # "boot"
      PROVE  /\ boot = "up" /\ boot' = "up" /\ cpu = "kernel" /\ cpu' = "kernel" /\ reason' = "run"
             /\ currproc \in live \cup {Idle} /\ InHand(why)
  <2>1. /\ boot = "up" /\ boot' = "up" /\ cpu = "kernel" /\ cpu' = "kernel" /\ reason' = "run"
        /\ InHand(why)
    BY <1>s DEF Handling, IntrInv, BootOrder, InHand
  <2> QED BY <2>1 DEF IntrInv, Waiting
<1>10. CASE timer_handler \/ dispatch_syscall_other
  <2>1. \E why \in Entries : Handling(why)
    BY <1>10 DEF timer_handler, dispatch_syscall_other
  <2>2. UNCHANGED <<stack, depth, live>> /\ currproc' \in live \cup {Idle}
    BY <1>10 DEF timer_handler, dispatch_syscall_other, Switch
  <2> QED BY <2>1, <2>2, SwitchStack
<1>11. CASE keyboard_handler \/ setEnabledKbd
  <2>1. PICK why \in Entries : Handling(why)
    BY <1>11 DEF keyboard_handler, setEnabledKbd
  <2>2. UNCHANGED <<stack, depth, live>> /\ currproc' \in live \cup {Idle}
    BY <1>11, <1>s, <2>1 DEF keyboard_handler, setEnabledKbd, procVars
  <2> QED BY <2>1, <2>2, SwitchStack
<1>12. CASE create
  <2>0. PICK p \in Users \ live : /\ stack' = [stack EXCEPT ![p] = <<setup_context_frame>>]
                                  /\ live' = live \cup {p}
    BY <1>12 DEF create
  <2> DEFINE s == <<setup_context_frame>>
  <2>1. stack' = [stack EXCEPT ![p] = s] /\ live' = live \cup {p}
    BY <2>0
  <2>2. /\ boot = "up" /\ cpu = "kernel" /\ cpu' = "kernel" /\ reason' = "run"
        /\ currproc' = currproc /\ currproc \in live \cup {Idle} /\ depth' = depth
    BY <1>12, <1>s DEF create
  <2>3. depth[p] = 0 /\ p # Idle /\ p \in Procs
    BY IntrAssumption DEF IntrInv, Stacks, Procs
  <2>4. s \in Seq(Contexts) /\ Nested(s, 0) /\ Len(s) = 1
    BY FirstContext
  <2>5. depth' = [depth EXCEPT ![p] = 0]
    BY <2>2, <2>3 DEF IntrInv, Stacks
  <2> HIDE DEF s
  <2>a. p \in live' /\ Users \ live' \subseteq Users \ live
    BY <2>1
  <2>6. /\ Stacks' /\ stack'[p] = s /\ depth'[p] = 0
        /\ \A q \in Procs \ {p} : stack'[q] = stack[q] /\ depth'[q] = depth[q]
    <3>1. s \in Seq(Contexts) /\ Nested(s, 0) /\ stack' = [stack EXCEPT ![p] = s]
      BY <2>1, <2>4
    <3> QED BY <3>1, <2>5, <2>a, NewStack
  <2>7. \A q \in live \cup {Idle} : q \in Procs /\ Len(stack[q]) > depth[q]
    BY <2>2, AllCanRun
  <2>8. \A q \in live' \cup {Idle} : Len(stack'[q]) > depth'[q]
    BY <2>1, <2>4, <2>6, <2>7
  <2>9. currproc' \in live' \cup {Idle}
    BY <2>1, <2>2
  <2> QED BY <2>2, <2>6, <2>8, <2>9 DEF Waiting, InHand
<1>13. CASE dispatch_syscall_sigreturn
  <2> DEFINE p == currproc
             d == depth[p]
             s == SubSeq(stack[p], 1, d)
  <2>1. /\ boot = "up" /\ cpu = "kernel" /\ cpu' = "kernel" /\ reason' = "run"
        /\ p \in live \cup {Idle} /\ p \in Procs /\ UNCHANGED <<currproc, live>>
        /\ d > 0 /\ stack' = [stack EXCEPT ![p] = s] /\ depth' = [depth EXCEPT ![p] = 0]
        /\ p \in live
    BY <1>13, <1>s DEF dispatch_syscall_sigreturn, IntrInv, IntrTypes, Waiting
  <2>2. stack[p] \in Seq(Contexts) /\ d \in Nat /\ Nested(stack[p], d)
    BY <2>1 DEF IntrInv, Stacks
  <2>3. d \in 0..Len(stack[p])
    BY <2>2 DEF Nested
  <2>4. s \in Seq(Contexts) /\ Len(s) = d /\ Nested(s, 0)
    BY <2>1, <2>2, <2>3, CutFacts, CutNested
  <2>5. p # Idle /\ p \notin Users \ live' /\ Users \ live' \subseteq (Users \ live) \cup {p}
    BY <2>1, IntrAssumption DEF IntrInv, IntrTypes
  <2> HIDE DEF s, d
  <2>6. /\ Stacks' /\ stack'[p] = s /\ depth'[p] = 0
        /\ \A q \in Procs \ {p} : stack'[q] = stack[q] /\ depth'[q] = depth[q]
    BY <2>1, <2>4, <2>5, ChangeStack
  <2>7. \A q \in live \cup {Idle} : q \in Procs /\ Len(stack[q]) > depth[q]
    BY <2>1, AllCanRun
  <2> QED BY <2>1, <2>4, <2>6, <2>7 DEF Waiting, InHand
<1>14. CASE cleanup_proc
  <2> DEFINE p == currproc
  <2>1. /\ boot = "up" /\ cpu = "kernel" /\ cpu' = "kernel" /\ reason' = "run"
        /\ stack' = [stack EXCEPT ![p] = <<>>] /\ depth' = [depth EXCEPT ![p] = 0]
        /\ live' = live \ {p} /\ currproc' \in live' \cup {Idle}
        /\ p \in live
    BY <1>14, <1>s DEF cleanup_proc, Switch, IntrInv, Waiting
  <2>2. p # Idle /\ p \in Procs /\ Users \ live' \subseteq (Users \ live) \cup {p}
    BY <2>1, IntrAssumption DEF IntrInv, IntrTypes, Procs
  <2>3. <<>> \in Seq(Contexts) /\ Nested(<<>>, 0) /\ Len(<<>>) = 0
    BY DEF Nested
  <2>4. /\ Stacks' /\ \A q \in Procs \ {p} : stack'[q] = stack[q] /\ depth'[q] = depth[q]
    BY <2>1, <2>2, <2>3, ChangeStack
  <2>5. \A q \in live \cup {Idle} : q \in Procs /\ Len(stack[q]) > depth[q]
    BY <2>1, AllCanRun
  <2> QED BY <2>1, <2>2, <2>4, <2>5 DEF Waiting, InHand
<1> QED BY <1>1, <1>2, <1>3, <1>4, <1>5, <1>6, <1>7, <1>8, <1>9, <1>10, <1>11, <1>12, <1>13,
           <1>14 DEF Next

-----------------------------------------------------------------------------
(* Entries of the keyboard *)

\* A stack that is left alone holds the same entries.
LEMMA SameStack ==
    ASSUME NEW p, stack'[p] = stack[p]
    PROVE  \A i \in Nat : KeyAt(p, i)' <=> KeyAt(p, i)
BY DEF KeyAt

\* A step that neither begins, ends, suspends nor resumes one.
LEMMA SameKeys ==
    ASSUME IntrInv, \A p \in Procs : \A i \in Nat : KeyAt(p, i)' <=> KeyAt(p, i),
           InHand("keyboard")' <=> InHand("keyboard"), lost' = lost,
           KEYBOARD_IRQ \in isr' <=> KEYBOARD_IRQ \in isr
    PROVE  Keys'
<1>1. KeyWaits' <=> KeyWaits
  BY DEF KeyWaits
<1>2. (\A p, q \in Procs : \A i, j \in Nat : KeyAt(p, i) /\ KeyAt(q, j) => p = q /\ i = j)'
  BY DEF IntrInv, Keys
<1> QED BY <1>1, <1>2 DEF IntrInv, Keys

\* One is taken from the stacks, or begun when none waits.
LEMMA NoKeyWaits ==
    ASSUME \A p \in Procs : \A i \in Nat : ~KeyAt(p, i)'
    PROVE  /\ ~KeyWaits'
           /\ (\A p, q \in Procs : \A i, j \in Nat : KeyAt(p, i) /\ KeyAt(q, j) => p = q /\ i = j)'
BY DEF KeyWaits

\* The context that an entry saves on the stack of the process that runs.
LEMMA Gated ==
    ASSUME IntrInv, NEW c \in Contexts, gate(c)
    PROVE  /\ \A q \in Procs \ {currproc} : \A i \in Nat : KeyAt(q, i)' <=> KeyAt(q, i)
           /\ currproc \in Procs /\ Len(stack[currproc]) \in Nat
           /\ \A p : p = currproc => \A i \in Nat :
                 KeyAt(p, i)' <=> KeyAt(p, i) \/ (i = Len(stack[p]) + 1 /\ c.at = "keyboard")
<1>1. /\ currproc \in Procs /\ stack \in [Procs -> Seq(Contexts)]
      /\ stack' = [stack EXCEPT ![currproc] = Append(stack[currproc], c)]
  BY DEF IntrInv, IntrTypes, Stacks, gate
<1>2. /\ stack'[currproc] = Append(stack[currproc], c) /\ stack[currproc] \in Seq(Contexts)
      /\ \A q \in Procs \ {currproc} : stack'[q] = stack[q]
  BY <1>1
<1>3. /\ Len(stack'[currproc]) = Len(stack[currproc]) + 1 /\ Len(stack[currproc]) \in Nat
      /\ \A i \in 1..Len(stack[currproc]) : stack'[currproc][i] = stack[currproc][i]
      /\ stack'[currproc][Len(stack[currproc]) + 1] = c
  BY <1>2, PushFacts
<1>4. \A p : p = currproc => \A i \in Nat :
         KeyAt(p, i)' <=> KeyAt(p, i) \/ (i = Len(stack[p]) + 1 /\ c.at = "keyboard")
  BY <1>3 DEF KeyAt
<1> QED BY <1>1, <1>2, <1>3, <1>4, SameStack

\* The interrupt of the clock may suspend the entry of the keyboard; that of the
\* keyboard comes only when no entry of it has begun.
LEMMA InterruptKeys ==
    ASSUME IntrInv, NEW irq \in IRQs, Interrupt(irq)
    PROVE  Keys'
<1>1. /\ cpu \in {"user", "syscall", "keyboard"} /\ iflag = TRUE
      /\ irq \in {TIMER_IRQ, KEYBOARD_IRQ} /\ cpu' = EntryOf(irq)
      /\ EntryOf(TIMER_IRQ) = "timer" /\ EntryOf(KEYBOARD_IRQ) = "keyboard"
      /\ irq \notin isr
  BY Interrupted
<1>2. gate([at |-> cpu, iflag |-> TRUE]) /\ isr' = isr \cup {irq} /\ lost' = lost
  BY <1>1 DEF Interrupt
<1> DEFINE c == [at |-> cpu, iflag |-> TRUE]
<1>3. c \in Contexts /\ c.at = cpu /\ gate(c)
  BY <1>1, <1>2 DEF Contexts
<1> HIDE DEF c
<1>4. /\ \A q \in Procs \ {currproc} : \A i \in Nat : KeyAt(q, i)' <=> KeyAt(q, i)
      /\ currproc \in Procs /\ Len(stack[currproc]) \in Nat
      /\ \A p : p = currproc => \A i \in Nat :
            KeyAt(p, i)' <=> KeyAt(p, i) \/ (i = Len(stack[p]) + 1 /\ cpu = "keyboard")
  BY <1>3, Gated
<1>5. InHand("keyboard") <=> cpu = "keyboard"
  BY <1>1 DEF InHand
<1>6. InHand("keyboard")' <=> irq = KEYBOARD_IRQ
  BY <1>1 DEF InHand
<1>7. /\ KeyWaits => ~InHand("keyboard") /\ ~lost
      /\ InHand("keyboard") => ~lost
      /\ KEYBOARD_IRQ \in isr <=> (KeyWaits \/ InHand("keyboard") \/ lost)
  BY DEF IntrInv, Keys
<1>8. CASE cpu = "keyboard"
  <2>1. irq = TIMER_IRQ /\ ~KeyWaits /\ ~lost /\ KEYBOARD_IRQ \in isr
    BY <1>1, <1>5, <1>7, <1>8
  <2>2. \A q \in Procs : \A i \in Nat : ~KeyAt(q, i)
    BY <2>1 DEF KeyWaits
  <2>3. \A q \in Procs : \A i \in Nat :
           KeyAt(q, i)' <=> q = currproc /\ i = Len(stack[currproc]) + 1
    BY <1>4, <1>8, <2>2
  <2>4. (\A p, q \in Procs : \A i, j \in Nat : KeyAt(p, i) /\ KeyAt(q, j) => p = q /\ i = j)'
    BY <2>3
  <2>5. KeyWaits'
    BY <1>4, <2>3 DEF KeyWaits
  <2> QED BY <1>2, <1>6, <2>1, <2>4, <2>5 DEF Keys
<1>9. CASE cpu # "keyboard" /\ irq = TIMER_IRQ
  <2>1. \A q \in Procs : \A i \in Nat : KeyAt(q, i)' <=> KeyAt(q, i)
    BY <1>4, <1>9
  <2>2. /\ KEYBOARD_IRQ \in isr' <=> KEYBOARD_IRQ \in isr
        /\ InHand("keyboard")' <=> InHand("keyboard")
    BY <1>2, <1>5, <1>6, <1>9
  <2> QED BY <1>2, <2>1, <2>2, SameKeys
<1>10. CASE irq = KEYBOARD_IRQ
  <2>1. ~KeyWaits /\ ~lost /\ cpu # "keyboard" /\ KEYBOARD_IRQ \in isr'
    BY <1>1, <1>2, <1>5, <1>7, <1>10
  <2>2. \A q \in Procs : \A i \in Nat : ~KeyAt(q, i)'
    BY <1>4, <2>1 DEF KeyWaits
  <2> QED BY <1>2, <1>6, <1>10, <2>1, <2>2, NoKeyWaits DEF Keys
<1> QED BY <1>1, <1>8, <1>9, <1>10

\* The context that a process goes on with is taken from its stack: the entry
\* of the keyboard may be resumed.
LEMMA SwitchKeys == ASSUME IntrInv, ctsw_contextswitch PROVE Keys'
<1> SUFFICES ASSUME NEW p, p = currproc PROVE Keys'
  OBVIOUS
<1> DEFINE s == stack[p]
           n == Len(s)
<1>1. /\ cpu = "kernel" /\ reason = "run" /\ reason' = "none"
      /\ UNCHANGED <<isr, lost>> /\ ~InHand("keyboard")
  BY DEF ctsw_contextswitch, picVars, InHand
<1>2. p \in Procs /\ s \in Seq(Contexts) /\ Len(s) > 0 /\ Last(s) \in Contexts
  BY <1>1, Switched
<1>3. CASE cpu' = "user" /\ UNCHANGED stack
  <2>1. \A q \in Procs : \A i \in Nat : KeyAt(q, i)' <=> KeyAt(q, i)
    BY <1>3, SameStack
  <2>2. ~InHand("keyboard")'
    BY <1>3 DEF InHand
  <2> QED BY <1>1, <2>1, <2>2, SameKeys
<1>4. CASE cpu' = Last(s).at /\ stack' = [stack EXCEPT ![p] = Front(s)]
  <2>1. /\ Len(Front(s)) = n - 1 /\ \A i \in 1..(n - 1) : Front(s)[i] = s[i]
        /\ Last(s) = s[n] /\ Front(s) \in Seq(Contexts)
    BY <1>2, PopFacts
  <2>2. n \in Nat /\ n > 0
    BY <1>2
  <2>3. stack'[p] = Front(s) /\ \A q \in Procs \ {p} : stack'[q] = stack[q]
    BY <1>2, <1>4 DEF IntrInv, Stacks
  <2>4. \A i \in Nat : (i \in 1..Len(stack'[p]) /\ stack'[p][i].at = "keyboard")
                         <=> i \in 1..(n - 1) /\ s[i].at = "keyboard"
    <3> HIDE DEF n, s
    <3> QED BY <2>1, <2>2, <2>3
  <2>5. \A i \in Nat : KeyAt(p, i)' <=> i \in 1..(n - 1) /\ s[i].at = "keyboard"
    BY <2>4 DEF KeyAt
  <2>6. \A i \in Nat : KeyAt(p, i) <=> i \in 1..n /\ s[i].at = "keyboard"
    BY DEF KeyAt
  <2> HIDE DEF s, n
  <2>7. \A q \in Procs \ {p} : \A i \in Nat : KeyAt(q, i)' <=> KeyAt(q, i)
    BY <2>3, SameStack
  <2>8. CASE Last(s).at = "keyboard"
    <3>1. KeyAt(p, n) /\ KeyWaits
      BY <1>2, <2>1, <2>2, <2>6, <2>8 DEF KeyWaits
    <3>2. \A q \in Procs : \A i \in Nat : KeyAt(q, i) => q = p /\ i = n
      BY <1>2, <2>2, <3>1 DEF IntrInv, Keys
    <3>3. \A i \in Nat : ~KeyAt(p, i)'
      BY <1>2, <2>2, <2>5, <2>6, <3>2
    <3>4. \A q \in Procs : \A i \in Nat : ~KeyAt(q, i)'
      BY <2>7, <3>2, <3>3
    <3>5. ~lost /\ KEYBOARD_IRQ \in isr
      BY <3>1 DEF IntrInv, Keys
    <3>6. InHand("keyboard")'
      BY <1>4, <2>8 DEF InHand
    <3> QED BY <1>1, <3>4, <3>5, <3>6, NoKeyWaits DEF Keys
  <2>9. CASE Last(s).at # "keyboard"
    <3>1. \A i \in Nat : KeyAt(p, i)' <=> KeyAt(p, i)
      BY <2>1, <2>2, <2>5, <2>6, <2>9
    <3>2. \A q \in Procs : \A i \in Nat : KeyAt(q, i)' <=> KeyAt(q, i)
      BY <2>7, <3>1
    <3>3. ~InHand("keyboard")'
      BY <1>2, <1>4, <2>9 DEF InHand, Contexts
    <3> QED BY <1>1, <3>2, <3>3, SameKeys
  <2> QED BY <2>8, <2>9
<1> QED BY <1>3, <1>4 DEF ctsw_contextswitch, setup_context_frame

\* A process that is stopped with the entry on its stack takes it along.
LEMMA CleanupKeys == ASSUME IntrInv, cleanup_proc PROVE Keys'
<1> SUFFICES ASSUME NEW p, p = currproc PROVE Keys'
  OBVIOUS
<1>1. /\ cpu = "kernel" /\ reason = "syscall" /\ reason' = "run" /\ isr' = isr
      /\ ~InHand("keyboard") /\ ~InHand("keyboard")'
  BY DEF cleanup_proc, Handling, InHand
<1>2. /\ p \in Procs /\ stack'[p] = <<>> /\ stack[p] \in Seq(Contexts)
      /\ \A q \in Procs \ {p} : stack'[q] = stack[q]
  BY DEF cleanup_proc, IntrInv, IntrTypes, Stacks
<1>3. \A i \in Nat : ~KeyAt(p, i)'
  BY <1>2 DEF KeyAt
<1>4. \A q \in Procs \ {p} : \A i \in Nat : KeyAt(q, i)' <=> KeyAt(q, i)
  BY <1>2, SameStack
<1>5. (\E c \in ToSet(stack[p]) : c.at = "keyboard") <=> \E i \in Nat : KeyAt(p, i)
  BY <1>2 DEF ToSet, KeyAt
<1>6. lost' = (lost \/ \E i \in Nat : KeyAt(p, i))
  BY <1>5 DEF cleanup_proc
<1>7. CASE \E i \in Nat : KeyAt(p, i)
  <2>1. KeyWaits /\ KEYBOARD_IRQ \in isr
    BY <1>2, <1>7 DEF KeyWaits, IntrInv, Keys
  <2>2. \A q \in Procs \ {p} : \A i \in Nat : ~KeyAt(q, i)
    BY <1>2, <1>7 DEF IntrInv, Keys
  <2>3. \A q \in Procs : \A i \in Nat : ~KeyAt(q, i)'
    BY <1>3, <1>4, <2>2
  <2>4. lost' = TRUE
    BY <1>6, <1>7
  <2> QED BY <1>1, <2>1, <2>3, <2>4, NoKeyWaits DEF Keys
<1>8. CASE ~\E i \in Nat : KeyAt(p, i)
  <2>1. \A q \in Procs : \A i \in Nat : KeyAt(q, i)' <=> KeyAt(q, i)
    BY <1>3, <1>4, <1>8
  <2>2. lost' = lost
    BY <1>6, <1>8 DEF IntrInv, IntrTypes
  <2> QED BY <1>1, <2>1, <2>2, SameKeys
<1> QED BY <1>7, <1>8

\* A stack that neither held nor holds an entry of the keyboard.
LEMMA CleanStack ==
    ASSUME IntrInv, NEW p \in Procs, NEW s, stack' = [stack EXCEPT ![p] = s],
           \A i \in 1..Len(s) : s[i].at # "keyboard",
           \A i \in Nat : ~KeyAt(p, i)
    PROVE  \A q \in Procs : \A i \in Nat : KeyAt(q, i)' <=> KeyAt(q, i)
<1>1. stack'[p] = s /\ \A q \in Procs \ {p} : stack'[q] = stack[q]
  BY DEF IntrInv, Stacks
<1>2. \A i \in Nat : KeyAt(p, i)' <=> KeyAt(p, i)
  BY <1>1 DEF KeyAt
<1> QED BY <1>1, <1>2, SameStack

\* The return of a signal handler drops the entry of its system call and
\* nothing else.
LEMMA SigreturnKeys == ASSUME IntrInv, dispatch_syscall_sigreturn PROVE Keys'
<1> SUFFICES ASSUME NEW p, p = currproc PROVE Keys'
  OBVIOUS
<1> DEFINE s == stack[p]
           d == depth[p]
           n == Len(s)
<1>1. /\ p \in Procs /\ s \in Seq(Contexts) /\ d \in Nat /\ Nested(s, d)
      /\ d > 0 /\ stack' = [stack EXCEPT ![p] = SubSeq(s, 1, d)]
      /\ UNCHANGED <<isr, lost>> /\ InHand("syscall")
      /\ ~InHand("keyboard") /\ ~InHand("keyboard")'
  BY DEF dispatch_syscall_sigreturn, IntrInv, IntrTypes, Stacks, Handling, InHand
<1>2. n = d + 1
  BY <1>1 DEF IntrInv, Waiting
<1>3. n \in Nat /\ d \in 0..n /\ s[n].at = "user"
  BY <1>1, <1>2 DEF Nested
<1>4. /\ Len(SubSeq(s, 1, d)) = d
      /\ \A i \in 1..d : SubSeq(s, 1, d)[i] = s[i]
  BY <1>1, <1>3, CutFacts
<1>5. stack'[p] = SubSeq(s, 1, d) /\ \A q \in Procs \ {p} : stack'[q] = stack[q]
  BY <1>1 DEF IntrInv, Stacks
<1>6. \A i \in Nat : (i \in 1..Len(stack'[p]) /\ stack'[p][i].at = "keyboard")
                       <=> i \in 1..n /\ s[i].at = "keyboard"
  <2> HIDE DEF n, s, d
  <2> QED BY <1>1, <1>2, <1>3, <1>4, <1>5
<1>7. \A i \in Nat : KeyAt(p, i)' <=> KeyAt(p, i)
  BY <1>6 DEF KeyAt
<1>8. \A q \in Procs : \A i \in Nat : KeyAt(q, i)' <=> KeyAt(q, i)
  BY <1>5, <1>7, SameStack
<1> QED BY <1>1, <1>8, SameKeys

\* Every step keeps the keyboard's state right.
LEMMA NextKeys == ASSUME IntrInv, Next PROVE Keys'
<1>a. ASSUME UNCHANGED <<stack, lost>>, InHand("keyboard")' <=> InHand("keyboard"),
             KEYBOARD_IRQ \in isr' <=> KEYBOARD_IRQ \in isr
      PROVE  Keys'
  <2>1. \A q \in Procs : \A i \in Nat : KeyAt(q, i)' <=> KeyAt(q, i)
    BY <1>a, SameStack
  <2> QED BY <1>a, <2>1, SameKeys
<1>b. ASSUME boot # "up" PROVE \A q \in Procs : \A i \in Nat : ~KeyAt(q, i)
  BY <1>b DEF IntrInv, BootOrder, Keys, KeyWaits
<1>c. /\ <<setup_context_frame>> \in Seq(Contexts)
      /\ \A i \in 1..Len(<<setup_context_frame>>) : <<setup_context_frame>>[i].at # "keyboard"
  BY FirstContext
<1>1. CASE initevec \/ init8259 \/ ctsw_init_evec \/ initPIT
  <2>1. boot # "up" /\ boot' # "up" /\ reason' = reason /\ reason = "boot" /\ UNCHANGED <<cpu, stack, lost>>
    BY <1>1 DEF initevec, init8259, ctsw_init_evec, initPIT, Booting, procVars
  <2>2. isr' \in {isr, {}} /\ isr = {}
    BY <1>1, <2>1 DEF initevec, init8259, ctsw_init_evec, initPIT, picVars, IntrInv, BootOrder
  <2> QED BY <1>a, <2>1, <2>2 DEF InHand
<1>2. CASE init_idle_proc
  <2>1. /\ stack' = [stack EXCEPT ![Idle] = <<setup_context_frame>>] /\ boot # "up" /\ Idle \in Procs
        /\ UNCHANGED <<cpu, reason, isr, lost>>
    BY <1>2 DEF init_idle_proc, Booting, picVars, Procs
  <2>2. \A q \in Procs : \A i \in Nat : KeyAt(q, i)' <=> KeyAt(q, i)
    BY <1>b, <1>c, <2>1, CleanStack
  <2> QED BY <2>1, <2>2, SameKeys DEF InHand
<1>3. CASE dispatch
  <2>1. PICK p \in Users : stack' = [stack EXCEPT ![p] = <<setup_context_frame>>]
    BY <1>3 DEF dispatch
  <2>2. /\ boot # "up" /\ p \in Procs /\ reason' = "run" /\ reason = "boot"
        /\ UNCHANGED <<cpu, isr, lost>> /\ cpu = "kernel"
    BY <1>3 DEF dispatch, Booting, picVars, Procs
  <2>3. \A q \in Procs : \A i \in Nat : KeyAt(q, i)' <=> KeyAt(q, i)
    BY <1>b, <1>c, <2>1, <2>2, CleanStack
  <2> QED BY <2>2, <2>3, SameKeys DEF InHand
<1>4. CASE \E irq \in IRQs : Request(irq)
  BY <1>4, <1>a DEF Request, procVars, InHand
<1>5. CASE \E irq \in IRQs : Interrupt(irq)
  BY <1>5, InterruptKeys
<1>6. CASE syscall \/ trap
  <2> DEFINE c == [at |-> "user", iflag |-> TRUE]
  <2>1. /\ cpu = "user" /\ cpu' \in {"syscall", "trap"} /\ iflag = TRUE
        /\ UNCHANGED <<reason, isr, lost>>
    BY <1>6 DEF syscall, trap, picVars, IntrInv, Flags
  <2>2. gate(c) /\ c \in Contexts /\ c.at # "keyboard"
    BY <1>6, <2>1 DEF syscall, trap, Contexts
  <2> HIDE DEF c
  <2>3. \A q \in Procs : \A i \in Nat : KeyAt(q, i)' <=> KeyAt(q, i)
    BY <2>2, Gated
  <2> QED BY <2>1, <2>3, SameKeys DEF InHand
<1>7. CASE entry_point
  BY <1>7, <1>a DEF entry_point, picVars, procVars, InHand
<1>8. CASE common_entry_point
  BY <1>8, <1>a DEF common_entry_point, picVars, procVars, InHand
<1>9. CASE ctsw_contextswitch
  BY <1>9, SwitchKeys
<1>10. CASE timer_handler
  <2>1. /\ cpu = "kernel" /\ cpu' = "kernel" /\ reason = "timer" /\ reason' = "run"
        /\ UNCHANGED <<stack, lost>> /\ isr' = end_of_intr
    BY <1>10 DEF timer_handler, Handling
  <2>2. isr \subseteq {TIMER_IRQ, KEYBOARD_IRQ} /\ TIMER_IRQ \in isr
    BY <2>1 DEF IntrInv, IntrTypes, ClockInService, InHand
  <2>3. isr' = isr \ {TIMER_IRQ}
    BY <2>1, <2>2, EndOfIntr
  <2> QED BY <1>a, <2>1, <2>3 DEF InHand
<1>11. CASE keyboard_handler
  <2>1. /\ cpu = "kernel" /\ cpu' = "kernel" /\ reason = "keyboard" /\ reason' = "run"
        /\ UNCHANGED <<stack, lost>> /\ isr' = end_of_intr
    BY <1>11 DEF keyboard_handler, Handling, procVars
  <2>2. isr \subseteq {TIMER_IRQ, KEYBOARD_IRQ} /\ TIMER_IRQ \notin isr
    BY <2>1 DEF IntrInv, IntrTypes, ClockInService, InHand
  <2>3. KEYBOARD_IRQ \notin isr'
    BY <2>1, <2>2, EndOfIntr
  <2>4. ~KeyWaits /\ ~lost
    BY <2>1 DEF IntrInv, Keys, InHand
  <2>5. \A q \in Procs : \A i \in Nat : ~KeyAt(q, i)'
    BY <2>1, <2>4, SameStack DEF KeyWaits
  <2>6. ~InHand("keyboard")'
    BY <2>1 DEF InHand
  <2> QED BY <2>1, <2>3, <2>4, <2>5, <2>6, NoKeyWaits DEF Keys
<1>12. CASE setEnabledKbd \/ dispatch_syscall_other
  BY <1>12, <1>a DEF setEnabledKbd, dispatch_syscall_other, Handling, procVars, InHand
<1>13. CASE create
  <2>1. PICK p \in Users \ live : stack' = [stack EXCEPT ![p] = <<setup_context_frame>>]
    BY <1>13 DEF create
  <2>2. p \in Procs /\ \A i \in Nat : ~KeyAt(p, i)
    BY DEF IntrInv, Stacks, Procs, KeyAt
  <2>3. /\ cpu = "kernel" /\ cpu' = "kernel" /\ reason = "syscall" /\ reason' = "run"
        /\ UNCHANGED <<isr, lost>>
    BY <1>13 DEF create, Handling
  <2>4. \A q \in Procs : \A i \in Nat : KeyAt(q, i)' <=> KeyAt(q, i)
    BY <1>c, <2>1, <2>2, CleanStack
  <2> QED BY <2>3, <2>4, SameKeys DEF InHand
<1>14. CASE dispatch_syscall_sigreturn
  BY <1>14, SigreturnKeys
<1>15. CASE cleanup_proc
  BY <1>15, CleanupKeys
<1> QED BY <1>1, <1>2, <1>3, <1>4, <1>5, <1>6, <1>7, <1>8, <1>9, <1>10, <1>11, <1>12, <1>13,
           <1>14, <1>15 DEF Next

-----------------------------------------------------------------------------
(* The theorems *)

\* The invariant holds when interrupts are first set up.
LEMMA InitIntrInv == Init => IntrInv
<1> SUFFICES ASSUME Init PROVE IntrInv
  OBVIOUS
<1>1. IntrTypes /\ Flags /\ BootOrder /\ ClockInService
  BY DEF Init, IntrTypes, Flags, BootOrder, ClockInService, InHand, Procs, Steps
<1>2. Stacks
  <2>1. \A p \in Procs : stack[p] = <<>> /\ depth[p] = 0
    BY DEF Init
  <2>2. stack \in [Procs -> Seq(Contexts)] /\ depth \in [Procs -> Nat]
    BY DEF Init
  <2>3. Nested(<<>>, 0) /\ Len(<<>>) = 0
    BY DEF Nested
  <2> QED BY <2>1, <2>2, <2>3 DEF Stacks, Procs
<1>3. Waiting
  BY DEF Init, Waiting, InHand
<1>4. \A p \in Procs : \A i \in Nat : ~KeyAt(p, i)
  BY DEF Init, KeyAt
<1>5. Keys
  BY <1>4 DEF Init, Keys, KeyWaits, InHand
<1> QED BY <1>1, <1>2, <1>3, <1>5 DEF IntrInv

\* A step of intrVars that is no step of Next changes nothing IntrInv reads.
LEMMA IntrStutter == ASSUME IntrInv, UNCHANGED intrVars PROVE IntrInv'
<1>1. UNCHANGED <<boot, idt, imr, irr, isr, iflag, kflags, cpu, reason, currproc, stack, depth,
                  live, lost>>
  BY DEF intrVars, picVars, procVars
<1>2. IntrTypes' /\ Flags' /\ BootOrder' /\ ClockInService'
  BY <1>1 DEF IntrInv, IntrTypes, Flags, BootOrder, ClockInService, InHand
<1>3. Stacks' /\ Waiting'
  BY <1>1 DEF IntrInv, Stacks, Waiting, InHand
<1>4. \A q \in Procs : \A i \in Nat : KeyAt(q, i)' <=> KeyAt(q, i)
  BY <1>1, SameStack
<1>5. Keys'
  BY <1>1, <1>4, SameKeys DEF InHand
<1> QED BY <1>2, <1>3, <1>5 DEF IntrInv

\* Whatever interrupts come, of any number of processes: the flag, the masks and
\* what is in service agree with where the CPU is and with the entries that wait
\* on the stacks (ctsw.c, evec.c, i386.c).
THEOREM InterruptsInOrder == Spec => []IntrInv
<1>1. IntrInv /\ Next => IntrInv'
  BY NextControl, NextStacks, NextKeys DEF IntrInv, Control
<1>2. IntrInv /\ [Next]_intrVars => IntrInv'
  BY <1>1, IntrStutter
<1> QED BY InitIntrInv, <1>2, PTL DEF Spec

\* From the cli of an entry point to the iret of the next switch the CPU is not
\* interrupted, so a handler of disp.c is one step.
THEOREM HandlersAreOneStep == Spec => []KernelUninterrupted
<1>1. IntrInv => KernelUninterrupted
  <2> SUFFICES ASSUME IntrInv PROVE KernelUninterrupted
    OBVIOUS
  <2>1. cpu \in {"common", "kernel"} => ~iflag
    BY DEF IntrInv, Flags
  <2>2. \A p \in Procs : \A c \in ToSet(stack[p]) : c \in Contexts
    BY DEF IntrInv, Stacks, ToSet
  <2> QED BY <2>1, <2>2 DEF KernelUninterrupted, Contexts
<1> QED BY <1>1, InterruptsInOrder, PTL

\* No interrupt finds the default handler: the vectors are set before the lines
\* are unmasked, and no other line ever is.
THEOREM EveryInterruptHasAnEntry == Spec => []NoStrayInterrupt
<1>1. IntrInv => NoStrayInterrupt
  BY DEF IntrInv, IntrTypes, NoStrayInterrupt
<1> QED BY <1>1, InterruptsInOrder, PTL

\* Whenever a process runs, the clock's line is open and its last interrupt has
\* been ended: what the fairness of the dispatcher's clock rests on.
THEOREM ClockCanAlwaysCome == Spec => []ClockGetsThrough
<1>1. IntrInv => ClockGetsThrough
  BY DEF IntrInv, Flags, BootOrder, ClockInService, InHand, ClockGetsThrough, Steps, IntrTypes
<1> QED BY <1>1, InterruptsInOrder, PTL

\* A signal handler or a nested entry never loses the context it interrupted.
THEOREM StacksStayWhole == Spec => []ContextsKept
<1>1. IntrInv => ContextsKept
  <2> SUFFICES ASSUME IntrInv, boot = "up", NEW p \in live \cup {Idle},
                      p # currproc \/ cpu \in {"common", "kernel"}
               PROVE  stack[p] # <<>>
    BY DEF ContextsKept
  <2>1. p \in Procs /\ Len(stack[p]) > depth[p]
    BY DEF IntrInv, Waiting, IntrTypes, Procs
  <2>2. depth[p] \in Nat
    BY <2>1 DEF IntrInv, Stacks
  <2> QED BY <2>1, <2>2
<1> QED BY <1>1, InterruptsInOrder, PTL

\* The entries that wait on stacks, as positions in them.
LEMMA PendingKeysAre ==
    ASSUME IntrInv
    PROVE  \A e : e \in PendingKeys <=> \E p \in Procs : \E i \in Nat : KeyAt(p, i) /\ e = <<p, i>>
<1>1. \A p \in Procs : DOMAIN stack[p] = 1..Len(stack[p]) /\ DOMAIN stack[p] \subseteq Nat
  BY DEF IntrInv, Stacks
<1>2. ASSUME NEW e \in PendingKeys
      PROVE  \E p \in Procs : \E i \in Nat : KeyAt(p, i) /\ e = <<p, i>>
  <2>1. PICK p \in Procs : e \in {p} \X DOMAIN stack[p]
    BY DEF PendingKeys
  <2>2. e = <<p, e[2]>> /\ e[1] = p /\ e[2] \in DOMAIN stack[p]
    BY <2>1
  <2>3. stack[e[1]][e[2]].at = "keyboard"
    BY DEF PendingKeys
  <2> QED BY <1>1, <2>2, <2>3 DEF KeyAt
<1>3. ASSUME NEW p \in Procs, NEW i \in Nat, KeyAt(p, i) PROVE <<p, i>> \in PendingKeys
  <2>1. <<p, i>> \in {p} \X DOMAIN stack[p] /\ stack[<<p, i>>[1]][<<p, i>>[2]].at = "keyboard"
    BY <1>1, <1>3 DEF KeyAt
  <2> QED BY <2>1 DEF PendingKeys
<1> QED BY <1>2, <1>3

\* The keyboard's interrupt is in service exactly while one entry of it is being
\* handled or waits for its turn, and stays so for ever only if the process that
\* had the entry on its stack was stopped.
THEOREM KeyboardIsServed == Spec => []KeyboardServed
<1>1. IntrInv => KeyboardServed
  <2> SUFFICES ASSUME IntrInv PROVE KeyboardServed
    OBVIOUS
  <2>1. KeyInHand <=> InHand("keyboard")
    BY DEF KeyInHand, InHand
  <2>2. /\ KeyWaits => ~InHand("keyboard") /\ ~lost
        /\ InHand("keyboard") => ~lost
        /\ KEYBOARD_IRQ \in isr <=> (KeyWaits \/ InHand("keyboard") \/ lost)
    BY DEF IntrInv, Keys
  <2>3. CASE KeyWaits
    <3>1. PICK p \in Procs : \E i \in Nat : KeyAt(p, i)
      BY <2>3 DEF KeyWaits
    <3>2. PICK i \in Nat : KeyAt(p, i)
      BY <3>1
    <3>3. \A q \in Procs : \A j \in Nat : KeyAt(q, j) => q = p /\ j = i
      BY <3>2 DEF IntrInv, Keys
    <3>4. PendingKeys = {<<p, i>>}
      BY <3>2, <3>3, PendingKeysAre
    <3>5. Cardinality(PendingKeys) = 1
      BY <3>4, FS_Singleton
    <3> QED BY <2>1, <2>2, <2>3, <3>5 DEF KeyboardServed
  <2>4. CASE ~KeyWaits
    <3>1. PendingKeys = {}
      BY <2>4, PendingKeysAre DEF KeyWaits
    <3>2. Cardinality(PendingKeys) = 0
      BY <3>1, FS_EmptySet
    <3> QED BY <2>1, <2>2, <2>4, <3>2 DEF KeyboardServed
  <2> QED BY <2>3, <2>4
<1> QED BY <1>1, InterruptsInOrder, PTL
=============================================================================
