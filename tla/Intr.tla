---------------------------------- MODULE Intr ----------------------------------
(***************************************************************************)
(* Interrupts below the level of module Disp: start-up (src/c/i386.c,      *)
(* src/c/evec.c, src/c/init.c), the interrupt controller, the entry points *)
(* and the switch of src/c/ctsw.c, and the contexts that interrupts leave  *)
(* on the stacks of processes.                                             *)
(*                                                                         *)
(* All code runs in ring 0.  Gates are trap gates (evec.c), which leave    *)
(* the interrupt flag as it is: between an entry and its cli the next      *)
(* interrupt may come, and the first entry then waits on the stack of the  *)
(* process until it runs again.  Disp takes a handler to be one step; this *)
(* module shows what that rests on.                                        *)
(***************************************************************************)
EXTENDS Integers, Sequences, SequencesExt, FiniteSetsExt

CONSTANTS
    Users,          \* processes that can be created; one runs first
    Idle            \* g_idle_proc

ASSUME IntrAssumption == Users # {} /\ Idle \notin Users

TIMER_IRQ    == 0
KEYBOARD_IRQ == 1
OTHER_IRQ    == 2                       \* any of the devices nobody asked for
IRQs         == {TIMER_IRQ, KEYBOARD_IRQ, OTHER_IRQ}
Procs        == Users \cup {Idle}

Entries      == {"syscall", "timer", "keyboard"}
EntryOf(irq) == CASE irq = TIMER_IRQ -> "timer" [] irq = KEYBOARD_IRQ -> "keyboard"
                  [] OTHER -> "other"

VARIABLES
    boot,           \* the next step of start-up
    idt,            \* what each vector leads to
    imr, irr, isr,  \* the 8259: masked, requested, in service
    iflag,          \* the interrupt flag (IF)
    kflags,         \* the flag that the kernel pushed at the last switch
    cpu,            \* where the CPU is: user code, an entry point (before its
                    \* cli), the common entry, the kernel, trap() after an
                    \* exception, or (stray) after an interrupt without entry
    reason,         \* ctsw_reason while it is to be handled, or "run"
    currproc,
    stack,          \* contexts on the stack of each process, the last on top
    depth,          \* of the stack of a process when a signal was delivered, or 0
    live,           \* processes that exist
    lost            \* a process died with an entry on its stack

picVars  == <<imr, irr, isr>>
procVars == <<currproc, stack, depth, live, lost>>
intrVars == <<boot, idt, picVars, iflag, kflags, cpu, reason, procVars>>

\* setup_context_frame: user code with interrupts armed.
setup_context_frame == [at |-> "user", iflag |-> TRUE]

Init ==
    /\ boot = "initevec"
    /\ idt = [v \in Entries \cup {"other"} |-> "none"]
    /\ imr \in {{}, IRQs} /\ irr \in SUBSET IRQs /\ isr = {}    \* left by the BIOS
    /\ iflag = FALSE /\ kflags = FALSE
    /\ cpu = "kernel" /\ reason = "boot"
    /\ currproc = Idle
    /\ stack = [p \in Procs |-> <<>>] /\ depth = [p \in Procs |-> 0]
    /\ live = {} /\ lost = FALSE

-----------------------------------------------------------------------------
(* Start-up, in the order of startup.S and initproc, with interrupts off *)

Booting(step, next) ==
    /\ cpu = "kernel" /\ reason = "boot" /\ boot = step /\ boot' = next
    /\ UNCHANGED <<iflag, kflags, cpu>>

\* initevec: a default handler, trap(), for all vectors.
initevec ==
    /\ Booting("initevec", "init8259")
    /\ idt' = [v \in DOMAIN idt |-> "default"]
    /\ UNCHANGED <<picVars, reason, procVars>>

\* init8259 ends in disable(), which masks all lines.
init8259 ==
    /\ Booting("init8259", "ctsw_init_evec")
    /\ imr' = IRQs /\ irr' = {} /\ isr' = {}
    /\ UNCHANGED <<idt, reason, procVars>>

ctsw_init_evec ==
    /\ Booting("ctsw_init_evec", "dispinit")
    /\ idt' = [v \in DOMAIN idt |-> IF v \in Entries THEN "entry" ELSE idt[v]]
    /\ UNCHANGED <<picVars, reason, procVars>>

\* pcb_table_init calls init_idle_proc.
init_idle_proc ==
    /\ Booting("dispinit", "initPIT")
    /\ stack' = [stack EXCEPT ![Idle] = <<setup_context_frame>>]
    /\ UNCHANGED <<idt, picVars, reason, currproc, depth, live, lost>>

\* Mutant: writes a mask without the other bits.
enable_irq_alone(irq, disable) == IF disable THEN {irq} ELSE IRQs \ {irq}

\* The mask after enable_irq.
enable_irq(irq, disable) == IF disable THEN imr \cup {irq} ELSE imr \ {irq}

initPIT ==
    /\ Booting("initPIT", "dispatch")
    /\ imr' = enable_irq(TIMER_IRQ, FALSE)
    /\ UNCHANGED <<irr, isr, idt, reason, procVars>>

\* dispatch creates the root process and begins its loop.
dispatch ==
    /\ Booting("dispatch", "up")
    /\ \E p \in Users : /\ stack' = [stack EXCEPT ![p] = <<setup_context_frame>>]
                        /\ live' = {p} /\ currproc' = p
    /\ reason' = "run"
    /\ UNCHANGED <<idt, picVars, depth, lost>>

-----------------------------------------------------------------------------
(* The hardware *)

\* A device raises its line; the PIT does so from the time the machine starts.
Request(irq) == /\ irq \notin irr /\ irr' = irr \cup {irq}
                /\ UNCHANGED <<boot, idt, imr, isr, iflag, kflags, cpu, reason, procVars>>

\* A trap gate saves the context and leaves the flag alone.
gate(context) ==
    stack' = [stack EXCEPT ![currproc] = Append(@, context)]

\* The CPU takes the request of highest priority, if nothing of that priority
\* or a higher one is in service, and saves where it was.
Interrupt(irq) ==
    /\ iflag /\ irq \in irr \ imr /\ irq = Min(irr \ imr)
    /\ \A i \in isr : irq < i
    /\ irr' = irr \ {irq} /\ isr' = isr \cup {irq}
    /\ gate([at |-> cpu, iflag |-> iflag])
    /\ cpu' = IF idt[EntryOf(irq)] = "entry" THEN EntryOf(irq) ELSE "stray"
    /\ UNCHANGED <<boot, idt, imr, iflag, kflags, reason, currproc, depth, live, lost>>

-----------------------------------------------------------------------------
(* The entry points and the switch (ctsw.c) *)

\* int $50, by a process other than the idle process.
syscall ==
    /\ cpu = "user" /\ currproc # Idle
    /\ gate([at |-> "user", iflag |-> iflag])
    /\ cpu' = "syscall"
    /\ UNCHANGED <<boot, idt, picVars, iflag, kflags, reason, currproc, depth, live, lost>>

\* Mutant: an entry without its cli.
cli_forgotten == iflag

\* The flag after the cli at each entry point.
cli == FALSE

entry_point ==
    /\ cpu \in Entries /\ cpu' = "common" /\ reason' = cpu
    /\ iflag' = cli
    /\ UNCHANGED <<boot, idt, picVars, kflags, procVars>>

\* _common_entry_point: to the kernel's stack, and popf.
common_entry_point ==
    /\ cpu = "common" /\ cpu' = "kernel"
    /\ iflag' = kflags
    /\ UNCHANGED <<boot, idt, picVars, kflags, reason, procVars>>

\* ctsw_contextswitch: pushf, then popa and iret from the top of the stack of
\* currproc.  A signal puts sigtramp's context on top first.
ctsw_contextswitch ==
    /\ cpu = "kernel" /\ reason = "run" /\ reason' = "none"
    /\ kflags' = iflag
    /\ \/ /\ cpu' = Last(stack[currproc]).at /\ iflag' = Last(stack[currproc]).iflag
          /\ stack' = [stack EXCEPT ![currproc] = Front(@)]
          /\ UNCHANGED depth
       \/ /\ currproc # Idle /\ depth[currproc] = 0
          /\ cpu' = setup_context_frame.at /\ iflag' = setup_context_frame.iflag
          /\ depth' = [depth EXCEPT ![currproc] = Len(stack[currproc])]
          /\ UNCHANGED stack
    /\ UNCHANGED <<boot, idt, picVars, currproc, live, lost>>

-----------------------------------------------------------------------------
(* The handlers of disp.c, by what they do to interrupts, contexts and       *)
(* processes.  Scheduling and signalling are free choices.                   *)

Handling(why) == cpu = "kernel" /\ reason = why /\ reason' = "run"
                 /\ UNCHANGED <<boot, idt, irr, iflag, kflags, cpu>>

Switch == currproc' \in live' \cup {Idle}

\* Mutant: EOI for the interrupt of lowest priority.
end_of_intr_lowest == IF isr = {} THEN {} ELSE isr \ {Max(isr)}

\* An EOI that names no interrupt ends the one of highest priority in service.
end_of_intr == IF isr = {} THEN {} ELSE isr \ {Min(isr)}

timer_handler ==
    /\ Handling("timer") /\ isr' = end_of_intr
    /\ UNCHANGED <<imr, stack, depth, live, lost>>
    /\ Switch

\* Mutant: the EOI is forgotten.
keyboard_handler_without_EOI ==
    /\ Handling("keyboard")
    /\ imr' \in {imr, enable_irq(KEYBOARD_IRQ, TRUE)}
    /\ UNCHANGED <<isr, procVars>>

\* An EOF turns the keyboard off (keyboard_handle_eof).
keyboard_handler ==
    /\ Handling("keyboard") /\ isr' = end_of_intr
    /\ imr' \in {imr, enable_irq(KEYBOARD_IRQ, TRUE)}
    /\ UNCHANGED procVars

\* sysopen and sysclose; sysyield, or any call that blocks.
setEnabledKbd ==
    /\ Handling("syscall")
    /\ \E disable \in BOOLEAN : imr' = enable_irq(KEYBOARD_IRQ, disable)
    /\ UNCHANGED <<isr, procVars>>

dispatch_syscall_other ==
    /\ Handling("syscall")
    /\ UNCHANGED <<imr, isr, stack, depth, live, lost>>
    /\ Switch

create ==
    /\ Handling("syscall")
    /\ \E p \in Users \ live : /\ stack' = [stack EXCEPT ![p] = <<setup_context_frame>>]
                               /\ live' = live \cup {p}
    /\ UNCHANGED <<imr, isr, currproc, depth, lost>>

\* Mutant: drops the context under it as well.
dispatch_syscall_sigreturn_further ==
    /\ Handling("syscall") /\ depth[currproc] > 0
    /\ stack' = [stack EXCEPT ![currproc] = SubSeq(@, 1, depth[currproc] - 1)]
    /\ depth' = [depth EXCEPT ![currproc] = 0]
    /\ UNCHANGED <<imr, isr, currproc, live, lost>>

\* syssigreturn: back to the context under sigtramp's.
dispatch_syscall_sigreturn ==
    /\ Handling("syscall") /\ depth[currproc] > 0
    /\ stack' = [stack EXCEPT ![currproc] = SubSeq(@, 1, depth[currproc])]
    /\ depth' = [depth EXCEPT ![currproc] = 0]
    /\ UNCHANGED <<imr, isr, currproc, live, lost>>

\* cleanup_proc frees the stack with all contexts on it.
cleanup_proc ==
    /\ Handling("syscall")
    /\ live' = live \ {currproc}
    /\ stack' = [stack EXCEPT ![currproc] = <<>>] /\ depth' = [depth EXCEPT ![currproc] = 0]
    /\ lost' = (lost \/ \E c \in ToSet(stack[currproc]) : c.at = "keyboard")
    /\ Switch
    /\ UNCHANGED <<imr, isr>>

\* A CPU exception of a process: trap() turns everything off, prints and loops.
trap ==
    /\ cpu = "user" /\ idt["other"] = "default"
    /\ gate([at |-> cpu, iflag |-> iflag])
    /\ cpu' = "trap" /\ iflag' = FALSE /\ imr' = IRQs
    /\ UNCHANGED <<boot, idt, irr, isr, kflags, reason, currproc, depth, live, lost>>

Next ==
    \/ initevec \/ init8259 \/ ctsw_init_evec \/ init_idle_proc \/ initPIT \/ dispatch
    \/ \E irq \in IRQs : Request(irq) \/ Interrupt(irq)
    \/ syscall \/ entry_point \/ common_entry_point \/ ctsw_contextswitch
    \/ timer_handler \/ keyboard_handler \/ setEnabledKbd \/ dispatch_syscall_other
    \/ create \/ dispatch_syscall_sigreturn \/ cleanup_proc \/ trap

Spec == Init /\ [][Next]_intrVars
-----------------------------------------------------------------------------
\* No interrupt comes between the cli of an entry point and the iret of the
\* next switch, start-up included: what makes a handler of disp.c one step.
KernelUninterrupted ==
    /\ cpu \in {"common", "kernel"} => ~iflag
    /\ \A p \in Procs : \A c \in ToSet(stack[p]) : c.at \in Entries \cup {"user"}

\* No interrupt comes for which there is no entry point: vectors are set before
\* lines are unmasked, and opening or closing the keyboard unmasks no other.
NoStrayInterrupt == cpu # "stray"

\* Whenever a process runs, the clock can interrupt it: its line is not masked,
\* its last interrupt is over, and interrupts are armed, whatever entries are
\* still pending.  (Disp assumes fairness of timer_handler.)
ClockGetsThrough ==
    cpu = "user" => iflag /\ TIMER_IRQ \notin imr \cup isr

\* The entries of the keyboard that have begun and are not handled.
PendingKeys == {e \in UNION {{p} \X DOMAIN stack[p] : p \in Procs} :
                    stack[e[1]][e[2]].at = "keyboard"}
KeyInHand   == cpu = "keyboard" \/ (cpu \in {"common", "kernel"} /\ reason = "keyboard")

\* The keyboard's interrupt is in service exactly while one entry is being
\* handled or waits on the stack of a process for its turn; it stays in service
\* for ever only if the process that had it was stopped (lost).
KeyboardServed ==
    LET entries == Cardinality(PendingKeys) + (IF KeyInHand THEN 1 ELSE 0)
    IN  /\ entries + (IF lost THEN 1 ELSE 0) <= 1
        /\ KEYBOARD_IRQ \in isr <=> (entries = 1 \/ lost)

\* A signal handler or a nested entry never loses the context under it: until
\* it is stopped, a process that does not run has a context to go on with.
ContextsKept ==
    boot = "up" => \A p \in live \cup {Idle} :
        (p # currproc \/ cpu \in {"common", "kernel"}) => stack[p] # <<>>
=============================================================================
