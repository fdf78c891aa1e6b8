-------------------------------- MODULE ProcMem --------------------------------
(***************************************************************************)
(* What the kernel does with its memory: create, get_next_available_pcb    *)
(* and cleanup_proc (src/c/create.c, src/c/pcb.c) and start-up as callers  *)
(* of kmalloc and kfree (module Mem), and the checks of pointers into the  *)
(* stacks of processes (module CopyInOut).                                 *)
(*                                                                         *)
(* Handlers are not interrupted: a handler is a sequence of steps, one for *)
(* each call to the memory manager.                                        *)
(***************************************************************************)
EXTENDS CopyInOut, Sequences

CONSTANTS
    Pcbs,                   \* the process table
    Stacks,                 \* stack sizes passed to syscreate
    DEFAULT_STACK_SIZE,
    TABLE,                  \* bytes of a signal table
    AtBoot                  \* sizes asked for at start-up: the idle process's
                            \* stack and the dvioblk of each keyboard device

\* The longest stack (at least the default) and the table are sizes of Mem.
ASSUME StackSizeAssumption ==
    /\ TABLE \in Sizes /\ DEFAULT_STACK_SIZE \in Sizes /\ AtBoot \in Seq(Sizes) \ {<<>>}
    /\ IsFiniteSet(Pcbs) /\ Stacks \subseteq Nat
    /\ \A stack \in Stacks : stack > DEFAULT_STACK_SIZE => stack \in Sizes

VARIABLES
    step,           \* what the kernel does next; "boot", and "user" between handlers
    booted,         \* kmallocs of start-up that are done
    kept,           \* the pointers they returned
    stack_bottom,   \* create's, NULL when it does not run
    dying,          \* the argument of cleanup_proc, or NULL
    stopped,        \* pcbs in the STOPPED queue
    memory_region, signal_table

procVars == <<step, booted, kept, stack_bottom, dying, stopped, memory_region, signal_table>>

ProcInit ==
    /\ Init
    /\ step = "boot" /\ booted = 0 /\ kept = {}
    /\ stack_bottom = NULL /\ dying = NULL /\ stopped = Pcbs
    /\ memory_region = [p \in Pcbs |-> NULL] /\ signal_table = [p \in Pcbs |-> NULL]

\* init_idle_proc and kbd_devsw_create; both assert that memory is left.
boot ==
    /\ step = "boot"
    /\ kmalloc(AtBoot[booted + 1]) /\ kept' = kept \cup {result'}
    /\ booted' = booted + 1
    /\ step' = IF booted' = Len(AtBoot) THEN "user" ELSE "boot"
    /\ UNCHANGED <<stack_bottom, dying, stopped, memory_region, signal_table>>

\* create, up to get_next_available_pcb.
create_stack(stack) ==
    LET size == IF stack < DEFAULT_STACK_SIZE THEN DEFAULT_STACK_SIZE ELSE stack
    IN  /\ step = "user"
        /\ \/ kmalloc(size) /\ stack_bottom' = result' /\ step' = "pcb"
           \/ kmalloc_fails(size) /\ UNCHANGED <<stack_bottom, step>>       \* ENOMEM
        /\ UNCHANGED <<booted, kept, dying, stopped, memory_region, signal_table>>

\* get_next_available_pcb: a pcb and its signal table, or nothing; if the
\* table cannot be had, the pcb goes back.
get_next_available_pcb ==
    /\ step = "pcb"
    /\ \/ /\ stopped # {}
          /\ \E p \in stopped :
               /\ kmalloc(TABLE)
               /\ stopped' = stopped \ {p}
               /\ signal_table' = [signal_table EXCEPT ![p] = result']
               /\ memory_region' = [memory_region EXCEPT ![p] = stack_bottom]
          /\ step' = "user" /\ stack_bottom' = NULL
       \/ /\ stopped # {} /\ kmalloc_fails(TABLE) /\ step' = "undo"
          /\ UNCHANGED <<stopped, stack_bottom, signal_table, memory_region>>
       \/ /\ stopped = {} /\ step' = "undo"
          /\ UNCHANGED <<memVars, stopped, stack_bottom, signal_table, memory_region>>
    /\ UNCHANGED <<booted, kept, dying>>

\* Mutant: create returns EPROCLIMIT at once.
create_undo_forgotten ==
    /\ step = "undo" /\ step' = "user" /\ stack_bottom' = NULL
    /\ UNCHANGED <<memVars, booted, kept, dying, stopped, memory_region, signal_table>>

create_undo ==
    /\ step = "undo" /\ step' = "user"
    /\ kfree(stack_bottom) /\ stack_bottom' = NULL
    /\ UNCHANGED <<booted, kept, dying, stopped, memory_region, signal_table>>

\* cleanup_proc frees the stack, then the signal table.
cleanup_stack(p) ==
    /\ step = "user" /\ p \notin stopped
    /\ kfree(memory_region[p]) /\ dying' = p /\ step' = "table"
    /\ UNCHANGED <<booted, kept, stack_bottom, stopped, memory_region, signal_table>>

cleanup_table ==
    /\ step = "table" /\ step' = "user"
    /\ kfree(signal_table[dying]) /\ stopped' = stopped \cup {dying} /\ dying' = NULL
    /\ UNCHANGED <<booted, kept, stack_bottom, memory_region, signal_table>>

ProcNext ==
    \/ boot \/ (\E stack \in Stacks : create_stack(stack)) \/ get_next_available_pcb \/ create_undo
    \/ (\E p \in Pcbs : cleanup_stack(p)) \/ cleanup_table

ProcSpec == ProcInit /\ [][ProcNext]_<<memVars, procVars>>

-----------------------------------------------------------------------------
Living == Pcbs \ stopped

\* Between handlers, exactly the blocks that living processes and start-up own
\* are handed out, each to one owner: nothing is freed twice (the sanity check
\* of kfree would not notice) and nothing leaks, whichever kmalloc failed.
OwnedOnce ==
    step = "user" =>
        /\ DOMAIN allocated = kept \cup {memory_region[p] : p \in Living}
                                   \cup {signal_table[p] : p \in Living}
        /\ Cardinality(DOMAIN allocated) = Cardinality(kept) + 2 * Cardinality(Living)

\* Every buffer and string on the stack of a living process passes: no stack
\* reaches into the hole, the kernel's stack or past the end of memory, and the
\* check does not refuse the bytes at its very end.
StacksPass ==
    step = "user" =>
        \A p \in Living, len \in {1, KERNEL_STACK - 1} :
            LET stack == memory_region[p]
            IN  len <= allocated[stack] =>
                    /\ verify_usrptr(stack, len) /\ verify_usrptr(stack + allocated[stack] - len, len)
                    /\ verify_usrstr(stack + allocated[stack] - len, len - 1)

=============================================================================
