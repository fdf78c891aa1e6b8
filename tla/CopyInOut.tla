------------------------------- MODULE CopyInOut -------------------------------
(***************************************************************************)
(* The checks of user pointers (src/c/copyinout.c).  The kernel looks at   *)
(* the two ends of a buffer only; MemProofs shows why that is enough.      *)
(* The addresses are those whose last byte an int can hold.                *)
(***************************************************************************)
EXTENDS Mem

CONSTANT KERNEL_STACK       \* the size of the kernel's stack, below freemem

\* The hole is larger than any buffer the kernel accepts.
ASSUME StackAssumption ==
    KERNEL_STACK \in Nat \ {0, 1} /\ HOLESTART + KERNEL_STACK <= HOLEEND + 1

falls_in_hole(addr) == addr >= HOLESTART /\ addr < HOLEEND

falls_in_kstack(addr) == addr >= freemem - KERNEL_STACK /\ addr < freemem

\* Mutant: end_addr is the byte after the buffer.
verify_usrptr_past_end(addr, len) ==
    LET end_addr == addr + len
    IN  /\ ~(addr <= 0 \/ end_addr > maxaddr)
        /\ ~(falls_in_hole(addr) \/ falls_in_hole(end_addr)
               \/ falls_in_kstack(addr) \/ falls_in_kstack(end_addr))

\* verify_usrptr returns OK; it asserts 0 < len < KERNEL_STACK.
verify_usrptr(addr, len) ==
    LET end_addr == addr + len - 1
    IN  /\ ~(addr <= 0 \/ end_addr > maxaddr)
        /\ ~(falls_in_hole(addr) \/ falls_in_hole(end_addr)
               \/ falls_in_kstack(addr) \/ falls_in_kstack(end_addr))

\* verify_usrstr, of a string of length len: every byte is checked, the NUL
\* that ends it too.
verify_usrstr(str, len) == \A i \in 0..len : verify_usrptr(str + i, 1)

=============================================================================
