---------------------------------- MODULE Mem ----------------------------------
(***************************************************************************)
(* The memory manager (src/c/mem.c): a free list of blocks, each with its  *)
(* header, in the two regions of memory before and after the hole.         *)
(*                                                                         *)
(* header maps the address of every block, free or handed out, to its      *)
(* header.  What memory holds elsewhere is unknown, so that the model can  *)
(* not follow a pointer to anything but a header.                          *)
(***************************************************************************)
EXTENDS Integers, FiniteSets, FiniteSetsExt

CONSTANTS
    freemem, HOLESTART, HOLEEND,    \* free memory begins; the hole
    maxaddr,                        \* the last address of memory
    Sizes                           \* the sizes that are asked for

HEADER == 16            \* sizeof(memory_header_t)
NULL   == 0

\* round_to_paragraph
round_to_paragraph(val) == IF val % 16 # 0 THEN ((val + 16) \div 16) * 16 ELSE val

memstart == round_to_paragraph(freemem)

\* The hole is made of pages, and so is memory: maxaddr is the last byte of one.
ASSUME LayoutAssumption ==
    /\ {freemem, HOLESTART, HOLEEND, maxaddr} \subseteq Nat /\ Sizes \subseteq Nat
    /\ HOLESTART % 16 = 0 /\ HOLEEND % 16 = 0 /\ (maxaddr + 1) % 16 = 0
    /\ 0 < memstart /\ memstart + HEADER <= HOLESTART
    /\ HOLESTART < HOLEEND /\ HOLEEND + HEADER <= maxaddr

VARIABLES
    g_free_list,        \* the first free block
    header,             \* the headers of all blocks
    allocated,          \* the size asked for of each pointer handed out
    result              \* what the last kmalloc returned

memVars == <<g_free_list, header, allocated, result>>

\* kmeminit: one free block on each side of the hole.
Init ==
    /\ g_free_list = memstart
    /\ header = [b \in {memstart, HOLEEND} |->
            IF b = memstart
            THEN [size |-> HOLESTART - memstart, prev |-> NULL, next |-> HOLEEND, sanity_check |-> NULL]
            ELSE [size |-> maxaddr - HOLEEND, prev |-> memstart, next |-> NULL, sanity_check |-> NULL]]
    /\ allocated = [ptr \in {} |-> 0]
    /\ result = NULL

-----------------------------------------------------------------------------
(* The free list *)

\* The block that the walk along the list h, from first, reaches in n steps.
walk(h, first) ==
    LET at[n \in 0..Cardinality(DOMAIN h)] ==
            IF n = 0 THEN first ELSE IF at[n - 1] = NULL THEN NULL ELSE h[at[n - 1]].next
    IN  at

set_next(h, block, to) == IF block = NULL THEN h ELSE [h EXCEPT ![block].next = to]
set_prev(h, block, to) == IF block = NULL THEN h ELSE [h EXCEPT ![block].prev = to]

\* f with a value at x, where it may have had none.
put(f, x, value) == [y \in DOMAIN f \cup {x} |-> IF y = x THEN value ELSE f[y]]

\* The part of a block that is split off, a free block after it, however small
\* it is.
other_half(h, block, size) ==
    [size |-> h[block].size - size, prev |-> block, next |-> h[block].next, sanity_check |-> NULL]

\* Mutant: the block after the new one is not told of it.
split_free_block_unlinked(h, block, size) ==
    IF h[block].size = size THEN h
    ELSE put([h EXCEPT ![block].size = size, ![block].next = block + size],
             block + size, other_half(h, block, size))

split_free_block(h, block, size) ==
    IF h[block].size = size THEN h
    ELSE set_prev(put([h EXCEPT ![block].size = size, ![block].next = block + size],
                      block + size, other_half(h, block, size)),
                  h[block].next, block + size)

\* Mutant: block1 keeps its size.
coalesce_blocks_lost(h, block1, block2) ==
    IF block1 = NULL \/ block2 = NULL THEN h
    ELSE IF block1 + h[block1].size # block2 THEN h
    ELSE LET taken == [h EXCEPT ![block1].next = h[block2].next]
         IN  set_prev([a \in DOMAIN h \ {block2} |-> taken[a]], h[block2].next, block1)

\* coalesce_blocks: if nothing is between the two, block1 takes in block2.
coalesce_blocks(h, block1, block2) ==
    IF block1 = NULL \/ block2 = NULL THEN h
    ELSE IF block1 + h[block1].size # block2 THEN h
    ELSE LET taken == [h EXCEPT ![block1].next = h[block2].next, ![block1].size = @ + h[block2].size]
         IN  set_prev([a \in DOMAIN h \ {block2} |-> taken[a]], h[block2].next, block1)

-----------------------------------------------------------------------------
\* Mutant: the header is forgotten.
size_required_bare(size) == round_to_paragraph(size)

size_required(size) == round_to_paragraph(size) + HEADER

\* The blocks that a request can have, in the order of the list.
fitting(size) ==
    {n \in 0..Cardinality(DOMAIN header) :
        LET curr == walk(header, g_free_list)[n]
        IN  IF curr = NULL THEN FALSE ELSE size_required(size) <= header[curr].size}

first_fit(size) == walk(header, g_free_list)[Min(fitting(size))]

\* kmalloc: the first fit is split and leaves the free list.
kmalloc(size) ==
    LET curr == first_fit(size)
        h    == split_free_block(header, curr, size_required(size))
        out  == set_prev(set_next(h, h[curr].prev, h[curr].next), h[curr].next, h[curr].prev)
    IN  /\ 0 < size /\ size < maxaddr
        /\ fitting(size) # {}
        /\ header' = [out EXCEPT ![curr].size = size_required(size),
                                 ![curr].sanity_check = curr + HEADER]
        /\ g_free_list' = IF h[curr].prev = NULL THEN h[curr].next ELSE g_free_list
        /\ allocated' = put(allocated, curr + HEADER, size)
        /\ result' = curr + HEADER

\* kmalloc returns NULL.
kmalloc_fails(size) ==
    /\ size = 0 \/ size >= maxaddr \/ fitting(size) = {}
    /\ result' = NULL
    /\ UNCHANGED <<g_free_list, header, allocated>>

\* kfree, of a pointer that kmalloc returned: its block goes back where its
\* address belongs in the list, and is joined with its neighbours.
kfree(ptr) ==
    LET to_free == ptr - HEADER
        free == {walk(header, g_free_list)[n] : n \in 0..Cardinality(DOMAIN header)} \ {NULL}
        prev == Max({b \in free : b < to_free} \cup {NULL})
        curr == IF prev = NULL THEN g_free_list ELSE header[prev].next
        linked == set_prev(set_next([header EXCEPT ![to_free].prev = prev, ![to_free].next = curr],
                                    prev, to_free),
                           curr, to_free)
    IN  /\ header' = coalesce_blocks(coalesce_blocks(linked, to_free, curr), prev, to_free)
        /\ g_free_list' = IF prev = NULL THEN to_free ELSE g_free_list
        /\ allocated' = [p \in DOMAIN allocated \ {ptr} |-> allocated[p]]
        /\ UNCHANGED result

Next == \/ \E size \in Sizes : kmalloc(size) \/ kmalloc_fails(size)
        \/ \E ptr \in DOMAIN allocated : kfree(ptr)

Spec == Init /\ [][Next]_memVars

-----------------------------------------------------------------------------
Blocks   == DOMAIN header
Held     == {ptr - HEADER : ptr \in DOMAIN allocated}
End(b)   == b + header[b].size

\* The free list holds exactly the blocks that are not handed out, in the order
\* of their addresses (kfree's search relies on it), its prev links are its
\* next links backwards, and no two free blocks touch.
FreeListSound ==
    LET free == Blocks \ Held
    IN  /\ g_free_list = IF free = {} THEN NULL ELSE Min(free)
        /\ \A b \in free :
             LET after  == {a \in free : b < a}
                 before == {a \in free : a < b}
             IN  /\ header[b].next = IF after = {} THEN NULL ELSE Min(after)
                 /\ header[b].prev = Max(before \cup {NULL})
                 /\ End(b) \notin free

\* Every header lies inside its region although the last block of memory may
\* be shorter than a header, and every pointer handed out is aligned, passes
\* the sanity check of kfree, and has the room that was asked for.
PointersGood ==
    /\ \A b \in Blocks : b + HEADER - 1 < HOLESTART \/ (HOLEEND <= b /\ b + HEADER - 1 <= maxaddr)
    /\ \A ptr \in DOMAIN allocated :
         LET b == ptr - HEADER
         IN  ptr % 16 = 0 /\ header[b].sanity_check = ptr /\ ptr + allocated[ptr] <= End(b)

\* What mem.c does is what Heap promises: first fit among the gaps, so that no
\* request fails because free memory is in pieces that touch.
H == INSTANCE Heap WITH
        Regions  <- {[start |-> memstart, end |-> HOLESTART], [start |-> HOLEEND, end |-> maxaddr]},
        Requests <- {size_required(size) : size \in Sizes},
        areas    <- {[start |-> b, end |-> End(b)] : b \in Held},
        result   <- IF result = NULL THEN 0 ELSE result - HEADER
ImplementsHeap == H!Spec
=============================================================================
