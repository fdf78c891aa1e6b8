------------------------------- MODULE MemProofs -------------------------------
(***************************************************************************)
(* Proofs about memory, for every layout, every set of sizes and every     *)
(* size of the process table: the free list of mem.c is in order, the heap *)
(* hands out the lowest gap that is large enough, its callers own what it  *)
(* has handed out, and the checks of copyinout.c accept the stacks.        *)
(***************************************************************************)
EXTENDS ProcMem, FiniteSetTheorems, WellFoundedInduction, TLAPS

USE DEF HEADER, NULL

\* The headers, the free blocks, and what the variables hold.
Headers == [size : Nat \ {0}, prev : Nat, next : Nat, sanity_check : Nat]
Free    == Blocks \ Held

MemTypes ==
    /\ DOMAIN allocated \subseteq Nat /\ allocated \in [DOMAIN allocated -> Nat]
    /\ Held \subseteq Blocks /\ result \in Nat

\* c comes after b, or before b, in a list of the blocks F; NULL, which is 0, is
\* less than every block.
After(F, b, c)  == /\ c \in F \cup {0}
                   /\ c # 0 => b < c
                   /\ \A a \in F : b < a => c # 0 /\ c <= a
Before(F, b, c) == /\ c \in F \cup {0} /\ c < b
                   /\ \A a \in F : a < b => a <= c

\* h and first are a list of the blocks F, in the order of their addresses.
Linked(h, first, F) ==
    /\ After(F, 0, first)
    /\ \A b \in F : After(F, b, h[b].next) /\ Before(F, b, h[b].prev)

\* The blocks of h tile the two regions.
EndIn(h, b)    == b + h[b].size
InRegion(h, b) == \/ memstart <= b /\ EndIn(h, b) <= HOLESTART
                  \/ HOLEEND <= b /\ EndIn(h, b) <= maxaddr
Tiled(h) ==
    /\ DOMAIN h \subseteq Nat \ {0} /\ h \in [DOMAIN h -> Headers]
    /\ {memstart, HOLEEND} \subseteq DOMAIN h
    /\ \A b \in DOMAIN h :
          /\ b % 16 = 0 /\ InRegion(h, b)
          /\ EndIn(h, b) \in DOMAIN h \cup {HOLESTART, maxaddr}
          /\ \A a \in DOMAIN h : a < b => EndIn(h, a) <= b

\* Of the free blocks F only the pairs in S touch.
Touching(h, F, S) == \A a, b \in F : EndIn(h, a) = b => <<a, b>> \in S

\* Who has a pointer has the room that was asked for.
Grants == \A ptr \in DOMAIN allocated :
             /\ header[ptr - HEADER].sanity_check = ptr
             /\ ptr + allocated[ptr] <= End(ptr - HEADER)

MemInv == /\ MemTypes /\ Tiled(header)
          /\ Linked(header, g_free_list, Free) /\ Touching(header, Free, {})
          /\ Grants

\* Whose stack is handed out, and what create has in hand.
Stacked == IF step = "table" THEN Living \ {dying} ELSE Living
InHand  == IF step \in {"pcb", "undo"} THEN {stack_bottom} ELSE {}

ProcTypes ==
    /\ step \in {"boot", "user", "pcb", "undo", "table"}
    /\ booted \in 0..Len(AtBoot) /\ (step = "boot" => booted < Len(AtBoot))
    /\ stopped \subseteq Pcbs /\ (step = "table" => dying \in Living)
    /\ DOMAIN memory_region = Pcbs /\ DOMAIN signal_table = Pcbs

\* Each pointer in A has one owner: start-up (K), create (C), or the processes S,
\* for a stack, and L, for a signal table.
OwnedBy(A, K, C, stack, S, table, L) ==
    /\ A = K \cup C \cup {stack[p] : p \in S} \cup {table[p] : p \in L}
    /\ K \cap C = {}
    /\ \A p \in S : /\ stack[p] \notin K \cup C
                    /\ \A q \in S : p # q => stack[p] # stack[q]
                    /\ \A q \in L : stack[p] # table[q]
    /\ \A p \in L : /\ table[p] \notin K \cup C
                    /\ \A q \in L : p # q => table[p] # table[q]
CountedBy(A, K, C, S, L) ==
    /\ IsFiniteSet(A) /\ IsFiniteSet(K) /\ IsFiniteSet(C) /\ IsFiniteSet(S) /\ IsFiniteSet(L)
    /\ Cardinality(A) = Cardinality(K) + Cardinality(C) + Cardinality(S) + Cardinality(L)

Owners  == OwnedBy(DOMAIN allocated, kept, InHand, memory_region, Stacked, signal_table, Living)
Counted == CountedBy(DOMAIN allocated, kept, InHand, Stacked, Living)

ProcInv == MemInv /\ ProcTypes /\ Owners /\ Counted

-----------------------------------------------------------------------------
(* Numbers *)

\* A set of natural numbers that is not empty has a least element.
LEMMA Least ==
    ASSUME NEW T \in SUBSET Nat, T # {}
    PROVE  Min(T) \in T /\ \A y \in T : Min(T) <= y
<1>1. PICK x \in T : \A y \in T : ~(<<y, x>> \in OpToRel(<, Nat))
  BY NatLessThanWellFounded, WFMin
<1>2. \A y \in T : ~(y < x)
  BY <1>1 DEF OpToRel
<1>3. \A y \in T : x <= y
  BY <1>2
<1> QED BY <1>3 DEF Min

\* One that has a bound has a greatest.
LEMMA Greatest ==
    ASSUME NEW T \in SUBSET Nat, T # {}, NEW m \in Nat, \A y \in T : y <= m
    PROVE  Max(T) \in T /\ \A y \in T : y <= Max(T)
<1> DEFINE U == {m - y : y \in T}
<1>1. U \in SUBSET Nat /\ U # {}
  OBVIOUS
<1>2. Min(U) \in U /\ \A z \in U : Min(U) <= z
  BY <1>1, Least
<1>3. PICK x \in T : Min(U) = m - x
  BY <1>2
<1>4. \A y \in T : m - x <= m - y
  BY <1>2, <1>3
<1>5. \A y \in T : x >= y
  BY <1>4
<1> QED BY <1>5 DEF Max

\* What has 0, and n + 1 with n, has all natural numbers.
LEMMA NatInduct ==
    ASSUME NEW T, 0 \in T, \A n \in Nat : n \in T => n + 1 \in T
    PROVE  \A n \in Nat : n \in T
<1> SUFFICES ASSUME NEW k \in Nat, k \notin T PROVE FALSE
  OBVIOUS
<1> DEFINE U == Nat \ T
<1>1. U \in SUBSET Nat /\ U # {}
  OBVIOUS
<1>2. Min(U) \in U /\ \A z \in U : Min(U) <= z
  BY <1>1, Least
<1> DEFINE x == Min(U)
<1>3. x \in Nat /\ x \notin T
  BY <1>2
<1> HIDE DEF x
<1>4. x # 0
  BY <1>3
<1>5. x - 1 \in Nat /\ (x - 1) + 1 = x
  BY <1>3, <1>4
<1>6. x - 1 \notin T
  BY <1>3, <1>5
<1>7. x - 1 \in U
  BY <1>5, <1>6
<1>8. x <= x - 1
  BY <1>2, <1>7 DEF x
<1> QED BY <1>3, <1>8

\* round_to_paragraph goes up to the next multiple of 16.
LEMMA Rounded ==
    ASSUME NEW val \in Nat
    PROVE  /\ round_to_paragraph(val) \in Nat /\ round_to_paragraph(val) % 16 = 0
           /\ val <= round_to_paragraph(val)
BY DEF round_to_paragraph

\* A request takes a whole number of paragraphs, its header among them.
LEMMA Required ==
    ASSUME NEW size \in Nat
    PROVE  /\ size_required(size) \in Nat \ {0} /\ size_required(size) % 16 = 0
           /\ size + 16 <= size_required(size)
<1>1. \A r \in Nat : r % 16 = 0 => (r + 16) % 16 = 0
  BY SMT
<1> QED BY <1>1, Rounded DEF size_required

\* The layout of memory.
LEMMA Layout ==
    /\ memstart \in Nat \ {0} /\ memstart % 16 = 0 /\ freemem \in Nat /\ freemem <= memstart
    /\ HOLESTART \in Nat /\ HOLEEND \in Nat /\ maxaddr \in Nat
    /\ HOLESTART % 16 = 0 /\ HOLEEND % 16 = 0 /\ (maxaddr + 1) % 16 = 0
    /\ memstart + 16 <= HOLESTART /\ HOLESTART < HOLEEND /\ HOLEEND + 16 <= maxaddr
BY LayoutAssumption, Rounded DEF memstart

-----------------------------------------------------------------------------
(* Lists *)

\* set_next and set_prev change one field of one header, if there is one.
LEMMA SetNext ==
    ASSUME NEW D \in SUBSET (Nat \ {0}), NEW h \in [D -> Headers],
           NEW b \in Nat, b \in D \cup {0}, NEW to \in Nat
    PROVE  /\ set_next(h, b, to) \in [D -> Headers]
           /\ \A a \in D : /\ set_next(h, b, to)[a].next = IF a = b THEN to ELSE h[a].next
                           /\ set_next(h, b, to)[a].prev = h[a].prev
                           /\ set_next(h, b, to)[a].size = h[a].size
                           /\ set_next(h, b, to)[a].sanity_check = h[a].sanity_check
BY DEF set_next, Headers

\* The same of set_prev.
LEMMA SetPrev ==
    ASSUME NEW D \in SUBSET (Nat \ {0}), NEW h \in [D -> Headers],
           NEW b \in Nat, b \in D \cup {0}, NEW to \in Nat
    PROVE  /\ set_prev(h, b, to) \in [D -> Headers]
           /\ \A a \in D : /\ set_prev(h, b, to)[a].prev = IF a = b THEN to ELSE h[a].prev
                           /\ set_prev(h, b, to)[a].next = h[a].next
                           /\ set_prev(h, b, to)[a].size = h[a].size
                           /\ set_prev(h, b, to)[a].sanity_check = h[a].sanity_check
BY DEF set_prev, Headers

\* A block has one neighbour on each side.
LEMMA OneNeighbour ==
    ASSUME NEW F \in SUBSET (Nat \ {0}), NEW b \in Nat, NEW c, NEW d
    PROVE  /\ After(F, b, c) /\ After(F, b, d) => c = d
           /\ Before(F, b, c) /\ Before(F, b, d) => c = d
<1>1. ASSUME After(F, b, c), After(F, b, d) PROVE c = d
  <2>1. c \in F \cup {0} /\ d \in F \cup {0} /\ c \in Nat /\ d \in Nat
    BY <1>1 DEF After
  <2>2. c # 0 => d # 0 /\ d <= c
    BY <1>1, <2>1 DEF After
  <2>3. d # 0 => c # 0 /\ c <= d
    BY <1>1, <2>1 DEF After
  <2> QED BY <2>1, <2>2, <2>3
<1>2. ASSUME Before(F, b, c), Before(F, b, d) PROVE c = d
  <2>1. c \in F \cup {0} /\ d \in F \cup {0} /\ c \in Nat /\ d \in Nat
    BY <1>2 DEF Before
  <2>2. c # 0 => c <= d
    BY <1>2, <2>1 DEF Before
  <2>3. d # 0 => d <= c
    BY <1>2, <2>1 DEF Before
  <2> QED BY <2>1, <2>2, <2>3
<1> QED BY <1>1, <1>2

\* Between the neighbours of c there is c only.
LEMMA Between ==
    ASSUME NEW F \in SUBSET (Nat \ {0}), NEW c \in Nat \ {0}, NEW p, NEW n,
           Before(F, c, p), After(F, c, n)
    PROVE  /\ p \in F \cup {0} /\ n \in F \cup {0} /\ p \in Nat /\ n \in Nat
           /\ p < c /\ (n # 0 => c < n) /\ p # c /\ n # c
           /\ \A a \in F : a = c \/ a <= p \/ (n # 0 /\ n <= a)
           /\ p # 0 => p \in F
           /\ n # 0 => n \in F
<1>1. p \in F \cup {0} /\ n \in F \cup {0} /\ p < c /\ (n # 0 => c < n)
  BY DEF Before, After
<1>2. p \in Nat /\ n \in Nat
  BY <1>1
<1>3. \A a \in F : (a < c => a <= p) /\ (c < a => n # 0 /\ n <= a)
  BY DEF Before, After
<1>4. \A a \in F : a \in Nat /\ (a = c \/ a < c \/ c < a)
  OBVIOUS
<1> QED BY <1>1, <1>2, <1>3, <1>4

\* What comes after or before a block when c is taken out.
LEMMA Skip ==
    ASSUME NEW F \in SUBSET (Nat \ {0}), NEW c \in Nat, c \in F,
           NEW p \in Nat, NEW n \in Nat, Before(F, c, p), After(F, c, n)
    PROVE  /\ After(F \ {c}, p, n) /\ (n # 0 => Before(F \ {c}, n, p))
           /\ \A b \in (F \ {c}) \cup {0} : \A m :
                 b # p /\ After(F, b, m) => After(F \ {c}, b, m)
           /\ \A b \in F \ {c} : \A m :
                 b # n /\ Before(F, b, m) => Before(F \ {c}, b, m)
<1>1. /\ p \in F \cup {0} /\ n \in F \cup {0} /\ p \in Nat /\ n \in Nat /\ c \in Nat
      /\ p < c /\ (n # 0 => c < n) /\ p # c /\ n # c
      /\ \A a \in F : a = c \/ a <= p \/ (n # 0 /\ n <= a)
  BY Between
<1>2. After(F \ {c}, p, n)
  <2>1. n \in (F \ {c}) \cup {0} /\ (n # 0 => p < n)
    BY <1>1
  <2>2. \A a \in F \ {c} : p < a => n # 0 /\ n <= a
    BY <1>1
  <2> QED BY <2>1, <2>2 DEF After
<1>3. n # 0 => Before(F \ {c}, n, p)
  <2>1. p \in (F \ {c}) \cup {0} /\ (n # 0 => p < n)
    BY <1>1
  <2>2. n # 0 => \A a \in F \ {c} : a < n => a <= p
    BY <1>1
  <2> QED BY <2>1, <2>2 DEF Before
<1>4. ASSUME NEW b \in (F \ {c}) \cup {0}, NEW m, b # p, After(F, b, m)
      PROVE  After(F \ {c}, b, m)
  <2>1. m \in F \cup {0} /\ (m # 0 => b < m) /\ \A a \in F : b < a => m # 0 /\ m <= a
    BY <1>4 DEF After
  <2>2. ASSUME m = c PROVE FALSE
    <3>1. b < c /\ b \in Nat
      BY <2>1, <2>2, <1>1
    <3>2. b <= p
      BY <3>1, <1>1
    <3>3. b < p /\ p # 0
      BY <3>1, <3>2, <1>4, <1>1
    <3> QED BY <3>3, <2>1, <2>2, <1>1
  <2> QED BY <2>1, <2>2 DEF After
<1>5. ASSUME NEW b \in F \ {c}, NEW m, b # n, Before(F, b, m)
      PROVE  Before(F \ {c}, b, m)
  <2>1. m \in F \cup {0} /\ m < b /\ \A a \in F : a < b => a <= m
    BY <1>5 DEF Before
  <2>2. ASSUME m = c PROVE FALSE
    <3>1. c < b /\ b \in Nat
      BY <2>1, <2>2, <1>1
    <3>2. n # 0 /\ n <= b
      BY <3>1, <1>1
    <3>3. n < b /\ n \in F
      BY <3>1, <3>2, <1>5, <1>1
    <3> QED BY <3>2, <3>3, <2>1, <2>2, <1>1
  <2> QED BY <2>1, <2>2 DEF Before
<1> QED BY <1>2, <1>3, <1>4, <1>5

\* What comes after or before a block when c is put in.
LEMMA Insert ==
    ASSUME NEW F \in SUBSET (Nat \ {0}), NEW c \in Nat \ {0}, c \notin F,
           NEW p \in Nat, NEW n \in Nat, Before(F, c, p), After(F, c, n)
    PROVE  /\ After(F \cup {c}, p, c) /\ After(F \cup {c}, c, n) /\ Before(F \cup {c}, c, p)
           /\ n # 0 => Before(F \cup {c}, n, c)
           /\ \A b \in F \cup {0} : \A m :
                 b # p /\ After(F, b, m) => After(F \cup {c}, b, m)
           /\ \A b \in F : \A m :
                 b # n /\ Before(F, b, m) => Before(F \cup {c}, b, m)
<1>1. /\ p \in F \cup {0} /\ n \in F \cup {0} /\ p \in Nat /\ n \in Nat /\ c \in Nat
      /\ p < c /\ (n # 0 => c < n) /\ p # c /\ n # c
      /\ \A a \in F : a = c \/ a <= p \/ (n # 0 /\ n <= a)
  BY Between
<1>2. After(F \cup {c}, p, c)
  <2>1. \A a \in F \cup {c} : p < a => c # 0 /\ c <= a
    BY <1>1
  <2> QED BY <1>1, <2>1 DEF After
<1>3. n # 0 => Before(F \cup {c}, n, c)
  <2>1. n # 0 => \A a \in F \cup {c} : a < n => a <= c
    BY <1>1
  <2> QED BY <1>1, <2>1 DEF Before
<1>4. ASSUME NEW b \in F \cup {0}, NEW m, b # p, After(F, b, m) PROVE After(F \cup {c}, b, m)
  <2>1. m \in F \cup {0} /\ (m # 0 => b < m) /\ \A a \in F : b < a => m # 0 /\ m <= a
    BY <1>4 DEF After
  <2>2. ASSUME b < c PROVE m # 0 /\ m <= c
    <3>1. b \in Nat /\ b < p /\ p \in F
      BY <2>2, <1>1, <1>4
    <3> QED BY <3>1, <2>1, <1>1
  <2> QED BY <2>1, <2>2 DEF After
<1>5. ASSUME NEW b \in F, NEW m, b # n, Before(F, b, m) PROVE Before(F \cup {c}, b, m)
  <2>1. m \in F \cup {0} /\ m < b /\ \A a \in F : a < b => a <= m
    BY <1>5 DEF Before
  <2>2. ASSUME c < b PROVE c <= m
    <3>1. b \in Nat /\ n # 0 /\ n <= b
      BY <2>2, <1>1
    <3>2. n < b /\ n \in F
      BY <3>1, <1>5, <1>1
    <3> QED BY <3>1, <3>2, <2>1, <1>1
  <2> QED BY <2>1, <2>2 DEF Before
<1>6. After(F \cup {c}, c, n) /\ Before(F \cup {c}, c, p)
  BY <1>1 DEF Before, After
<1> QED BY <1>2, <1>3, <1>4, <1>5, <1>6

\* h2 is h without c, or with c, in a list of F: the neighbours p and n of c
\* are linked to each other, or to it.
TakenOut(h, h2, F, c, p, n) ==
    /\ F \in SUBSET (Nat \ {0}) /\ c \in F /\ c \in Nat /\ p \in Nat /\ n \in Nat
    /\ h[c].prev = p /\ h[c].next = n
    /\ \A a \in F \ {c} : /\ h2[a].next = IF a = p THEN n ELSE h[a].next
                          /\ h2[a].prev = IF a = n THEN p ELSE h[a].prev
PutIn(h, h2, F, c, p, n) ==
    /\ F \in SUBSET (Nat \ {0}) /\ c \notin F /\ c \in Nat \ {0} /\ p \in Nat /\ n \in Nat
    /\ Before(F, c, p) /\ After(F, c, n)
    /\ h2[c].prev = p /\ h2[c].next = n
    /\ \A a \in F : /\ h2[a].next = IF a = p THEN c ELSE h[a].next
                    /\ h2[a].prev = IF a = n THEN c ELSE h[a].prev

\* Taking c out of a list.
LEMMA Unlink ==
    ASSUME NEW h, NEW h2, NEW F, NEW c, NEW p, NEW n, NEW first,
           TakenOut(h, h2, F, c, p, n), Linked(h, first, F)
    PROVE  /\ p = 0 => Linked(h2, n, F \ {c})
           /\ p # 0 => Linked(h2, first, F \ {c})
<1>1. /\ F \in SUBSET (Nat \ {0}) /\ c \in F /\ c \in Nat /\ p \in Nat /\ n \in Nat
      /\ h[c].prev = p /\ h[c].next = n
      /\ \A a \in F \ {c} : /\ h2[a].next = IF a = p THEN n ELSE h[a].next
                            /\ h2[a].prev = IF a = n THEN p ELSE h[a].prev
  BY DEF TakenOut
<1>2. Before(F, c, p) /\ After(F, c, n) /\ After(F, 0, first)
  BY <1>1 DEF Linked
<1>3. /\ After(F \ {c}, p, n) /\ (n # 0 => Before(F \ {c}, n, p))
      /\ \A b \in (F \ {c}) \cup {0} : \A m :
            b # p /\ After(F, b, m) => After(F \ {c}, b, m)
      /\ \A b \in F \ {c} : \A m :
            b # n /\ Before(F, b, m) => Before(F \ {c}, b, m)
  BY <1>1, <1>2, Skip
<1>4. ASSUME NEW b \in F \ {c} PROVE After(F \ {c}, b, h2[b].next) /\ Before(F \ {c}, b, h2[b].prev)
  <2>1. After(F, b, h[b].next) /\ Before(F, b, h[b].prev)
    BY DEF Linked
  <2>2. b # 0 /\ b \in (F \ {c}) \cup {0}
    BY <1>1
  <2>3. After(F \ {c}, b, h2[b].next)
    BY <1>1, <1>3, <2>1, <2>2
  <2>4. Before(F \ {c}, b, h2[b].prev)
    BY <1>1, <1>3, <2>1, <2>2
  <2> QED BY <2>3, <2>4
<1>5. ASSUME p # 0 PROVE After(F \ {c}, 0, first)
  BY <1>2, <1>3, <1>5
<1> QED BY <1>3, <1>4, <1>5 DEF Linked

\* Putting c in, where it belongs.
LEMMA Link ==
    ASSUME NEW h, NEW h2, NEW F, NEW c, NEW p, NEW n, NEW first,
           PutIn(h, h2, F, c, p, n), Linked(h, first, F)
    PROVE  /\ p = 0 => Linked(h2, c, F \cup {c})
           /\ p # 0 => Linked(h2, first, F \cup {c})
<1>1. /\ F \in SUBSET (Nat \ {0}) /\ c \notin F /\ c \in Nat \ {0} /\ p \in Nat /\ n \in Nat
      /\ Before(F, c, p) /\ After(F, c, n)
      /\ h2[c].prev = p /\ h2[c].next = n
      /\ \A a \in F : /\ h2[a].next = IF a = p THEN c ELSE h[a].next
                      /\ h2[a].prev = IF a = n THEN c ELSE h[a].prev
  BY DEF PutIn
<1>2. After(F, 0, first)
  BY DEF Linked
<1>3. /\ After(F \cup {c}, p, c) /\ After(F \cup {c}, c, n) /\ Before(F \cup {c}, c, p)
      /\ n # 0 => Before(F \cup {c}, n, c)
      /\ \A b \in F \cup {0} : \A m :
            b # p /\ After(F, b, m) => After(F \cup {c}, b, m)
      /\ \A b \in F : \A m :
            b # n /\ Before(F, b, m) => Before(F \cup {c}, b, m)
  BY <1>1, Insert
<1>4. ASSUME NEW b \in F PROVE After(F \cup {c}, b, h2[b].next) /\ Before(F \cup {c}, b, h2[b].prev)
  <2>1. After(F, b, h[b].next) /\ Before(F, b, h[b].prev)
    BY DEF Linked
  <2>2. b # 0 /\ b \in F \cup {0}
    BY <1>1
  <2>3. After(F \cup {c}, b, h2[b].next)
    BY <1>1, <1>3, <2>1, <2>2
  <2>4. Before(F \cup {c}, b, h2[b].prev)
    BY <1>1, <1>3, <2>1, <2>2
  <2> QED BY <2>3, <2>4
<1>5. After(F \cup {c}, c, h2[c].next) /\ Before(F \cup {c}, c, h2[c].prev)
  BY <1>1, <1>3
<1>6. ASSUME p # 0 PROVE After(F \cup {c}, 0, first)
  BY <1>2, <1>3, <1>6
<1> QED BY <1>3, <1>4, <1>5, <1>6 DEF Linked

-----------------------------------------------------------------------------
(* Splitting and joining blocks *)

\* Tiles, in numbers.
LEMMA Tiles ==
    ASSUME NEW h, Tiled(h), NEW b \in DOMAIN h
    PROVE  /\ b \in Nat \ {0} /\ h[b] \in Headers /\ h[b].size \in Nat \ {0}
           /\ h[b].next \in Nat /\ h[b].prev \in Nat /\ h[b].sanity_check \in Nat
           /\ EndIn(h, b) \in Nat /\ b < EndIn(h, b)
           /\ b % 16 = 0 /\ InRegion(h, b)
           /\ \A a \in DOMAIN h : a < b => EndIn(h, a) <= b
           /\ \A a \in DOMAIN h : b < a => EndIn(h, b) <= a
BY DEF Tiled, EndIn, Headers

\* What a change that keeps the blocks and their sizes keeps.
LEMMA SameTiles ==
    ASSUME NEW h, Tiled(h), NEW h2 \in [DOMAIN h -> Headers],
           \A b \in DOMAIN h : h2[b].size = h[b].size
    PROVE  Tiled(h2) /\ \A b \in DOMAIN h : EndIn(h2, b) = EndIn(h, b)
<1>1. DOMAIN h2 = DOMAIN h /\ \A b \in DOMAIN h : EndIn(h2, b) = EndIn(h, b)
  BY DEF EndIn
<1> QED BY <1>1 DEF Tiled, InRegion

\* split_free_block, field by field.
LEMMA SplitFields ==
    ASSUME NEW h, Tiled(h), NEW c \in Nat \ {0}, c \in DOMAIN h, NEW r \in Nat \ {0}, r < h[c].size,
           c + r \notin DOMAIN h, h[c].next \in DOMAIN h \cup {0}, h[c].next # c
    PROVE  LET s == split_free_block(h, c, r)
           IN  /\ s \in [DOMAIN h \cup {c + r} -> Headers]
               /\ s[c].size = r /\ s[c].next = c + r /\ s[c].prev = h[c].prev
               /\ s[c + r].size = h[c].size - r /\ s[c + r].next = h[c].next /\ s[c + r].prev = c
               /\ \A a \in DOMAIN h \ {c} :
                     /\ s[a].size = h[a].size /\ s[a].next = h[a].next
                     /\ s[a].prev = IF a = h[c].next THEN c + r ELSE h[a].prev
               /\ \A a \in DOMAIN h : s[a].sanity_check = h[a].sanity_check
<1> DEFINE D == DOMAIN h \cup {c + r}
           e == [h EXCEPT ![c].size = r, ![c].next = c + r]
           t == put(e, c + r, other_half(h, c, r))
           s == split_free_block(h, c, r)
<1>1. /\ DOMAIN h \subseteq Nat \ {0} /\ h \in [DOMAIN h -> Headers] /\ h[c] \in Headers
      /\ h[c].size \in Nat /\ h[c].next \in Nat /\ h[c].prev \in Nat /\ c \in Nat \ {0}
  BY Tiles DEF Tiled
<1>2. c + r \in Nat \ {0} /\ c + r # c /\ D \in SUBSET (Nat \ {0})
  BY <1>1
<1>3. other_half(h, c, r) \in Headers
  BY <1>1 DEF other_half, Headers
<1>4. e \in [DOMAIN h -> Headers]
  BY <1>1, <1>2 DEF Headers
<1>5. \A a \in DOMAIN h :
         /\ e[a].size = IF a = c THEN r ELSE h[a].size
         /\ e[a].next = IF a = c THEN c + r ELSE h[a].next
         /\ e[a].prev = h[a].prev /\ e[a].sanity_check = h[a].sanity_check
  BY <1>1 DEF Headers
<1> HIDE DEF e
<1>6. t \in [D -> Headers] /\ t[c + r] = other_half(h, c, r) /\ \A a \in DOMAIN h : t[a] = e[a]
  BY <1>2, <1>3, <1>4 DEF put
<1>7. s = set_prev(t, h[c].next, c + r)
  BY <1>1 DEF split_free_block, e
<1> HIDE DEF t, s
<1>8. D = DOMAIN h \cup {c + r} /\ h[c].next \in D \cup {0}
  OBVIOUS
<1> HIDE DEF D
<1>9. /\ s \in [D -> Headers]
      /\ \A a \in D : /\ s[a].prev = IF a = h[c].next THEN c + r ELSE t[a].prev
                      /\ s[a].next = t[a].next /\ s[a].size = t[a].size
                      /\ s[a].sanity_check = t[a].sanity_check
  <2>1. c + r \in Nat
    BY <1>2
  <2> DEFINE n == h[c].next  to == c + r  u == set_prev(t, n, to)
  <2>2. D \in SUBSET (Nat \ {0}) /\ t \in [D -> Headers] /\ n \in D \cup {0} /\ to \in Nat
    BY <1>2, <1>6, <1>8, <2>1
  <2>3. u = s
    BY <1>7
  <2> HIDE DEF n, to
  <2>4. /\ u \in [D -> Headers]
        /\ \A a \in D : /\ u[a].prev = IF a = n THEN to ELSE t[a].prev
                        /\ u[a].next = t[a].next /\ u[a].size = t[a].size
                        /\ u[a].sanity_check = t[a].sanity_check
    BY <2>2, SetPrev
  <2> HIDE DEF u
  <2> QED BY <2>3, <2>4 DEF n, to
<1>10. h[c].next # c + r
  BY <1>2, <1>1
<1>11. /\ t[c + r].size = h[c].size - r /\ t[c + r].prev = c /\ t[c + r].next = h[c].next
  BY <1>6 DEF other_half
<1>12. s[c].size = r /\ s[c].next = c + r /\ s[c].prev = h[c].prev
  BY <1>5, <1>6, <1>8, <1>9
<1>13. s[c + r].size = h[c].size - r /\ s[c + r].next = h[c].next /\ s[c + r].prev = c
  BY <1>8, <1>9, <1>10, <1>11
<1>14. \A a \in DOMAIN h : s[a].sanity_check = h[a].sanity_check
  BY <1>5, <1>6, <1>8, <1>9
<1>15. \A a \in DOMAIN h \ {c} :
          /\ s[a].size = h[a].size /\ s[a].next = h[a].next
          /\ s[a].prev = IF a = h[c].next THEN c + r ELSE h[a].prev
  BY <1>5, <1>6, <1>8, <1>9
<1> QED BY <1>8, <1>9, <1>12, <1>13, <1>14, <1>15 DEF s

\* s is h, but for the free block c, which is two blocks now.
Splits(h, s, c, r) ==
    /\ c + r \notin DOMAIN h /\ DOMAIN s = DOMAIN h \cup {c + r} /\ Tiled(s)
    /\ EndIn(s, c) = c + r /\ EndIn(s, c + r) = EndIn(h, c)
    /\ \A a \in DOMAIN h \ {c} : s[a].size = h[a].size /\ EndIn(s, a) = EndIn(h, a)
    /\ \A a \in DOMAIN h : s[a].sanity_check = h[a].sanity_check

\* c is one of the free blocks F of h, and larger than r.
Larger(h, first, F, c, r) ==
    /\ Tiled(h) /\ Linked(h, first, F) /\ F \in SUBSET DOMAIN h /\ c \in F
    /\ r \in Nat \ {0} /\ r % 16 = 0 /\ r < h[c].size

\* Splitting a free block makes one more of it.
LEMMA SplitTiles ==
    ASSUME NEW h, NEW first, NEW F, NEW c, NEW r, Larger(h, first, F, c, r)
    PROVE  LET s == split_free_block(h, c, r)
           IN  Splits(h, s, c, r) /\ Linked(s, first, F \cup {c + r})
<1>0. /\ Tiled(h) /\ Linked(h, first, F) /\ F \in SUBSET DOMAIN h /\ c \in F
      /\ r \in Nat \ {0} /\ r % 16 = 0 /\ r < h[c].size
  BY DEF Larger
<1> USE <1>0
<1> DEFINE s == split_free_block(h, c, r)
<1>1. /\ c \in Nat \ {0} /\ h[c].size \in Nat /\ EndIn(h, c) \in Nat /\ c < EndIn(h, c)
      /\ h[c].next \in Nat /\ EndIn(h, c) = c + h[c].size /\ DOMAIN h \in SUBSET (Nat \ {0})
  BY Tiles DEF EndIn, Tiled
<1>2. c + r \in Nat \ {0} /\ c < c + r /\ c + r < EndIn(h, c)
  BY <1>1
<1>3. \A a \in DOMAIN h : (c < a => EndIn(h, c) <= a) /\ (a < c => EndIn(h, a) <= c)
  BY Tiles
<1>4. c + r \notin DOMAIN h
  <2>1. c + r \in DOMAIN h => EndIn(h, c) <= c + r
    BY <1>2, <1>3
  <2> QED BY <1>1, <1>2, <2>1
<1>5. After(F, c, h[c].next) /\ Before(F, c, h[c].prev)
  BY DEF Linked
<1>6. h[c].next \in DOMAIN h \cup {0} /\ h[c].next # c /\ (h[c].next # 0 => c < h[c].next)
  BY <1>1, <1>5 DEF After
<1>7. /\ s \in [DOMAIN h \cup {c + r} -> Headers]
      /\ s[c].size = r /\ s[c].next = c + r /\ s[c].prev = h[c].prev
      /\ s[c + r].size = h[c].size - r /\ s[c + r].next = h[c].next /\ s[c + r].prev = c
      /\ \A a \in DOMAIN h \ {c} :
            /\ s[a].size = h[a].size /\ s[a].next = h[a].next
            /\ s[a].prev = IF a = h[c].next THEN c + r ELSE h[a].prev
      /\ \A a \in DOMAIN h : s[a].sanity_check = h[a].sanity_check
  <2>1. c \in Nat \ {0} /\ c \in DOMAIN h /\ r \in Nat \ {0} /\ r < h[c].size
    BY <1>1
  <2> QED BY <2>1, <1>4, <1>6, SplitFields DEF s
<1> HIDE DEF s
<1>8. Before(F, c + r, c)
  <2>1. \A a \in F : a < c + r => a <= c
    BY <1>1, <1>2, <1>3
  <2> QED BY <1>2, <2>1 DEF Before
<1>9. After(F, c + r, h[c].next)
  <2>1. h[c].next # 0 => c + r < h[c].next
    BY <1>1, <1>2, <1>3, <1>6
  <2>2. \A a \in F : c + r < a => c < a
    BY <1>1, <1>2
  <2> QED BY <1>5, <2>1, <2>2 DEF After
<1>10. Linked(s, first, F \cup {c + r})
  <2>1. \A a \in F : /\ s[a].next = IF a = c THEN c + r ELSE h[a].next
                     /\ s[a].prev = IF a = h[c].next THEN c + r ELSE h[a].prev
    BY <1>6, <1>7
  <2>2. F \in SUBSET (Nat \ {0}) /\ c + r \notin F /\ c # 0
    BY <1>1, <1>4
  <2> DEFINE d == c + r  n == h[c].next
  <2>3. /\ d \in Nat \ {0} /\ d \notin F /\ s[d].next = n /\ s[d].prev = c
        /\ Before(F, d, c) /\ After(F, d, n) /\ c \in Nat /\ n \in Nat
    BY <1>1, <1>2, <1>7, <1>8, <1>9, <2>2
  <2>4. PutIn(h, s, F, d, c, n)
    BY <2>1, <2>2, <2>3 DEF PutIn
  <2> HIDE DEF d, n
  <2>5. Linked(s, first, F \cup {d})
    BY <2>2, <2>4, Link
  <2> QED BY <2>5 DEF d
<1>11. /\ EndIn(s, c) = c + r /\ EndIn(s, c + r) = EndIn(h, c)
       /\ \A a \in DOMAIN h \ {c} : EndIn(s, a) = EndIn(h, a)
  BY <1>1, <1>7 DEF EndIn
<1>12. Tiled(s)
  <2> DEFINE D == DOMAIN h \cup {c + r}
  <2>1. DOMAIN s = D /\ D \subseteq Nat \ {0} /\ {memstart, HOLEEND} \subseteq D
    BY <1>1, <1>2, <1>7 DEF Tiled
  <2>2. ASSUME NEW b \in D PROVE b % 16 = 0 /\ InRegion(s, b)
    <3>1. CASE b = c
      <4>1. c % 16 = 0 /\ InRegion(h, c)
        BY Tiles
      <4> QED BY <1>1, <1>2, <1>11, <3>1, <4>1, Layout DEF InRegion
    <3>2. CASE b = c + r
      <4>1. c % 16 = 0 /\ InRegion(h, c)
        BY Tiles
      <4>2. (c + r) % 16 = 0
        BY <4>1, <1>1
      <4> QED BY <1>1, <1>2, <1>11, <3>2, <4>1, <4>2, Layout DEF InRegion
    <3>3. CASE b \in DOMAIN h \ {c}
      <4>1. b % 16 = 0 /\ InRegion(h, b)
        BY <3>3, Tiles
      <4> QED BY <1>11, <3>3, <4>1 DEF InRegion
    <3> QED BY <3>1, <3>2, <3>3
  <2>3. ASSUME NEW b \in D PROVE EndIn(s, b) \in D \cup {HOLESTART, maxaddr}
    <3>1. \A a \in DOMAIN h : EndIn(h, a) \in DOMAIN h \cup {HOLESTART, maxaddr}
      BY DEF Tiled
    <3> QED BY <1>11, <3>1
  <2>4. ASSUME NEW a \in D, NEW b \in D, a < b PROVE EndIn(s, a) <= b
    <3>1. CASE a = c
      BY <1>1, <1>2, <1>3, <1>11, <2>4, <3>1
    <3>2. CASE a = c + r
      BY <1>1, <1>2, <1>3, <1>11, <2>4, <3>2
    <3>3. CASE a \in DOMAIN h \ {c} /\ b = c + r
      <4>1. a < c /\ EndIn(h, a) \in Nat
        BY <1>1, <1>2, <1>3, <2>4, <3>3, Tiles
      <4>2. EndIn(s, a) <= c
        BY <1>3, <1>11, <3>3, <4>1
      <4> QED BY <1>1, <1>2, <1>11, <3>3, <4>1, <4>2
    <3>4. CASE a \in DOMAIN h \ {c} /\ b \in DOMAIN h
      <4>1. EndIn(h, a) <= b
        BY <2>4, <3>4, Tiles
      <4> QED BY <1>11, <3>4, <4>1
    <3> QED BY <3>1, <3>2, <3>3, <3>4
  <2> QED BY <1>7, <2>1, <2>2, <2>3, <2>4 DEF Tiled
<1> QED BY <1>4, <1>7, <1>10, <1>11, <1>12 DEF s, Splits

\* coalesce_blocks of two blocks that touch, field by field.
LEMMA JoinFields ==
    ASSUME NEW h, Tiled(h), NEW b1 \in Nat \ {0}, b1 \in DOMAIN h, NEW b2 \in Nat \ {0}, b2 \in DOMAIN h,
           b1 # b2, EndIn(h, b1) = b2,
           h[b2].next \in DOMAIN h \cup {0}, h[b2].next # b1, h[b2].next # b2
    PROVE  LET j == coalesce_blocks(h, b1, b2)
           IN  /\ j \in [DOMAIN h \ {b2} -> Headers]
               /\ j[b1].size = h[b1].size + h[b2].size
               /\ j[b1].next = h[b2].next /\ j[b1].prev = h[b1].prev
               /\ \A a \in DOMAIN h \ {b1, b2} :
                     /\ j[a].size = h[a].size /\ j[a].next = h[a].next
                     /\ j[a].prev = IF a = h[b2].next THEN b1 ELSE h[a].prev
               /\ \A a \in DOMAIN h \ {b2} : j[a].sanity_check = h[a].sanity_check
<1> DEFINE D == DOMAIN h \ {b2}
           n == h[b2].next
           e == [h EXCEPT ![b1].next = n, ![b1].size = @ + h[b2].size]
           t == [a \in D |-> e[a]]
           j == coalesce_blocks(h, b1, b2)
<1>1. /\ DOMAIN h \subseteq Nat \ {0} /\ h \in [DOMAIN h -> Headers]
      /\ h[b1] \in Headers /\ h[b1].size \in Nat \ {0} /\ h[b2].size \in Nat \ {0} /\ n \in Nat
  BY Tiles DEF Tiled
<1>2. D \in SUBSET (Nat \ {0}) /\ b1 \in D /\ n \in D \cup {0} /\ n \in Nat
  BY <1>1
<1>3. e \in [DOMAIN h -> Headers]
  <2>1. h[b1].size + h[b2].size \in Nat \ {0}
    BY <1>1
  <2>2. [h[b1] EXCEPT !.next = n, !.size = @ + h[b2].size] \in Headers
    BY <1>1, <2>1 DEF Headers
  <2> QED BY <1>1, <2>2
<1>4. \A a \in DOMAIN h :
         /\ e[a].size = IF a = b1 THEN h[b1].size + h[b2].size ELSE h[a].size
         /\ e[a].next = IF a = b1 THEN n ELSE h[a].next
         /\ e[a].prev = h[a].prev /\ e[a].sanity_check = h[a].sanity_check
  BY <1>1 DEF Headers
<1>5. j = set_prev(t, n, b1)
  BY <1>1 DEF coalesce_blocks, EndIn
<1> HIDE DEF e
<1>6. t \in [D -> Headers] /\ \A a \in D : t[a] = e[a]
  BY <1>3
<1> HIDE DEF t, j, n
<1>7. D = DOMAIN h \ {b2}
  OBVIOUS
<1> HIDE DEF D
<1>8. /\ j \in [D -> Headers]
      /\ \A a \in D : /\ j[a].prev = IF a = n THEN b1 ELSE t[a].prev
                      /\ j[a].next = t[a].next /\ j[a].size = t[a].size
                      /\ j[a].sanity_check = t[a].sanity_check
  <2> DEFINE u == set_prev(t, n, b1)
  <2>1. /\ u \in [D -> Headers]
        /\ \A a \in D : /\ u[a].prev = IF a = n THEN b1 ELSE t[a].prev
                        /\ u[a].next = t[a].next /\ u[a].size = t[a].size
                        /\ u[a].sanity_check = t[a].sanity_check
    BY <1>2, <1>6, SetPrev
  <2> QED BY <1>5, <2>1
<1>9. \A a \in D : a \in DOMAIN h /\ t[a] = e[a]
  BY <1>6, <1>7
<1>10. b1 # n
  BY DEF n
<1>11. j[b1].size = h[b1].size + h[b2].size /\ j[b1].next = n /\ j[b1].prev = h[b1].prev
  BY <1>2, <1>4, <1>8, <1>9, <1>10
<1>12. \A a \in DOMAIN h \ {b1, b2} :
          /\ j[a].size = h[a].size /\ j[a].next = h[a].next
          /\ j[a].prev = IF a = n THEN b1 ELSE h[a].prev
  BY <1>4, <1>7, <1>8, <1>9
<1>13. \A a \in DOMAIN h \ {b2} : j[a].sanity_check = h[a].sanity_check
  BY <1>4, <1>7, <1>8, <1>9
<1> QED BY <1>7, <1>8, <1>11, <1>12, <1>13 DEF j, n

\* b1 and b2 follow each other in the list of the blocks F, and touch.
Adjacent(h, first, F, b1, b2) ==
    /\ Tiled(h) /\ F \in SUBSET DOMAIN h /\ Linked(h, first, F)
    /\ b1 \in F /\ b2 \in F /\ h[b1].next = b2 /\ EndIn(h, b1) = b2

\* j is h, but b2 is a part of b1.
Merges(h, j, b1, b2) ==
    /\ DOMAIN j = DOMAIN h \ {b2} /\ Tiled(j) /\ EndIn(j, b1) = EndIn(h, b2)
    /\ \A a \in DOMAIN h \ {b1, b2} : EndIn(j, a) = EndIn(h, a)
    /\ \A a \in DOMAIN h \ {b2} : j[a].sanity_check = h[a].sanity_check

\* Two free blocks that touch become one.
LEMMA JoinTiles ==
    ASSUME NEW h, NEW first, NEW F, NEW b1, NEW b2, Adjacent(h, first, F, b1, b2)
    PROVE  LET j == coalesce_blocks(h, b1, b2)
           IN  Merges(h, j, b1, b2) /\ Linked(j, first, F \ {b2})
<1>0. /\ Tiled(h) /\ F \in SUBSET DOMAIN h /\ Linked(h, first, F)
      /\ b1 \in F /\ b2 \in F /\ h[b1].next = b2 /\ EndIn(h, b1) = b2
  BY DEF Adjacent
<1> USE <1>0
<1> DEFINE j == coalesce_blocks(h, b1, b2)
           n == h[b2].next
<1>1. /\ DOMAIN h \in SUBSET (Nat \ {0}) /\ F \in SUBSET (Nat \ {0})
      /\ b1 \in Nat \ {0} /\ b2 \in Nat \ {0} /\ b1 \in DOMAIN h /\ b2 \in DOMAIN h
      /\ h[b1].size \in Nat /\ h[b2].size \in Nat /\ n \in Nat /\ h[b2].prev \in Nat
      /\ EndIn(h, b2) \in Nat /\ b2 < EndIn(h, b2) /\ b1 < b2
      /\ b2 = b1 + h[b1].size /\ EndIn(h, b2) = b2 + h[b2].size
  BY Tiles DEF EndIn, Tiled
<1>2. After(F, b1, b2) /\ Before(F, b2, h[b2].prev) /\ After(F, b2, n)
  BY DEF Linked
<1>3. n \in F \cup {0} /\ (n # 0 => b2 < n) /\ n # b1 /\ n # b2
  BY <1>1, <1>2 DEF After
<1>4. h[b2].prev = b1
  <2> DEFINE p == h[b2].prev
  <2>1. p \in Nat /\ p \in F \cup {0} /\ p < b2 /\ b1 <= p
    BY <1>1, <1>2 DEF Before
  <2>2. ~(b1 < p)
    BY <1>1, <1>2, <2>1 DEF After
  <2> QED BY <1>1, <2>1, <2>2
<1>5. /\ j \in [DOMAIN h \ {b2} -> Headers]
      /\ j[b1].size = h[b1].size + h[b2].size
      /\ j[b1].next = h[b2].next /\ j[b1].prev = h[b1].prev
      /\ \A a \in DOMAIN h \ {b1, b2} :
            /\ j[a].size = h[a].size /\ j[a].next = h[a].next
            /\ j[a].prev = IF a = h[b2].next THEN b1 ELSE h[a].prev
      /\ \A a \in DOMAIN h \ {b2} : j[a].sanity_check = h[a].sanity_check
  <2>1. h[b2].next \in DOMAIN h \cup {0} /\ b1 # b2
    BY <1>1, <1>3
  <2>2. h[b2].next # b1 /\ h[b2].next # b2
    BY <1>3
  <2>3. Tiled(h) /\ b1 \in Nat \ {0} /\ b1 \in DOMAIN h /\ b2 \in Nat \ {0} /\ b2 \in DOMAIN h
    BY <1>1
  <2> QED BY <2>1, <2>2, <2>3, JoinFields DEF j
<1> HIDE DEF j
<1>6. Linked(j, first, F \ {b2})
  <2>1. \A a \in F \ {b2} : /\ j[a].next = IF a = b1 THEN n ELSE h[a].next
                            /\ j[a].prev = IF a = n THEN b1 ELSE h[a].prev
    BY <1>3, <1>5
  <2>2. b2 \in F /\ b1 # 0
    BY <1>1
  <2>3. TakenOut(h, j, F, b2, b1, n)
    BY <1>1, <1>4, <2>1, <2>2 DEF TakenOut
  <2>4. /\ b1 = 0 => Linked(j, n, F \ {b2})
        /\ b1 # 0 => Linked(j, first, F \ {b2})
    <3>1. Linked(h, first, F)
      OBVIOUS
    <3> HIDE <1>0
    <3> QED BY <2>3, <3>1, Unlink
  <2> QED BY <2>2, <2>4
<1>7. /\ EndIn(j, b1) = EndIn(h, b2)
      /\ \A a \in DOMAIN h \ {b1, b2} : EndIn(j, a) = EndIn(h, a)
  BY <1>1, <1>5 DEF EndIn
<1>8. Tiled(j)
  <2> DEFINE D == DOMAIN h \ {b2}
  <2>1. InRegion(h, b1) /\ InRegion(h, b2) /\ memstart <= b1
    BY <1>1, Tiles, Layout DEF InRegion
  <2>2. DOMAIN j = D /\ D \subseteq Nat \ {0} /\ {memstart, HOLEEND} \subseteq D
    <3>1. {memstart, HOLEEND} \subseteq DOMAIN h
      BY DEF Tiled
    <3>2. b2 # memstart
      BY <1>1, <2>1, Layout
    <3>3. b2 # HOLEEND
      BY <1>1, <2>1, Layout DEF InRegion
    <3> QED BY <1>1, <1>5, <3>1, <3>2, <3>3
  <2>3. ASSUME NEW b \in D PROVE b % 16 = 0 /\ InRegion(j, b)
    <3>1. b % 16 = 0 /\ InRegion(h, b)
      BY Tiles
    <3>2. CASE b = b1
      BY <1>1, <1>7, <2>1, <3>1, <3>2, Layout DEF InRegion
    <3>3. CASE b # b1
      BY <1>7, <3>1, <3>3 DEF InRegion
    <3> QED BY <3>2, <3>3
  <2>4. ASSUME NEW b \in D PROVE EndIn(j, b) \in D \cup {HOLESTART, maxaddr}
    <3>1. \A a \in DOMAIN h : EndIn(h, a) \in DOMAIN h \cup {HOLESTART, maxaddr}
      BY DEF Tiled
    <3>2. CASE b = b1
      BY <1>1, <1>7, <3>1, <3>2
    <3>3. CASE b # b1
      <4>1. EndIn(h, b) # b2
        <5>1. b \in Nat /\ EndIn(h, b) \in Nat /\ b < EndIn(h, b)
          BY Tiles
        <5>2. b < b1 => EndIn(h, b) <= b1
          BY <1>1, Tiles
        <5>3. b1 < b => b2 <= b
          BY <1>1, Tiles
        <5> QED BY <1>1, <3>3, <5>1, <5>2, <5>3
      <4> QED BY <1>7, <3>1, <3>3, <4>1
    <3> QED BY <3>2, <3>3
  <2>5. ASSUME NEW a \in D, NEW b \in D, a < b PROVE EndIn(j, a) <= b
    <3>1. CASE a = b1
      <4>1. b2 <= b /\ b # b2 /\ b \in Nat
        BY <1>1, <2>5, <3>1, Tiles
      <4>2. EndIn(h, b2) <= b
        BY <1>1, <4>1, Tiles
      <4> QED BY <1>7, <3>1, <4>2
    <3>2. CASE a # b1
      <4>1. EndIn(h, a) <= b
        BY <2>5, Tiles
      <4> QED BY <1>7, <3>2, <4>1
    <3> QED BY <3>1, <3>2
  <2> QED BY <1>5, <2>2, <2>3, <2>4, <2>5 DEF Tiled
<1> QED BY <1>5, <1>6, <1>7, <1>8 DEF j, Merges

\* j is h, but for free blocks F of which only G are left.
Coalesces(h, j, F, G) ==
    /\ G \subseteq F /\ Tiled(j) /\ DOMAIN j = DOMAIN h \ (F \ G)
    /\ \A a \in DOMAIN h \ F : EndIn(j, a) = EndIn(h, a) /\ j[a].sanity_check = h[a].sanity_check

\* b1 and b2 are neighbours in the list of the blocks F, of which only the
\* pairs in S touch.
Neighbours(h, first, F, b1, b2, S) ==
    /\ Tiled(h) /\ F \in SUBSET DOMAIN h /\ Linked(h, first, F)
    /\ b1 \in F \cup {0} /\ b2 \in F \cup {0} /\ (b1 # 0 => h[b1].next = b2)
    /\ Touching(h, F, S) /\ (b2 # 0 => \A c : <<b2, c>> \notin S)

\* They do not touch any more.
Joined(h, j, first, F, b1, b2, S, G) ==
    /\ Coalesces(h, j, F, G) /\ F \ {b2} \subseteq G
    /\ Linked(j, first, G) /\ Touching(j, G, S \ {<<b1, b2>>})

\* coalesce_blocks of neighbours in the list.
LEMMA Coalesce ==
    ASSUME NEW h, NEW first, NEW F, NEW b1, NEW b2, NEW S, Neighbours(h, first, F, b1, b2, S)
    PROVE  \E G : Joined(h, coalesce_blocks(h, b1, b2), first, F, b1, b2, S, G)
<1>0. /\ Tiled(h) /\ F \in SUBSET DOMAIN h /\ Linked(h, first, F)
      /\ b1 \in F \cup {0} /\ b2 \in F \cup {0} /\ (b1 # 0 => h[b1].next = b2)
      /\ Touching(h, F, S) /\ (b2 # 0 => \A c : <<b2, c>> \notin S)
  BY DEF Neighbours
<1> USE <1>0
<1> DEFINE j == coalesce_blocks(h, b1, b2)
<1>1. CASE b1 = 0 \/ b2 = 0 \/ EndIn(h, b1) # b2
  <2>1. j = h
    BY <1>1 DEF coalesce_blocks, EndIn
  <2> HIDE DEF j
  <2>2. 0 \notin F
    BY DEF Tiled
  <2>3. Touching(h, F, S \ {<<b1, b2>>})
    <3> SUFFICES ASSUME NEW a \in F, NEW b \in F, EndIn(h, a) = b PROVE <<a, b>> \in S \ {<<b1, b2>>}
      BY DEF Touching
    <3>1. <<a, b>> \in S
      BY DEF Touching
    <3>2. a # b1 \/ b # b2
      BY <1>1, <2>2
    <3> QED BY <3>1, <3>2
  <2>4. Coalesces(h, h, F, F)
    BY DEF Coalesces
  <2> QED BY <2>1, <2>3, <2>4 DEF j, Joined
<1>2. CASE ~(b1 = 0 \/ b2 = 0 \/ EndIn(h, b1) # b2)
  <2>1. b1 \in F /\ b2 \in F /\ h[b1].next = b2 /\ EndIn(h, b1) = b2
    BY <1>2
  <2>2. /\ DOMAIN j = DOMAIN h \ {b2} /\ Tiled(j) /\ Linked(j, first, F \ {b2})
        /\ EndIn(j, b1) = EndIn(h, b2)
        /\ \A a \in DOMAIN h \ {b1, b2} : EndIn(j, a) = EndIn(h, a)
        /\ \A a \in DOMAIN h \ {b2} : j[a].sanity_check = h[a].sanity_check
    <3>1. Adjacent(h, first, F, b1, b2)
      BY <2>1 DEF Adjacent
    <3>2. Merges(h, j, b1, b2) /\ Linked(j, first, F \ {b2})
      BY <3>1, JoinTiles
    <3> QED BY <3>2 DEF Merges
  <2> HIDE DEF j
  <2>3. Coalesces(h, j, F, F \ {b2})
    <3>1. DOMAIN h \ (F \ (F \ {b2})) = DOMAIN h \ {b2}
      BY <2>1
    <3>2. \A a \in DOMAIN h \ F : a \in DOMAIN h \ {b1, b2} /\ a \in DOMAIN h \ {b2}
      BY <2>1
    <3> QED BY <2>2, <3>1, <3>2 DEF Coalesces
  <2>4. Touching(j, F \ {b2}, S \ {<<b1, b2>>})
    <3> SUFFICES ASSUME NEW a \in F \ {b2}, NEW b \in F \ {b2}, EndIn(j, a) = b
                 PROVE  <<a, b>> \in S \ {<<b1, b2>>}
      BY DEF Touching
    <3>1. CASE a = b1
      <4>1. EndIn(h, b2) = b
        BY <2>2, <3>1
      <4>2. <<b2, b>> \in S
        BY <2>1, <4>1 DEF Touching
      <4> QED BY <1>2, <4>2
    <3>2. CASE a # b1
      <4>1. EndIn(h, a) = b
        BY <2>2, <3>2
      <4>2. <<a, b>> \in S
        BY <4>1 DEF Touching
      <4> QED BY <4>2, <3>2
    <3> QED BY <3>1, <3>2
  <2> QED BY <2>2, <2>3, <2>4 DEF j, Joined
<1> QED BY <1>1, <1>2

-----------------------------------------------------------------------------
(* The walk along the free list *)

\* walk is the function that its definition says.
LEMMA WalkIs ==
    ASSUME NEW h, NEW first, NEW N \in Nat, Cardinality(DOMAIN h) = N
    PROVE  /\ walk(h, first)[0] = first
           /\ \A n \in 0..N : n # 0 =>
                 walk(h, first)[n] = IF walk(h, first)[n - 1] = 0 THEN 0
                                     ELSE h[walk(h, first)[n - 1]].next
<1> DEFINE next(x) == IF x = 0 THEN 0 ELSE h[x].next
           Walks(at, m) == at = [n \in 0..m |-> IF n = 0 THEN first ELSE next(at[n - 1])]
           T == {m \in Nat : \E at : Walks(at, m)}
<1> HIDE DEF next
<1>1. 0 \in T
  <2>1. Walks([n \in 0..0 |-> first], 0)
    BY SMT
  <2> QED BY <2>1
<1>2. ASSUME NEW m \in Nat, m \in T PROVE m + 1 \in T
  <2>1. PICK at : Walks(at, m)
    BY <1>2
  <2> DEFINE bt == [n \in 0..(m + 1) |-> IF n = m + 1 THEN next(at[m]) ELSE at[n]]
  <2>2. \A n \in 0..(m + 1) : n = m + 1 \/ n \in 0..m
    OBVIOUS
  <2>3. \A n \in 0..(m + 1) : n # 0 => n - 1 \in 0..m /\ n - 1 \in 0..(m + 1) /\ n - 1 # m + 1
    OBVIOUS
  <2>4. 0 \in 0..m /\ 0 \in 0..(m + 1) /\ 0 # m + 1
    OBVIOUS
  <2>5. bt[0] = first
    BY <2>1, <2>4
  <2>6. \A n \in 0..(m + 1) : n # 0 => bt[n] = next(bt[n - 1])
    <3>1. \A n \in 0..m : n # 0 => at[n] = next(at[n - 1])
      BY <2>1
    <3>2. \A n \in 0..(m + 1) : n # 0 => bt[n - 1] = at[n - 1]
      BY <2>3
    <3>3. \A n \in 0..(m + 1) : n = m + 1 => bt[n] = next(at[n - 1])
      OBVIOUS
    <3> QED BY <2>2, <3>1, <3>2, <3>3
  <2>7. bt = [n \in 0..(m + 1) |-> IF n = 0 THEN first ELSE next(bt[n - 1])]
    <3>1. \A n \in 0..(m + 1) : bt[n] = IF n = 0 THEN first ELSE next(bt[n - 1])
      BY <2>5, <2>6
    <3>2. bt = [n \in 0..(m + 1) |-> bt[n]]
      OBVIOUS
    <3> HIDE DEF bt
    <3> QED BY <3>1, <3>2
  <2>8. Walks(bt, m + 1)
    BY <2>7
  <2> HIDE DEF Walks
  <2> QED BY <2>8
<1>3. N \in T
  <2> HIDE DEF T
  <2> QED BY <1>1, <1>2, NatInduct
<1> DEFINE at == CHOOSE at : Walks(at, N)
<1>4. Walks(at, N)
  BY <1>3
<1>5. walk(h, first) = at
  BY DEF walk, next
<1> HIDE DEF at
<1>6. at[0] = first /\ \A n \in 0..N : n # 0 => at[n] = next(at[n - 1])
  BY <1>4
<1> QED BY <1>5, <1>6 DEF next

\* w goes through the blocks F in order in N steps.
Covers(w, F, N) ==
    /\ \A n \in 0..N : w[n] \in F \cup {0}
    /\ \A a \in F : \E n \in 0..N : w[n] = a
    /\ \A n \in 0..N : \A a \in F : w[n] # 0 /\ a < w[n] => \E m \in 0..N : m < n /\ w[m] = a

\* h and first are a list of F among N blocks.
ListOf(h, first, F, N) ==
    /\ F \in SUBSET (Nat \ {0}) /\ F \in SUBSET DOMAIN h /\ Linked(h, first, F)
    /\ IsFiniteSet(DOMAIN h) /\ N \in Nat /\ Cardinality(DOMAIN h) = N

\* It goes through the list in order, and N steps are enough.
LEMMA WalkCovers ==
    ASSUME NEW h, NEW first, NEW F, NEW N, ListOf(h, first, F, N)
    PROVE  Covers(walk(h, first), F, N)
<1>0. /\ F \in SUBSET (Nat \ {0}) /\ F \in SUBSET DOMAIN h /\ Linked(h, first, F)
      /\ IsFiniteSet(DOMAIN h) /\ N \in Nat /\ Cardinality(DOMAIN h) = N
  BY DEF ListOf
<1> USE <1>0
<1> DEFINE w == walk(h, first)
           Below(x) == {a \in F : x # 0 => a < x}
           Good(n) == /\ w[n] \in F \cup {0}
                      /\ \A a \in Below(w[n]) : \E m \in 0..N : m < n /\ w[m] = a
                      /\ w[n] # 0 => Cardinality(Below(w[n])) = n
           T == {n \in Nat : n \in 0..N => Good(n)}
<1>1. w[0] = first /\ \A n \in 0..N : n # 0 => w[n] = IF w[n - 1] = 0 THEN 0 ELSE h[w[n - 1]].next
  <2>1. N \in Nat /\ Cardinality(DOMAIN h) = N
    OBVIOUS
  <2> HIDE <1>0
  <2>2. /\ walk(h, first)[0] = first
        /\ \A n \in 0..N : n # 0 =>
              walk(h, first)[n] = IF walk(h, first)[n - 1] = 0 THEN 0
                                  ELSE h[walk(h, first)[n - 1]].next
    BY <2>1, WalkIs
  <2> QED BY <2>2
<1> HIDE DEF w
<1>2. IsFiniteSet(F) /\ Cardinality(F) <= N /\ Cardinality(F) \in Nat
  <2>1. IsFiniteSet(DOMAIN h) /\ F \in SUBSET DOMAIN h /\ Cardinality(DOMAIN h) = N
    OBVIOUS
  <2> HIDE <1>0
  <2>2. IsFiniteSet(F) /\ Cardinality(F) <= Cardinality(DOMAIN h)
    BY <2>1, FS_Subset
  <2> QED BY <2>1, <2>2, FS_CardinalityType
<1>3. 0 \in T
  <2>1. first \in F \cup {0} /\ (first = 0 => F = {}) /\ \A a \in F : first <= a
    <3>1. After(F, 0, first)
      BY <1>0 DEF Linked
    <3> QED BY <3>1 DEF After
  <2>2. Below(first) = {}
    <3>1. ASSUME NEW a \in F, first # 0 => a < first PROVE FALSE
      <4>1. a \in Nat /\ first \in Nat /\ first # 0
        BY <2>1
      <4> QED BY <2>1, <3>1, <4>1
    <3> QED BY <3>1
  <2>3. Cardinality(Below(first)) = 0
    BY <2>2, FS_EmptySet
  <2>4. Good(0)
    BY <1>1, <2>1, <2>2, <2>3
  <2> QED BY <2>4
<1>4. ASSUME NEW n \in Nat, n \in T PROVE n + 1 \in T
  <2> SUFFICES ASSUME n + 1 \in 0..N PROVE Good(n + 1)
    OBVIOUS
  <2>1. n \in 0..N /\ Good(n)
    BY <1>4
  <2>2. w[n + 1] = IF w[n] = 0 THEN 0 ELSE h[w[n]].next
    <3>1. n + 1 # 0 /\ (n + 1) - 1 = n
      OBVIOUS
    <3> QED BY <1>1, <3>1
  <2>3. CASE w[n] = 0
    <3>1. w[n + 1] = 0
      BY <2>2, <2>3
    <3>2. \A a \in F : \E m \in 0..N : m < n /\ w[m] = a
      BY <2>1, <2>3
    <3>3. \A m \in 0..N : m < n => m < n + 1
      OBVIOUS
    <3> QED BY <3>1, <3>2, <3>3
  <2>4. CASE w[n] # 0
    <3> DEFINE x == w[n]  y == w[n + 1]
    <3>1. x \in F /\ x \in Nat /\ y = h[x].next
      BY <2>1, <2>2, <2>4
    <3>2. After(F, x, y)
      BY <3>1 DEF Linked
    <3>3. y \in F \cup {0} /\ (y # 0 => x < y) /\ \A a \in F : x < a => y # 0 /\ y <= a
      BY <3>2 DEF After
    <3>4. Below(y) = Below(x) \cup {x} /\ x \notin Below(x)
      <4>1. \A a \in F : a < x \/ a = x \/ x < a
        <5>1. \A a \in F : a \in Nat
          OBVIOUS
        <5> HIDE DEF x
        <5> QED BY <3>1, <5>1
      <4>2. \A a \in F : (y # 0 => a < y) <=> a < x \/ a = x
        <5> TAKE a \in F
        <5>1. CASE y = 0
          BY <3>1, <3>3, <4>1, <5>1
        <5>2. CASE y # 0
          <6>1. y \in Nat /\ x < y
            BY <3>3, <5>2
          <6> QED BY <3>1, <3>3, <4>1, <6>1
        <5> QED BY <5>1, <5>2
      <4>3. x # 0 /\ ~(x < x)
        BY <2>4, <3>1
      <4> HIDE DEF x, y
      <4>4. Below(y) = {a \in F : a < x \/ a = x}
        BY <4>2
      <4>5. Below(x) = {a \in F : a < x}
        BY <4>3
      <4> HIDE DEF Below
      <4> QED BY <3>1, <4>3, <4>4, <4>5
    <3>5. \A a \in Below(y) : \E m \in 0..N : m < n + 1 /\ w[m] = a
      <4>1. \A a \in Below(x) : \E m \in 0..N : m < n /\ w[m] = a
        BY <2>1
      <4>2. \A m \in 0..N : m < n => m < n + 1
        OBVIOUS
      <4>3. n \in 0..N /\ n < n + 1 /\ w[n] = x
        BY <2>1
      <4> HIDE DEF x, y, Below
      <4> QED BY <3>4, <4>1, <4>2, <4>3
    <3>6. Cardinality(Below(y)) = n + 1
      <4>1. IsFiniteSet(Below(x))
        <5>1. Below(x) \in SUBSET F
          OBVIOUS
        <5> QED BY <1>2, <5>1, FS_Subset
      <4>2. Cardinality(Below(x)) = n
        BY <2>1, <2>4
      <4> HIDE DEF x, y, Below
      <4>3. Cardinality(Below(x) \cup {x}) = Cardinality(Below(x)) + 1
        BY <3>4, <4>1, FS_AddElement
      <4> QED BY <3>4, <4>2, <4>3
    <3> QED BY <3>3, <3>5, <3>6
  <2> QED BY <2>3, <2>4
<1> HIDE DEF Good
<1>5. \A n \in 0..N : Good(n)
  <2> HIDE DEF T
  <2>1. \A n \in Nat : n \in T
    BY <1>3, <1>4, NatInduct
  <2> QED BY <2>1 DEF T
<1>6. w[N] = 0
  <2> SUFFICES ASSUME w[N] # 0 PROVE FALSE
    OBVIOUS
  <2> DEFINE B == Below(w[N])
  <2>1. N \in 0..N
    OBVIOUS
  <2>2. w[N] \in F /\ Cardinality(B) = N
    BY <1>5, <2>1 DEF Good
  <2>3. B \in SUBSET F /\ w[N] \notin B
    <3>1. \A a \in F : a \in Nat /\ a # 0 /\ ~(a < a)
      OBVIOUS
    <3>2. w[N] \in F
      BY <2>2
    <3>3. w[N] # 0 /\ ~(w[N] < w[N])
      BY <3>1, <3>2
    <3> QED BY <3>3
  <2> HIDE DEF B
  <2>4. IsFiniteSet(B) /\ Cardinality(B) <= Cardinality(F) /\ (Cardinality(F) = Cardinality(B) => F = B)
    BY <1>2, <2>3, FS_Subset
  <2> QED BY <1>2, <2>2, <2>3, <2>4
<1>7. \A a \in F : \E n \in 0..N : w[n] = a
  <2>1. N \in 0..N /\ Good(N)
    BY <1>5
  <2> QED BY <1>6, <2>1 DEF Good
<1>8. \A n \in 0..N : \A a \in F : w[n] # 0 /\ a < w[n] => \E m \in 0..N : m < n /\ w[m] = a
  <2>1. \A n \in 0..N : \A a \in Below(w[n]) : \E m \in 0..N : m < n /\ w[m] = a
    BY <1>5 DEF Good
  <2> QED BY <2>1
<1>9. \A n \in 0..N : w[n] \in F \cup {0}
  BY <1>5 DEF Good
<1> QED BY <1>7, <1>8, <1>9 DEF w, Covers

-----------------------------------------------------------------------------
(* kmalloc and kfree *)

\* The free blocks, and that the walk finds them all.
LEMMA FreeFacts ==
    ASSUME MemInv
    PROVE  /\ Free \in SUBSET (Nat \ {0}) /\ Free \in SUBSET Blocks /\ Blocks \in SUBSET (Nat \ {0})
           /\ IsFiniteSet(Blocks) /\ Cardinality(Blocks) \in Nat
           /\ Free \cap Held = {} /\ Blocks = Free \cup Held
           /\ \A n \in 0..Cardinality(Blocks) : walk(header, g_free_list)[n] \in Free \cup {0}
           /\ \A a \in Free : \E n \in 0..Cardinality(Blocks) : walk(header, g_free_list)[n] = a
           /\ \A n \in 0..Cardinality(Blocks) : \A a \in Free :
                 walk(header, g_free_list)[n] # 0 /\ a < walk(header, g_free_list)[n]
                    => \E m \in 0..Cardinality(Blocks) : m < n /\ walk(header, g_free_list)[m] = a
<1>1. Blocks \in SUBSET (Nat \ {0}) /\ Held \subseteq Blocks
  BY DEF MemInv, MemTypes, Tiled, Blocks
<1>2. Free \in SUBSET Blocks /\ Free \cap Held = {} /\ Blocks = Free \cup Held
  BY <1>1 DEF Free
<1>3. \A b \in Blocks : b <= maxaddr
  <2> TAKE b \in Blocks
  <2>1. b \in Nat /\ EndIn(header, b) \in Nat /\ b < EndIn(header, b) /\ InRegion(header, b)
    BY Tiles DEF MemInv, Blocks
  <2> QED BY <2>1, Layout DEF InRegion
<1>4. IsFiniteSet(Blocks)
  <2>1. Blocks \in SUBSET Nat /\ maxaddr \in Nat
    BY <1>1, Layout
  <2> QED BY <1>3, <2>1, FS_BoundedSetOfNaturals
<1>5. Cardinality(Blocks) \in Nat
  BY <1>4, FS_CardinalityType
<1>6. Free \in SUBSET (Nat \ {0})
  BY <1>1, <1>2
<1> DEFINE N == Cardinality(Blocks)
           w == walk(header, g_free_list)
<1>7. Covers(w, Free, N)
  <2>1. ListOf(header, g_free_list, Free, N)
    BY <1>2, <1>4, <1>5, <1>6 DEF Blocks, MemInv, ListOf
  <2> QED BY <2>1, WalkCovers
<1> QED BY <1>1, <1>2, <1>4, <1>5, <1>6, <1>7 DEF Covers

\* The first fit is the lowest free block that is large enough.
LEMMA FirstFit ==
    ASSUME MemInv, NEW size \in Nat, fitting(size) # {}
    PROVE  /\ first_fit(size) \in Free /\ size_required(size) <= header[first_fit(size)].size
           /\ \A a \in Free : a < first_fit(size) => ~(size_required(size) <= header[a].size)
<1> DEFINE N == Cardinality(Blocks)
           w == walk(header, g_free_list)
           r == size_required(size)
           f == Min(fitting(size))
<1>1. fitting(size) = {n \in 0..N : IF w[n] = 0 THEN FALSE ELSE r <= header[w[n]].size}
  BY DEF fitting, Blocks
<1>2. N \in Nat /\ fitting(size) \in SUBSET Nat
  BY <1>1, FreeFacts
<1>3. f \in fitting(size) /\ \A n \in fitting(size) : f <= n
  BY <1>2, Least
<1> HIDE DEF f, N, r
<1>4. f \in 0..N /\ w[f] # 0 /\ r <= header[w[f]].size
  BY <1>1, <1>3
<1>5. w[f] \in Free
  BY <1>4, FreeFacts DEF N
<1>6. ASSUME NEW a \in Free, a < w[f], r <= header[a].size PROVE FALSE
  <2>1. PICK m \in 0..N : m < f /\ w[m] = a
    BY <1>4, <1>6, FreeFacts DEF N
  <2>2. a # 0
    BY FreeFacts
  <2>3. m \in fitting(size)
    BY <1>1, <1>6, <2>1, <2>2
  <2> QED BY <1>2, <1>3, <1>4, <2>1, <2>3
<1>7. first_fit(size) = w[f]
  BY DEF first_fit, f
<1> HIDE DEF w
<1> QED BY <1>4, <1>5, <1>6, <1>7 DEF r

\* There is no fit if no free block is large enough.
LEMMA NoFit ==
    ASSUME MemInv, NEW size \in Nat, fitting(size) = {}
    PROVE  \A a \in Free : ~(size_required(size) <= header[a].size)
<1> SUFFICES ASSUME NEW a \in Free, size_required(size) <= header[a].size PROVE FALSE
  OBVIOUS
<1>1. PICK n \in 0..Cardinality(Blocks) : walk(header, g_free_list)[n] = a
  BY FreeFacts
<1>2. a # 0
  BY FreeFacts
<1>3. n \in fitting(size)
  BY <1>1, <1>2 DEF fitting, Blocks
<1> QED BY <1>3

\* Lists are kept by what keeps their links.
LEMMA SameLinks ==
    ASSUME NEW h, NEW h2, NEW first, NEW F, Linked(h, first, F),
           \A a \in F : h2[a].next = h[a].next /\ h2[a].prev = h[a].prev
    PROVE  Linked(h2, first, F)
BY DEF Linked

\* What splitting leaves to take the block c from: the free blocks G, of which
\* none touch but c and its other half.
Cut(h, G, c, r) ==
    /\ Tiled(h) /\ Linked(h, g_free_list, G) /\ DOMAIN h = Blocks \cup G
    /\ Free \subseteq G /\ G \cap Held = {} /\ c \in G
    /\ Touching(h, G \ {c}, {})
    /\ EndIn(h, c) = c + r
    /\ \A a \in Held : EndIn(h, a) = EndIn(header, a) /\ h[a].sanity_check = header[a].sanity_check

\* What split_free_block leaves of a sound list is such a list.
LEMMA CutFacts ==
    ASSUME MemInv, NEW c \in Free, NEW r \in Nat \ {0}, r % 16 = 0, r <= header[c].size
    PROVE  \E G : Cut(split_free_block(header, c, r), G, c, r)
<1> DEFINE h == split_free_block(header, c, r)
<1>1. /\ Tiled(header) /\ Linked(header, g_free_list, Free) /\ Touching(header, Free, {})
      /\ Free \in SUBSET DOMAIN header /\ Free \in SUBSET (Nat \ {0}) /\ Blocks = DOMAIN header
      /\ Free \cap Held = {} /\ Held \subseteq DOMAIN header /\ Free \cup Held = DOMAIN header
  BY FreeFacts DEF MemInv, MemTypes, Blocks
<1>2. c \in Nat \ {0} /\ c \in DOMAIN header /\ header[c].size \in Nat \ {0}
  BY <1>1, Tiles
<1>3. CASE r = header[c].size
  <2>1. h = header
    BY <1>3 DEF split_free_block
  <2>2. EndIn(h, c) = c + r
    BY <1>3, <2>1 DEF EndIn
  <2>3. Touching(header, Free \ {c}, {})
    BY <1>1 DEF Touching
  <2> HIDE DEF h
  <2>4. Cut(h, Free, c, r)
    BY <1>1, <2>1, <2>2, <2>3 DEF Cut
  <2> QED BY <2>4 DEF h
<1>4. CASE r < header[c].size
  <2> DEFINE d == c + r  G == Free \cup {d}
  <2>1. /\ d \notin DOMAIN header /\ DOMAIN h = DOMAIN header \cup {d}
        /\ Tiled(h) /\ Linked(h, g_free_list, G)
        /\ EndIn(h, c) = d /\ EndIn(h, d) = EndIn(header, c)
        /\ \A a \in DOMAIN header \ {c} : h[a].size = header[a].size /\ EndIn(h, a) = EndIn(header, a)
        /\ \A a \in DOMAIN header : h[a].sanity_check = header[a].sanity_check
    <3>1. Larger(header, g_free_list, Free, c, r)
      BY <1>1, <1>4 DEF Larger
    <3>2. Splits(header, h, c, r) /\ Linked(h, g_free_list, Free \cup {c + r})
      BY <3>1, SplitTiles
    <3> QED BY <3>2 DEF Splits
  <2>2. d \in Nat /\ c < d /\ d < EndIn(header, c) /\ EndIn(header, c) \in Nat
    BY <1>1, <1>2, <1>4 DEF EndIn
  <2> HIDE DEF h, d
  <2>3. Touching(h, G \ {c}, {})
    <3> SUFFICES ASSUME NEW a \in G \ {c}, NEW b \in G \ {c}, EndIn(h, a) = b PROVE FALSE
      BY DEF Touching
    <3>1. CASE a = d
      <4>1. EndIn(header, c) = b /\ b # d
        BY <2>1, <2>2, <3>1
      <4> QED BY <1>1, <4>1 DEF Touching
    <3>2. CASE a # d
      <4>1. a \in Free /\ EndIn(header, a) = b /\ a \in DOMAIN header
        BY <1>1, <2>1, <3>2
      <4>2. b = d
        BY <1>1, <4>1 DEF Touching
      <4>3. a \in Nat /\ (a < c => EndIn(header, a) <= c) /\ (c < a => EndIn(header, c) <= a)
            /\ a < EndIn(header, a)
        BY <1>1, <1>2, <4>1, Tiles
      <4>4. a < c \/ c < a
        BY <1>2, <4>3
      <4> QED BY <1>2, <2>2, <4>1, <4>2, <4>3, <4>4
    <3> QED BY <3>1, <3>2
  <2>4. G \cap Held = {} /\ Free \subseteq G /\ c \in G /\ \A a \in Held : a \in DOMAIN header \ {c}
    BY <1>1, <2>1
  <2>5. DOMAIN h = Blocks \cup G
    BY <1>1, <2>1
  <2>6. Cut(h, G, c, r)
    <3> HIDE DEF G
    <3>1. EndIn(h, c) = c + r
      BY <2>1 DEF d
    <3>2. \A a \in Held : EndIn(h, a) = EndIn(header, a) /\ h[a].sanity_check = header[a].sanity_check
      BY <2>1, <2>4
    <3> QED BY <2>1, <2>3, <2>4, <2>5, <3>1, <3>2 DEF Cut
  <2> QED BY <2>6 DEF h
<1> QED BY <1>2, <1>3, <1>4

\* Taking a free block out of the list changes links of the other free blocks.
LEMMA Detach ==
    ASSUME NEW h, Tiled(h), NEW first, NEW F, F \in SUBSET DOMAIN h, Linked(h, first, F), NEW c, c \in F
    PROVE  LET p   == h[c].prev
               n   == h[c].next
               out == set_prev(set_next(h, p, n), n, p)
           IN  /\ out \in [DOMAIN h -> Headers] /\ TakenOut(h, out, F, c, p, n)
               /\ \A a \in DOMAIN h : out[a].size = h[a].size /\ out[a].sanity_check = h[a].sanity_check
<1> DEFINE D == DOMAIN h  p == h[c].prev  n == h[c].next  e == set_next(h, p, n)  out == set_prev(e, n, p)
<1>1. D \in SUBSET (Nat \ {0}) /\ F \in SUBSET (Nat \ {0}) /\ h \in [D -> Headers] /\ c \in Nat \ {0}
  BY DEF Tiled
<1>2. Before(F, c, p) /\ After(F, c, n)
  BY DEF Linked
<1> HIDE DEF p, n
<1>3. /\ p \in F \cup {0} /\ n \in F \cup {0} /\ p \in Nat /\ n \in Nat /\ p # c /\ n # c
  BY <1>1, <1>2, Between
<1>4. p \in D \cup {0} /\ n \in D \cup {0}
  BY <1>3
<1> HIDE DEF D
<1>5. /\ e \in [D -> Headers]
      /\ \A a \in D : /\ e[a].next = IF a = p THEN n ELSE h[a].next
                      /\ e[a].prev = h[a].prev
                      /\ e[a].size = h[a].size /\ e[a].sanity_check = h[a].sanity_check
  <2>1. D \in SUBSET (Nat \ {0}) /\ h \in [D -> Headers] /\ p \in Nat /\ p \in D \cup {0} /\ n \in Nat
    BY <1>1, <1>3, <1>4
  <2> QED BY <2>1, SetNext
<1> HIDE DEF e
<1>6. /\ out \in [D -> Headers]
      /\ \A a \in D : /\ out[a].prev = IF a = n THEN p ELSE e[a].prev
                      /\ out[a].next = e[a].next
                      /\ out[a].size = e[a].size /\ out[a].sanity_check = e[a].sanity_check
  <2>1. D \in SUBSET (Nat \ {0}) /\ e \in [D -> Headers] /\ n \in Nat /\ n \in D \cup {0} /\ p \in Nat
    BY <1>1, <1>3, <1>4, <1>5
  <2> QED BY <2>1, SetPrev
<1> HIDE DEF out
<1>7. TakenOut(h, out, F, c, p, n)
  <2>1. h[c].prev = p /\ h[c].next = n
    BY DEF p, n
  <2>2. \A a \in F : a \in D
    BY DEF D
  <2> QED BY <1>1, <1>3, <1>5, <1>6, <2>1, <2>2 DEF TakenOut
<1>8. \A a \in D : out[a].size = h[a].size /\ out[a].sanity_check = h[a].sanity_check
  BY <1>5, <1>6
<1> QED BY <1>6, <1>7, <1>8 DEF out, e, p, n, D

\* What kmalloc has done: it handed out the free block c.
Mallocs(c, size) ==
    /\ c \in Free /\ result' = c + 16 /\ allocated' = put(allocated, c + 16, size)
    /\ Held' = Held \cup {c} /\ Held' \subseteq Blocks'
    /\ header'[c].size = size_required(size)
    /\ \A b \in Held : End(b)' = End(b)

\* kmalloc keeps the invariant, and hands out the first fit.
LEMMA Malloc ==
    ASSUME MemInv, NEW size \in Nat, kmalloc(size)
    PROVE  MemInv' /\ Mallocs(first_fit(size), size)
<1> DEFINE c == first_fit(size)
           r == size_required(size)
           h == split_free_block(header, c, r)
           p == h[c].prev
           n == h[c].next
           out == set_prev(set_next(h, p, n), n, p)
<1>1. /\ header' = [out EXCEPT ![c].size = r, ![c].sanity_check = c + 16]
      /\ g_free_list' = IF p = 0 THEN n ELSE g_free_list
      /\ allocated' = put(allocated, c + 16, size) /\ result' = c + 16
      /\ fitting(size) # {}
  BY DEF kmalloc
<1>2. /\ c \in Free /\ r \in Nat \ {0} /\ r % 16 = 0 /\ r <= header[c].size /\ size + 16 <= r
  BY <1>1, FirstFit, Required
<1> HIDE DEF c, r
<1>3. PICK G : Cut(h, G, c, r)
  BY <1>2, CutFacts
<1> HIDE DEF h
<1>4. /\ Tiled(h) /\ Linked(h, g_free_list, G) /\ DOMAIN h = Blocks \cup G
      /\ Free \subseteq G /\ G \cap Held = {} /\ c \in G /\ G \in SUBSET DOMAIN h
      /\ Touching(h, G \ {c}, {}) /\ EndIn(h, c) = c + r
      /\ \A a \in Held : EndIn(h, a) = EndIn(header, a) /\ h[a].sanity_check = header[a].sanity_check
  BY <1>3 DEF Cut
<1>5. /\ out \in [DOMAIN h -> Headers] /\ TakenOut(h, out, G, c, p, n)
      /\ \A a \in DOMAIN h : out[a].size = h[a].size /\ out[a].sanity_check = h[a].sanity_check
  BY <1>4, Detach
<1>6. /\ Free \in SUBSET (Nat \ {0}) /\ Blocks = Free \cup Held /\ Free \cap Held = {}
      /\ Blocks = DOMAIN header
  BY FreeFacts DEF Blocks
<1>7. c \in DOMAIN h /\ c \in Nat \ {0} /\ h[c].size = r /\ h[c] \in Headers
  <2>1. c \in DOMAIN h /\ c \in Nat \ {0}
    BY <1>2, <1>4, <1>6
  <2>2. h[c].size \in Nat /\ h[c] \in Headers
    BY <1>4, <2>1, Tiles
  <2> QED BY <1>2, <1>4, <2>1, <2>2 DEF EndIn
<1> HIDE DEF out, p, n
<1>8. /\ header' \in [DOMAIN h -> Headers] /\ DOMAIN header' = DOMAIN h
      /\ \A a \in DOMAIN h : header'[a].size = h[a].size
      /\ header'[c].sanity_check = c + 16
      /\ \A a \in DOMAIN h \ {c} : header'[a] = out[a]
  <2>1. out[c] \in Headers /\ c + 16 \in Nat /\ r \in Nat \ {0}
    BY <1>2, <1>5, <1>7
  <2>2. [out[c] EXCEPT !.size = r, !.sanity_check = c + 16] \in Headers
    BY <2>1 DEF Headers
  <2>3. header' = [out EXCEPT ![c] = [out[c] EXCEPT !.size = r, !.sanity_check = c + 16]]
    BY <1>1, <1>5, <1>7, <2>1 DEF Headers
  <2>4. /\ header'[c].size = r /\ header'[c].sanity_check = c + 16
        /\ \A a \in DOMAIN h \ {c} : header'[a] = out[a]
    BY <1>5, <1>7, <2>1, <2>3 DEF Headers
  <2>5. header' \in [DOMAIN h -> Headers] /\ DOMAIN header' = DOMAIN h
    BY <1>5, <1>7, <2>2, <2>3
  <2> QED BY <1>5, <1>7, <2>4, <2>5
<1>9. Tiled(header') /\ \A b \in DOMAIN h : EndIn(header', b) = EndIn(h, b)
  BY <1>4, <1>8, SameTiles
<1>10. Linked(header', g_free_list', G \ {c})
  <2>1. TakenOut(h, header', G, c, p, n)
    BY <1>4, <1>5, <1>8 DEF TakenOut
  <2>2. /\ p = 0 => Linked(header', n, G \ {c})
        /\ p # 0 => Linked(header', g_free_list, G \ {c})
    <3> DEFINE first == g_free_list
               h2 == header'
    <3>1. Linked(h, first, G) /\ TakenOut(h, h2, G, c, p, n)
      BY <1>4, <2>1
    <3> HIDE DEF first, h2
    <3>2. p = 0 => Linked(h2, n, G \ {c})
      BY <3>1, Unlink
    <3>3. p # 0 => Linked(h2, first, G \ {c})
      BY <3>1, Unlink
    <3> USE DEF first, h2
    <3> QED BY <3>2, <3>3
  <2> QED BY <1>1, <2>2
<1>11. Held' = Held \cup {c}
  <2>1. DOMAIN allocated' = DOMAIN allocated \cup {c + 16}
    BY <1>1 DEF put
  <2>2. (c + 16) - 16 = c
    BY <1>7
  <2> QED BY <2>1, <2>2 DEF Held
<1>12. Free' = G \ {c} /\ Blocks' = DOMAIN h /\ Held' \subseteq Blocks'
  BY <1>4, <1>6, <1>7, <1>8, <1>11 DEF Free, Blocks
<1>13. Touching(header', Free', {})
  BY <1>4, <1>9, <1>12 DEF Touching
<1>14. \A b \in Held : b # c /\ b \in DOMAIN h \ {c}
  BY <1>2, <1>4, <1>6
<1>15. \A b \in Held : End(b)' = End(b) /\ header'[b].sanity_check = header[b].sanity_check
  <2> TAKE b \in Held
  <2>1. b \in DOMAIN h /\ header'[b].sanity_check = header[b].sanity_check
    BY <1>4, <1>5, <1>8, <1>14
  <2>2. EndIn(header', b) = EndIn(header, b)
    BY <1>4, <1>9, <2>1
  <2> QED BY <2>1, <2>2 DEF End, EndIn
<1>16. MemTypes'
  <2>1. DOMAIN allocated \subseteq Nat /\ allocated \in [DOMAIN allocated -> Nat] /\ c + 16 \in Nat
    BY <1>7 DEF MemInv, MemTypes
  <2>2. DOMAIN allocated' \subseteq Nat /\ allocated' \in [DOMAIN allocated' -> Nat]
    BY <1>1, <2>1 DEF put
  <2> QED BY <1>1, <1>12, <2>1, <2>2 DEF MemTypes
<1>17. Grants'
  <2> SUFFICES ASSUME NEW ptr \in DOMAIN allocated'
               PROVE  /\ header'[ptr - 16].sanity_check = ptr
                      /\ ptr + allocated'[ptr] <= End(ptr - 16)'
    BY DEF Grants
  <2>1. CASE ptr = c + 16
    <3>1. ptr - 16 = c /\ allocated'[ptr] = size
      BY <1>1, <1>7, <2>1 DEF put
    <3>2. End(ptr - 16)' = c + r
      BY <1>7, <1>8, <3>1 DEF End
    <3>3. c + 16 + size <= c + r
      BY <1>2, <1>7
    <3> QED BY <1>8, <2>1, <3>1, <3>2, <3>3
  <2>2. CASE ptr # c + 16
    <3>1. ptr \in DOMAIN allocated /\ allocated'[ptr] = allocated[ptr]
      BY <1>1, <2>2 DEF put
    <3>2. ptr - 16 \in Held
      BY <3>1 DEF Held
    <3>3. header[ptr - 16].sanity_check = ptr /\ ptr + allocated[ptr] <= End(ptr - 16)
      BY <3>1 DEF MemInv, Grants
    <3> QED BY <1>15, <3>1, <3>2, <3>3
  <2> QED BY <2>1, <2>2
<1>18. MemInv'
  BY <1>9, <1>10, <1>12, <1>13, <1>16, <1>17 DEF MemInv
<1>19. Mallocs(c, size)
  BY <1>1, <1>2, <1>7, <1>8, <1>11, <1>12, <1>15 DEF Mallocs, r
<1> QED BY <1>18, <1>19 DEF c

\* linked is h with the block b put into the list, between p and n.
Attaches(h, linked, F, b, p, n) ==
    /\ linked \in [DOMAIN h -> Headers] /\ PutIn(h, linked, F, b, p, n)
    /\ \A a \in DOMAIN h : linked[a].size = h[a].size /\ linked[a].sanity_check = h[a].sanity_check

\* What kfree does to the list before it looks at the neighbours.
LEMMA Attach ==
    ASSUME NEW h, Tiled(h), NEW F, F \in SUBSET DOMAIN h, NEW b, b \in DOMAIN h, b \notin F,
           NEW p, NEW n, Before(F, b, p), After(F, b, n)
    PROVE  Attaches(h, set_prev(set_next([h EXCEPT ![b].prev = p, ![b].next = n], p, b), n, b), F, b, p, n)
<1> DEFINE D == DOMAIN h  d == [h EXCEPT ![b].prev = p, ![b].next = n]
           e == set_next(d, p, b)  linked == set_prev(e, n, b)
<1>1. D \in SUBSET (Nat \ {0}) /\ F \in SUBSET (Nat \ {0}) /\ h \in [D -> Headers] /\ b \in Nat \ {0}
  BY DEF Tiled
<1>2. /\ p \in F \cup {0} /\ n \in F \cup {0} /\ p \in Nat /\ n \in Nat /\ p # b /\ n # b
  BY <1>1, Between
<1>3. p \in D \cup {0} /\ n \in D \cup {0} /\ b \in D /\ b \in Nat
  BY <1>1, <1>2
<1>4. /\ d \in [D -> Headers]
      /\ \A a \in D : /\ d[a].next = IF a = b THEN n ELSE h[a].next
                      /\ d[a].prev = IF a = b THEN p ELSE h[a].prev
                      /\ d[a].size = h[a].size /\ d[a].sanity_check = h[a].sanity_check
  BY <1>1, <1>2, <1>3 DEF Headers
<1> HIDE DEF D, d
<1>5. /\ e \in [D -> Headers]
      /\ \A a \in D : /\ e[a].next = IF a = p THEN b ELSE d[a].next
                      /\ e[a].prev = d[a].prev
                      /\ e[a].size = d[a].size /\ e[a].sanity_check = d[a].sanity_check
  BY <1>1, <1>2, <1>3, <1>4, SetNext
<1> HIDE DEF e
<1>6. /\ linked \in [D -> Headers]
      /\ \A a \in D : /\ linked[a].prev = IF a = n THEN b ELSE e[a].prev
                      /\ linked[a].next = e[a].next
                      /\ linked[a].size = e[a].size /\ linked[a].sanity_check = e[a].sanity_check
  <2>1. /\ D \in SUBSET (Nat \ {0}) /\ e \in [D -> Headers]
        /\ n \in Nat /\ n \in D \cup {0} /\ b \in Nat
    BY <1>1, <1>2, <1>3, <1>5
  <2>2. set_prev(e, n, b) = linked
    OBVIOUS
  <2> HIDE DEF linked
  <2>3. /\ set_prev(e, n, b) \in [D -> Headers]
        /\ \A a \in D : /\ set_prev(e, n, b)[a].prev = IF a = n THEN b ELSE e[a].prev
                        /\ set_prev(e, n, b)[a].next = e[a].next
                        /\ set_prev(e, n, b)[a].size = e[a].size
                        /\ set_prev(e, n, b)[a].sanity_check = e[a].sanity_check
    BY <2>1, SetPrev
  <2> QED BY <2>2, <2>3
<1> HIDE DEF linked
<1>7. \A a \in D : linked[a].size = h[a].size /\ linked[a].sanity_check = h[a].sanity_check
  BY <1>4, <1>5, <1>6
<1>8. linked[b].prev = p /\ linked[b].next = n
  BY <1>2, <1>3, <1>4, <1>5, <1>6
<1>9. \A a \in F : /\ linked[a].next = IF a = p THEN b ELSE h[a].next
                   /\ linked[a].prev = IF a = n THEN b ELSE h[a].prev
  <2>1. \A a \in F : a \in D /\ a # b
    BY DEF D
  <2> QED BY <1>4, <1>5, <1>6, <2>1
<1>10. PutIn(h, linked, F, b, p, n)
  BY <1>1, <1>2, <1>8, <1>9 DEF PutIn
<1> QED BY <1>6, <1>7, <1>10 DEF Attaches, linked, e, d, D

\* What comes after b comes after its predecessor.
LEMMA AfterBefore ==
    ASSUME NEW F, F \in SUBSET (Nat \ {0}), NEW b, b \in Nat \ F, NEW p, NEW n,
           Before(F, b, p), After(F, p, n)
    PROVE  After(F, b, n)
<1>1. /\ p \in F \cup {0} /\ p \in Nat /\ p < b /\ \A a \in F : a < b => a <= p
      /\ n \in F \cup {0} /\ n \in Nat /\ (n # 0 => p < n) /\ \A a \in F : p < a => n # 0 /\ n <= a
  BY DEF Before, After
<1>2. n # 0 => b < n
  <2>1. n # 0 => ~(n < b) /\ n # b
    BY <1>1
  <2> QED BY <1>1, <2>1
<1>3. \A a \in F : b < a => p < a
  BY <1>1
<1> QED BY <1>1, <1>2, <1>3 DEF After

\* kfree finds where the block belongs.
Place(b, p, n) ==
    /\ p = Max({a \in Free : a < b} \cup {0})
    /\ n = IF p = 0 THEN g_free_list ELSE header[p].next

\* The search of kfree for the neighbours of its block finds them.
LEMMA Placed ==
    ASSUME MemInv, NEW b, b \in Held, NEW p, NEW n, Place(b, p, n)
    PROVE  Before(Free, b, p) /\ After(Free, b, n) /\ After(Free, p, n)
<1> DEFINE U == {a \in Free : a < b} \cup {0}
<1>1. /\ Free \in SUBSET (Nat \ {0}) /\ b \in Nat \ {0} /\ b \notin Free
      /\ Linked(header, g_free_list, Free)
  BY FreeFacts DEF MemInv
<1>2. U \in SUBSET Nat /\ U # {} /\ b \in Nat /\ \A y \in U : y <= b
  <2>1. \A y \in Free : y \in Nat /\ (y < b => y <= b)
    BY <1>1
  <2>2. 0 <= b /\ b \in Nat
    BY <1>1
  <2>3. \A y \in U : y \in Nat /\ y <= b
    BY <2>1, <2>2
  <2> QED BY <2>2, <2>3
<1>3. Max(U) \in U /\ \A y \in U : y <= Max(U)
  <2> HIDE DEF U
  <2> QED BY <1>2, Greatest
<1>4. p \in U /\ \A y \in U : y <= p
  <2>1. p = Max(U)
    BY DEF Place
  <2> HIDE DEF U
  <2> QED BY <1>3, <2>1
<1>5. Before(Free, b, p)
  BY <1>1, <1>4 DEF Before
<1>6. After(Free, p, n)
  <2>1. CASE p = 0
    BY <1>1, <2>1 DEF Place, Linked
  <2>2. CASE p # 0
    <3>1. p \in Free
      BY <1>4, <2>2
    <3> QED BY <1>1, <2>2, <3>1 DEF Place, Linked
  <2> QED BY <2>1, <2>2
<1> QED BY <1>1, <1>5, <1>6, AfterBefore

\* What touches once b is free.
LEMMA NowTouching ==
    ASSUME NEW h, Tiled(h), NEW F, F \in SUBSET DOMAIN h, Touching(h, F, {}),
           NEW b, b \in DOMAIN h, b \notin F, NEW p, NEW n, Before(F, b, p), After(F, b, n)
    PROVE  Touching(h, F \cup {b}, {<<p, b>>, <<b, n>>})
<1> SUFFICES ASSUME NEW a \in F \cup {b}, NEW c \in F \cup {b}, EndIn(h, a) = c
             PROVE  <<a, c>> = <<p, b>> \/ <<a, c>> = <<b, n>>
  BY DEF Touching
<1>1. /\ a \in Nat \ {0} /\ b \in Nat \ {0} /\ c \in Nat \ {0} /\ a < c
      /\ a \in DOMAIN h /\ c \in DOMAIN h /\ F \in SUBSET (Nat \ {0})
  BY Tiles DEF Tiled
<1>2. /\ p \in F \cup {0} /\ n \in F \cup {0} /\ p \in Nat /\ n \in Nat
      /\ \A x \in F : (x < b => x <= p) /\ (b < x => n # 0 /\ n <= x)
      /\ (n # 0 => b < n) /\ p < b
  BY <1>1 DEF Before, After
<1>3. CASE a = b
  <2>1. c \in F /\ n # 0 /\ n <= c /\ n \in DOMAIN h /\ b < n
    BY <1>1, <1>2, <1>3
  <2>2. EndIn(h, b) <= n
    BY <2>1, Tiles
  <2>3. c = n
    BY <1>1, <1>2, <1>3, <2>1, <2>2
  <2> QED BY <1>3, <2>3
<1>4. CASE a # b
  <2>1. a \in F
    BY <1>4
  <2>2. c = b
    BY <2>1 DEF Touching
  <2>3. a <= p /\ p # 0 /\ p \in DOMAIN h
    BY <1>1, <1>2, <2>1, <2>2
  <2>4. ~(a < p)
    <3>1. a < p => EndIn(h, a) <= p
      BY <1>1, <2>3, Tiles
    <3>2. EndIn(h, a) = b /\ p \in Nat /\ b \in Nat /\ p < b
      BY <1>1, <1>2, <2>2
    <3> HIDE <1>1, <1>2
    <3> QED BY <3>1, <3>2
  <2>5. a = p
    BY <1>1, <1>2, <2>3, <2>4
  <2> QED BY <2>2, <2>5
<1> QED BY <1>3, <1>4

\* What kfree has done.
Freed(ptr) ==
    /\ result' = result /\ allocated' = [q \in DOMAIN allocated \ {ptr} |-> allocated[q]]
    /\ Held' = Held \ {ptr - 16} /\ Held' \subseteq Blocks'
    /\ \A b \in Held' : End(b)' = End(b)

\* The list with b in it, and what coalesce_blocks makes of it.
LEMMA Rejoin ==
    ASSUME NEW h, NEW linked, Tiled(h), NEW F, F \in SUBSET DOMAIN h, Touching(h, F, {}),
           NEW first0, Linked(h, first0, F),
           NEW b, b \in DOMAIN h, b \notin F, NEW p, NEW n,
           Attaches(h, linked, F, b, p, n), NEW first, first = IF p = 0 THEN b ELSE first0
    PROVE  \E G : LET j == coalesce_blocks(coalesce_blocks(linked, b, n), p, b)
                  IN  /\ Coalesces(h, j, F \cup {b}, G)
                      /\ Linked(j, first, G) /\ Touching(j, G, {})
<1> DEFINE E  == F \cup {b}
           S  == {<<p, b>>, <<b, n>>}
           j1 == coalesce_blocks(linked, b, n)
           j2 == coalesce_blocks(j1, p, b)
           S1 == S \ {<<b, n>>}
<1>1. /\ PutIn(h, linked, F, b, p, n) /\ linked \in [DOMAIN h -> Headers]
      /\ DOMAIN linked = DOMAIN h
      /\ \A a \in DOMAIN h : linked[a].size = h[a].size /\ linked[a].sanity_check = h[a].sanity_check
  BY DEF Attaches
<1>2. /\ F \in SUBSET (Nat \ {0}) /\ b \in Nat \ {0} /\ p \in Nat /\ n \in Nat
      /\ Before(F, b, p) /\ After(F, b, n) /\ linked[b].next = n
  BY <1>1 DEF PutIn
<1>3. /\ p \in F \cup {0} /\ n \in F \cup {0} /\ p # b /\ n # b /\ p < b /\ (n # 0 => b < n)
      /\ (n # 0 => n # p)
  BY <1>2, Between
<1>4. Tiled(linked) /\ \A a \in DOMAIN h : EndIn(linked, a) = EndIn(h, a)
  BY <1>1, SameTiles
<1>5. Linked(linked, first, E)
  <2>1. /\ p = 0 => Linked(linked, b, E)
        /\ p # 0 => Linked(linked, first0, E)
    <3>1. PutIn(h, linked, F, b, p, n) /\ Linked(h, first0, F)
      BY <1>1
    <3> HIDE <1>1
    <3> QED BY <3>1, Link
  <2> QED BY <2>1
<1>6. Touching(linked, E, S)
  <2>1. Touching(h, E, S)
    BY <1>2, NowTouching
  <2>2. \A a \in E : a \in DOMAIN h
    OBVIOUS
  <2> HIDE DEF E, S
  <2> QED BY <1>4, <2>1, <2>2 DEF Touching
<1>7. Neighbours(linked, first, E, b, n, S)
  <2>1. E \in SUBSET DOMAIN linked /\ b \in E \cup {0} /\ n \in E \cup {0}
    BY <1>1, <1>3
  <2>2. n # 0 => \A c : <<n, c>> \notin S
    BY <1>3
  <2> HIDE DEF E, S
  <2> QED BY <1>2, <1>4, <1>5, <1>6, <2>1, <2>2 DEF Neighbours
<1>8. PICK G1 : Joined(linked, j1, first, E, b, n, S, G1)
  <2> HIDE DEF E, S
  <2> QED BY <1>7, Coalesce
<1>9. /\ G1 \subseteq E /\ Tiled(j1) /\ DOMAIN j1 = DOMAIN linked \ (E \ G1)
      /\ \A a \in DOMAIN linked \ E : EndIn(j1, a) = EndIn(linked, a) /\ j1[a].sanity_check = linked[a].sanity_check
      /\ E \ {n} \subseteq G1 /\ Linked(j1, first, G1) /\ Touching(j1, G1, S1)
  <2> HIDE DEF E, S, j1
  <2> QED BY <1>8 DEF Joined, Coalesces
<1> HIDE DEF j1
<1>10. b \in G1 /\ p \in G1 \cup {0} /\ G1 \in SUBSET DOMAIN j1
  <2>1. b \in E \ {n} /\ (p # 0 => p \in E \ {n})
    BY <1>3
  <2>2. E \in SUBSET DOMAIN linked
    BY <1>1
  <2> HIDE DEF E
  <2> QED BY <1>9, <2>1, <2>2
<1>11. p # 0 => j1[p].next = b
  <2> SUFFICES ASSUME p # 0 PROVE j1[p].next = b
    OBVIOUS
  <2>1. p \in G1 /\ After(G1, p, j1[p].next)
    BY <1>9, <1>10 DEF Linked
  <2>2. \A a \in F : p < a => b <= a
    <3>1. \A a \in F : a < b => a <= p
      BY <1>2 DEF Before
    <3> QED BY <1>2, <3>1
  <2>3. \A a \in G1 : p < a => b # 0 /\ b <= a
    BY <1>2, <1>9, <2>2
  <2>4. After(G1, p, b)
    BY <1>2, <1>3, <1>10, <2>3 DEF After
  <2>5. G1 \in SUBSET (Nat \ {0})
    BY <1>2, <1>9
  <2> QED BY <1>2, <2>1, <2>4, <2>5, OneNeighbour
<1>12. Neighbours(j1, first, G1, p, b, S1)
  <2>1. \A c : <<b, c>> \notin S1
    BY <1>3
  <2> HIDE DEF S1
  <2> QED BY <1>9, <1>10, <1>11, <2>1 DEF Neighbours
<1>13. PICK G : Joined(j1, j2, first, G1, p, b, S1, G)
  <2> HIDE DEF S1
  <2> QED BY <1>12, Coalesce
<1>14. /\ G \subseteq G1 /\ Tiled(j2) /\ DOMAIN j2 = DOMAIN j1 \ (G1 \ G)
       /\ \A a \in DOMAIN j1 \ G1 : EndIn(j2, a) = EndIn(j1, a) /\ j2[a].sanity_check = j1[a].sanity_check
       /\ Linked(j2, first, G) /\ Touching(j2, G, S1 \ {<<p, b>>})
  <2> HIDE DEF S1, j2
  <2> QED BY <1>13 DEF Joined, Coalesces
<1> HIDE DEF j2
<1>15. Touching(j2, G, {})
  <2>1. S1 \ {<<p, b>>} = {}
    OBVIOUS
  <2> QED BY <1>14, <2>1
<1>16. Coalesces(h, j2, E, G)
  <2> HIDE DEF E
  <2>1. DOMAIN j2 = DOMAIN h \ (E \ G) /\ G \subseteq E
    BY <1>1, <1>9, <1>14
  <2>2. ASSUME NEW a \in DOMAIN h \ E PROVE EndIn(j2, a) = EndIn(h, a) /\ j2[a].sanity_check = h[a].sanity_check
    <3>1. a \in DOMAIN linked \ E /\ a \in DOMAIN j1 \ G1
      BY <1>1, <1>9
    <3> QED BY <1>1, <1>4, <1>9, <1>14, <3>1
  <2> QED BY <1>14, <2>1, <2>2 DEF Coalesces
<1> QED BY <1>14, <1>15, <1>16 DEF j2, j1

\* kfree keeps the invariant, and frees the block of its pointer only.
LEMMA FreeOne ==
    ASSUME MemInv, NEW ptr \in DOMAIN allocated, kfree(ptr)
    PROVE  MemInv' /\ Freed(ptr)
<1> DEFINE b == ptr - 16
           p == Max({a \in Free : a < b} \cup {0})
           n == IF p = 0 THEN g_free_list ELSE header[p].next
           linked == set_prev(set_next([header EXCEPT ![b].prev = p, ![b].next = n], p, b), n, b)
           j == coalesce_blocks(coalesce_blocks(linked, b, n), p, b)
<1>1. /\ Free \in SUBSET (Nat \ {0}) /\ Free \in SUBSET Blocks /\ Blocks = DOMAIN header
      /\ Blocks = Free \cup Held /\ Free \cap Held = {} /\ Linked(header, g_free_list, Free)
      /\ Tiled(header) /\ Touching(header, Free, {})
  BY FreeFacts DEF MemInv, Blocks
<1>2. Free = {walk(header, g_free_list)[k] : k \in 0..Cardinality(DOMAIN header)} \ {0}
  <2>1. /\ \A k \in 0..Cardinality(Blocks) : walk(header, g_free_list)[k] \in Free \cup {0}
        /\ \A a \in Free : \E k \in 0..Cardinality(Blocks) : walk(header, g_free_list)[k] = a
    BY FreeFacts
  <2> QED BY <1>1, <2>1
<1>3. /\ header' = j /\ g_free_list' = IF p = 0 THEN b ELSE g_free_list
      /\ allocated' = [q \in DOMAIN allocated \ {ptr} |-> allocated[q]] /\ result' = result
  <2>1. {a \in {walk(header, g_free_list)[k] : k \in 0..Cardinality(DOMAIN header)} \ {0} : a < b}
          = {a \in Free : a < b}
    BY <1>2
  <2> QED BY <2>1 DEF kfree
<1>4. b \in Held /\ ptr \in Nat /\ DOMAIN allocated \subseteq Nat /\ Held \subseteq Blocks
  BY DEF Held, MemInv, MemTypes
<1>5. b \in Blocks /\ b \notin Free /\ b \in Nat \ {0}
  <2>1. b \in Blocks /\ b \notin Free
    BY <1>1, <1>4
  <2> QED BY <1>1, <2>1 DEF Tiled
<1>6. Place(b, p, n)
  BY DEF Place
<1> HIDE DEF p, n, b
<1>7. Before(Free, b, p) /\ After(Free, b, n)
  BY <1>4, <1>6, Placed
<1>8. Attaches(header, linked, Free, b, p, n)
  BY <1>1, <1>5, <1>7, Attach
<1> HIDE DEF linked
<1>9. PICK G : /\ Coalesces(header, j, Free \cup {b}, G)
               /\ Linked(j, g_free_list', G) /\ Touching(j, G, {})
  BY <1>1, <1>3, <1>5, <1>8, Rejoin
<1> HIDE DEF j
<1>10. /\ G \subseteq Free \cup {b} /\ Tiled(j) /\ DOMAIN j = Blocks \ ((Free \cup {b}) \ G)
       /\ \A a \in Blocks \ (Free \cup {b}) :
             EndIn(j, a) = EndIn(header, a) /\ j[a].sanity_check = header[a].sanity_check
  BY <1>1, <1>9 DEF Coalesces
<1>11. DOMAIN allocated' = DOMAIN allocated \ {ptr} /\ \A q \in DOMAIN allocated' : allocated'[q] = allocated[q]
  BY <1>3
<1>12. Held' = Held \ {b}
  <2>1. \A q \in DOMAIN allocated : q - 16 = b <=> q = ptr
    BY <1>4 DEF b
  <2> QED BY <1>11, <2>1 DEF Held
<1>13. Blocks' = DOMAIN j /\ Free' = G /\ Held' \subseteq Blocks'
  BY <1>1, <1>3, <1>4, <1>5, <1>10, <1>12 DEF Blocks, Free
<1>14. \A a \in Held' : End(a)' = End(a) /\ header'[a].sanity_check = header[a].sanity_check
  <2> TAKE a \in Held'
  <2>1. a \in Blocks \ (Free \cup {b})
    BY <1>1, <1>4, <1>12
  <2>2. EndIn(j, a) = EndIn(header, a) /\ j[a].sanity_check = header[a].sanity_check
    BY <1>10, <2>1
  <2> QED BY <1>3, <2>2 DEF End, EndIn
<1>15. MemTypes'
  <2>1. allocated \in [DOMAIN allocated -> Nat] /\ result \in Nat
    BY DEF MemInv, MemTypes
  <2>2. allocated' \in [DOMAIN allocated' -> Nat]
    BY <1>3, <2>1
  <2> QED BY <1>3, <1>4, <1>11, <1>13, <2>1, <2>2 DEF MemTypes
<1>16. Grants'
  <2> SUFFICES ASSUME NEW q \in DOMAIN allocated'
               PROVE  /\ header'[q - 16].sanity_check = q
                      /\ q + allocated'[q] <= End(q - 16)'
    BY DEF Grants
  <2>1. q \in DOMAIN allocated /\ allocated'[q] = allocated[q] /\ q - 16 \in Held'
    BY <1>11 DEF Held
  <2>2. header[q - 16].sanity_check = q /\ q + allocated[q] <= End(q - 16)
    BY <2>1 DEF MemInv, Grants
  <2> QED BY <1>14, <2>1, <2>2
<1>17. MemInv'
  BY <1>3, <1>9, <1>10, <1>13, <1>15, <1>16 DEF MemInv
<1>18. Freed(ptr)
  BY <1>3, <1>12, <1>13, <1>14 DEF Freed, b
<1> QED BY <1>17, <1>18

-----------------------------------------------------------------------------
(* The invariant *)

\* kmeminit establishes the invariant.
LEMMA MemInvInit == Init => MemInv
<1> SUFFICES ASSUME Init PROVE MemInv
  OBVIOUS
<1> DEFINE m == memstart  u == maxaddr
<1>1. /\ m \in Nat \ {0} /\ m % 16 = 0 /\ HOLESTART \in Nat /\ HOLEEND \in Nat /\ u \in Nat
      /\ HOLEEND % 16 = 0 /\ m + 16 <= HOLESTART /\ HOLESTART < HOLEEND /\ HOLEEND + 16 <= u
  BY Layout
<1>2. /\ g_free_list = m
      /\ header = [b \in {m, HOLEEND} |->
            IF b = m
            THEN [size |-> HOLESTART - m, prev |-> 0, next |-> HOLEEND, sanity_check |-> 0]
            ELSE [size |-> u - HOLEEND, prev |-> m, next |-> 0, sanity_check |-> 0]]
      /\ allocated = [ptr \in {} |-> 0] /\ result = 0
  BY DEF Init
<1> HIDE DEF m, u
<1>3. DOMAIN header = {m, HOLEEND} /\ m # HOLEEND
  BY <1>1, <1>2
<1>4. /\ header[m] = [size |-> HOLESTART - m, prev |-> 0, next |-> HOLEEND, sanity_check |-> 0]
      /\ header[HOLEEND] = [size |-> u - HOLEEND, prev |-> m, next |-> 0, sanity_check |-> 0]
  BY <1>2, <1>3
<1>5. header[m] \in Headers /\ header[HOLEEND] \in Headers
  BY <1>1, <1>4 DEF Headers
<1>6. EndIn(header, m) = HOLESTART /\ EndIn(header, HOLEEND) = u
  BY <1>1, <1>4 DEF EndIn
<1>7. Tiled(header)
  <2>1. header \in [DOMAIN header -> Headers]
    BY <1>2, <1>3, <1>5
  <2>2. DOMAIN header \subseteq Nat \ {0} /\ {m, HOLEEND} \subseteq DOMAIN header
    BY <1>1, <1>3
  <2>3. \A b \in DOMAIN header : b % 16 = 0 /\ EndIn(header, b) \in DOMAIN header \cup {HOLESTART, u}
    BY <1>1, <1>3, <1>6
  <2>4. \A b \in DOMAIN header : InRegion(header, b)
    BY <1>1, <1>3, <1>6 DEF InRegion, m, u
  <2>5. \A b \in DOMAIN header : \A a \in DOMAIN header : a < b => EndIn(header, a) <= b
    BY <1>1, <1>3, <1>6
  <2> QED BY <2>1, <2>2, <2>3, <2>4, <2>5 DEF Tiled, m, u
<1>8. Held = {} /\ Free = {m, HOLEEND} /\ DOMAIN allocated = {}
  BY <1>2, <1>3 DEF Held, Free, Blocks
<1>9. Linked(header, g_free_list, Free)
  <2>1. After(Free, 0, m) /\ After(Free, m, HOLEEND) /\ After(Free, HOLEEND, 0)
    BY <1>1, <1>8 DEF After
  <2>2. Before(Free, m, 0) /\ Before(Free, HOLEEND, m)
    BY <1>1, <1>8 DEF Before
  <2>3. header[m].next = HOLEEND /\ header[m].prev = 0 /\ header[HOLEEND].next = 0 /\ header[HOLEEND].prev = m
    BY <1>4
  <2> QED BY <1>2, <1>8, <2>1, <2>2, <2>3 DEF Linked
<1>10. Touching(header, Free, {})
  BY <1>1, <1>6, <1>8 DEF Touching
<1>11. MemTypes /\ Grants
  BY <1>2, <1>8 DEF MemTypes, Grants
<1> QED BY <1>7, <1>9, <1>10, <1>11 DEF MemInv

\* What happens to MemInv when memory is left alone, or kmalloc returns NULL.
LEMMA MemInvSame ==
    ASSUME MemInv, result' \in Nat, UNCHANGED <<g_free_list, header, allocated>>
    PROVE  MemInv' /\ Held' = Held /\ \A b \in Held : End(b)' = End(b)
<1>1. Held' = Held /\ Blocks' = Blocks /\ Free' = Free
  BY DEF Held, Blocks, Free
<1>2. \A b : End(b)' = End(b)
  BY DEF End
<1>3. MemTypes' /\ Grants'
  BY <1>1, <1>2 DEF MemInv, MemTypes, Grants
<1> QED BY <1>1, <1>2, <1>3 DEF MemInv

\* The same of a kmalloc that fails.
LEMMA MemInvFails ==
    ASSUME MemInv, NEW size, kmalloc_fails(size)
    PROVE  MemInv' /\ Held' = Held /\ \A b \in Held : End(b)' = End(b)
<1>1. result' \in Nat /\ UNCHANGED <<g_free_list, header, allocated>>
  BY DEF kmalloc_fails
<1> QED BY <1>1, MemInvSame

\* Every step of the memory manager keeps the invariant.
LEMMA MemInvNext == MemInv /\ [Next]_memVars => MemInv'
<1> SUFFICES ASSUME MemInv, [Next]_memVars PROVE MemInv'
  OBVIOUS
<1>1. ASSUME NEW size \in Sizes, kmalloc(size) PROVE MemInv'
  BY <1>1, LayoutAssumption, Malloc
<1>2. ASSUME NEW size \in Sizes, kmalloc_fails(size) PROVE MemInv'
  BY <1>2, MemInvFails
<1>3. ASSUME NEW ptr \in DOMAIN allocated, kfree(ptr) PROVE MemInv'
  BY <1>3, FreeOne
<1>4. CASE UNCHANGED memVars
  BY <1>4, MemInvSame DEF memVars, MemInv, MemTypes
<1> QED BY <1>1, <1>2, <1>3, <1>4 DEF Next

\* The free list is in order, and no two free blocks touch.
LEMMA ListInOrder == MemInv => FreeListSound
<1> SUFFICES ASSUME MemInv PROVE FreeListSound
  OBVIOUS
<1>1. /\ Free \in SUBSET (Nat \ {0}) /\ Linked(header, g_free_list, Free)
      /\ Touching(header, Free, {}) /\ Free = Blocks \ Held
  BY FreeFacts DEF MemInv, Free
<1>2. ASSUME NEW b \in Nat, NEW c, After(Free, b, c)
      PROVE  c = IF {a \in Free : b < a} = {} THEN 0 ELSE Min({a \in Free : b < a})
  <2> DEFINE U == {a \in Free : b < a}
  <2>1. U \in SUBSET Nat
    BY <1>1
  <2>2. CASE U = {}
    BY <1>2, <2>2 DEF After
  <2>3. CASE U # {}
    <3>1. Min(U) \in U /\ \A y \in U : Min(U) <= y
      <4> HIDE DEF U
      <4> QED BY <2>1, <2>3, Least
    <3>2. c \in U /\ \A y \in U : c <= y
      BY <1>2, <2>3 DEF After
    <3>3. Min(U) <= c /\ c <= Min(U) /\ c \in Nat /\ Min(U) \in Nat
      <4> HIDE DEF U
      <4> QED BY <2>1, <3>1, <3>2
    <3> QED BY <2>3, <3>3
  <2> QED BY <2>2, <2>3
<1>3. ASSUME NEW b \in Free, NEW c, Before(Free, b, c)
      PROVE  c = Max({a \in Free : a < b} \cup {0})
  <2> DEFINE U == {a \in Free : a < b} \cup {0}
  <2>1. U \in SUBSET Nat /\ U # {} /\ b \in Nat /\ \A y \in U : y <= b
    <3>1. b \in Nat /\ 0 <= b
      BY <1>1
    <3>2. \A y \in Free : y \in Nat /\ (y < b => y <= b)
      BY <1>1
    <3>3. \A y \in U : y \in Nat /\ y <= b
      BY <3>1, <3>2
    <3> QED BY <3>1, <3>3
  <2>2. Max(U) \in U /\ \A y \in U : y <= Max(U)
    <3> HIDE DEF U
    <3> QED BY <2>1, Greatest
  <2>3. c \in U /\ \A y \in U : y <= c
    <3>1. c \in Free \cup {0} /\ c < b /\ \A a \in Free : a < b => a <= c
      BY <1>3 DEF Before
    <3>2. c \in Nat /\ 0 <= c
      BY <1>1, <3>1
    <3> QED BY <3>1, <3>2
  <2> HIDE DEF U
  <2>4. Max(U) <= c /\ c <= Max(U) /\ c \in Nat /\ Max(U) \in Nat
    BY <2>1, <2>2, <2>3
  <2>5. c = Max(U)
    BY <2>4
  <2> QED BY <2>5 DEF U
<1>4. g_free_list = IF Free = {} THEN 0 ELSE Min(Free)
  <2>1. {a \in Free : 0 < a} = Free
    BY <1>1
  <2>2. After(Free, 0, g_free_list)
    BY <1>1 DEF Linked
  <2> QED BY <1>2, <2>1, <2>2
<1>5. \A b \in Free :
         /\ header[b].next = IF {a \in Free : b < a} = {} THEN 0 ELSE Min({a \in Free : b < a})
         /\ header[b].prev = Max({a \in Free : a < b} \cup {0})
         /\ End(b) \notin Free
  <2> TAKE b \in Free
  <2>1. b \in Nat /\ After(Free, b, header[b].next) /\ Before(Free, b, header[b].prev)
    BY <1>1 DEF Linked
  <2>2. End(b) \notin Free
    BY <1>1 DEF Touching, End, EndIn
  <2>3. header[b].next = IF {a \in Free : b < a} = {} THEN 0 ELSE Min({a \in Free : b < a})
    BY <1>2, <2>1
  <2>4. header[b].prev = Max({a \in Free : a < b} \cup {0})
    BY <1>3, <2>1
  <2> QED BY <2>2, <2>3, <2>4
<1> HIDE DEF Free
<1> QED BY <1>1, <1>4, <1>5 DEF FreeListSound

\* Headers and what is handed out lie inside the regions.
LEMMA RoomForAll == MemInv => PointersGood
<1> SUFFICES ASSUME MemInv PROVE PointersGood
  OBVIOUS
<1>1. ASSUME NEW b \in Blocks
      PROVE  /\ b + 16 - 1 < HOLESTART \/ (HOLEEND <= b /\ b + 16 - 1 <= maxaddr)
             /\ b \in Nat /\ b % 16 = 0
  <2>1. /\ b \in Nat /\ b % 16 = 0 /\ InRegion(header, b)
        /\ EndIn(header, b) \in Nat /\ b < EndIn(header, b)
    BY Tiles DEF MemInv, Blocks
  <2>2. b < HOLESTART \/ (HOLEEND <= b /\ b < maxaddr)
    BY <2>1, Layout DEF InRegion
  <2>3. \A x \in Nat : x % 16 = 0 /\ b < x => b + 16 <= x
    BY <2>1
  <2>4. HOLESTART \in Nat /\ HOLESTART % 16 = 0 /\ maxaddr + 1 \in Nat /\ (maxaddr + 1) % 16 = 0 /\ maxaddr \in Nat
    BY Layout
  <2>5. CASE b < HOLESTART
    BY <2>1, <2>3, <2>4, <2>5
  <2>6. CASE HOLEEND <= b /\ b < maxaddr
    <3>1. b + 16 <= maxaddr + 1
      BY <2>1, <2>3, <2>4, <2>6
    <3> QED BY <2>1, <2>4, <2>6, <3>1
  <2> QED BY <2>2, <2>5, <2>6
<1>2. ASSUME NEW ptr \in DOMAIN allocated
      PROVE  /\ ptr % 16 = 0 /\ header[ptr - 16].sanity_check = ptr
             /\ ptr + allocated[ptr] <= End(ptr - 16)
  <2>1. ptr - 16 \in Blocks /\ ptr \in Nat
    BY DEF MemInv, MemTypes, Held
  <2>2. (ptr - 16) % 16 = 0 /\ ptr - 16 \in Nat
    BY <1>1, <2>1
  <2>3. ptr % 16 = 0
    BY <2>1, <2>2
  <2> QED BY <2>3 DEF MemInv, Grants
<1> QED BY <1>1, <1>2 DEF PointersGood

-----------------------------------------------------------------------------
(* Who owns what *)

\* One more.
LEMMA AddOne ==
    ASSUME NEW A, IsFiniteSet(A), NEW x, x \notin A
    PROVE  IsFiniteSet(A \cup {x}) /\ Cardinality(A \cup {x}) = Cardinality(A) + 1
BY FS_AddElement

\* One less.
LEMMA TakeOne ==
    ASSUME NEW A, IsFiniteSet(A), NEW x, x \in A
    PROVE  IsFiniteSet(A \ {x}) /\ Cardinality(A \ {x}) = Cardinality(A) - 1
BY FS_RemoveElement

\* None at all.
LEMMA None == IsFiniteSet({}) /\ Cardinality({}) = 0
BY FS_EmptySet

\* Exactly one.
LEMMA Single == ASSUME NEW x PROVE IsFiniteSet({x}) /\ Cardinality({x}) = 1
BY FS_Singleton

\* Start-up keeps a new pointer.
LEMMA Keep ==
    ASSUME NEW A, NEW K, NEW C, NEW stack, NEW S, NEW table, NEW L, NEW x, x \notin A,
           OwnedBy(A, K, C, stack, S, table, L), CountedBy(A, K, C, S, L)
    PROVE  OwnedBy(A \cup {x}, K \cup {x}, C, stack, S, table, L)
           /\ CountedBy(A \cup {x}, K \cup {x}, C, S, L)
<1>1. x \notin K
  BY DEF OwnedBy
<1>2. OwnedBy(A \cup {x}, K \cup {x}, C, stack, S, table, L)
  BY DEF OwnedBy
<1>3. CountedBy(A \cup {x}, K \cup {x}, C, S, L)
  <2>1. /\ Cardinality(A) \in Nat
        /\ Cardinality(K) \in Nat
        /\ Cardinality(C) \in Nat
        /\ Cardinality(S) \in Nat
        /\ Cardinality(L) \in Nat
    BY FS_CardinalityType DEF CountedBy
  <2>2. IsFiniteSet(A \cup {x}) /\ Cardinality(A \cup {x}) = Cardinality(A) + 1
    BY AddOne DEF CountedBy
  <2>3. IsFiniteSet(K \cup {x}) /\ Cardinality(K \cup {x}) = Cardinality(K) + 1
    BY <1>1, AddOne DEF CountedBy
  <2> QED BY <2>1, <2>2, <2>3 DEF CountedBy
<1> QED BY <1>2, <1>3

\* create has a new stack in hand.
LEMMA Take ==
    ASSUME NEW A, NEW K, NEW stack, NEW S, NEW table, NEW L, NEW x, x \notin A,
           OwnedBy(A, K, {}, stack, S, table, L), CountedBy(A, K, {}, S, L)
    PROVE  OwnedBy(A \cup {x}, K, {x}, stack, S, table, L) /\ CountedBy(A \cup {x}, K, {x}, S, L)
<1>1. OwnedBy(A \cup {x}, K, {x}, stack, S, table, L)
  BY DEF OwnedBy
<1>2. CountedBy(A \cup {x}, K, {x}, S, L)
  <2>1. /\ Cardinality(A) \in Nat
        /\ Cardinality(K) \in Nat
        /\ Cardinality(S) \in Nat
        /\ Cardinality(L) \in Nat
    BY FS_CardinalityType DEF CountedBy
  <2>2. IsFiniteSet(A \cup {x}) /\ Cardinality(A \cup {x}) = Cardinality(A) + 1
    BY AddOne DEF CountedBy
  <2>3. IsFiniteSet({x}) /\ Cardinality({x}) = 1
    BY Single
  <2>4. IsFiniteSet({}) /\ Cardinality({}) = 0
    BY None
  <2> QED BY <2>1, <2>2, <2>3, <2>4 DEF CountedBy
<1> QED BY <1>1, <1>2

\* The stack in hand and a new signal table go to the process p.
LEMMA Give ==
    ASSUME NEW A, NEW K, NEW h, NEW stack, NEW S, NEW table, NEW L, NEW x, x \notin A,
           OwnedBy(A, K, {h}, stack, S, table, L), CountedBy(A, K, {h}, S, L),
           NEW p, p \notin S, p \notin L, NEW stack2, NEW table2, stack2[p] = h, table2[p] = x,
           \A q : q # p => stack2[q] = stack[q] /\ table2[q] = table[q]
    PROVE  OwnedBy(A \cup {x}, K, {}, stack2, S \cup {p}, table2, L \cup {p})
           /\ CountedBy(A \cup {x}, K, {}, S \cup {p}, L \cup {p})
<1>1. (\A q \in S : stack2[q] = stack[q]) /\ (\A q \in L : table2[q] = table[q])
  OBVIOUS
<1>2. A \cup {x} = K \cup {} \cup {stack2[q] : q \in S \cup {p}} \cup {table2[q] : q \in L \cup {p}}
  BY <1>1 DEF OwnedBy
<1>3. h \in A /\ h # x /\ h \notin K /\ x \notin K
      /\ (\A q \in S : stack[q] \in A /\ stack[q] # h) /\ (\A q \in L : table[q] \in A /\ table[q] # h)
  BY DEF OwnedBy
<1>4. OwnedBy(A \cup {x}, K, {}, stack2, S \cup {p}, table2, L \cup {p})
  BY <1>1, <1>2, <1>3 DEF OwnedBy
<1>5. CountedBy(A \cup {x}, K, {}, S \cup {p}, L \cup {p})
  <2>1. /\ Cardinality(A) \in Nat
        /\ Cardinality(K) \in Nat
        /\ Cardinality(S) \in Nat
        /\ Cardinality(L) \in Nat
    BY FS_CardinalityType DEF CountedBy
  <2>2. IsFiniteSet(A \cup {x}) /\ Cardinality(A \cup {x}) = Cardinality(A) + 1
    BY AddOne DEF CountedBy
  <2>3. IsFiniteSet(S \cup {p}) /\ Cardinality(S \cup {p}) = Cardinality(S) + 1
    BY AddOne DEF CountedBy
  <2>4. IsFiniteSet(L \cup {p}) /\ Cardinality(L \cup {p}) = Cardinality(L) + 1
    BY AddOne DEF CountedBy
  <2>5. IsFiniteSet({h}) /\ Cardinality({h}) = 1
    BY Single
  <2>6. IsFiniteSet({}) /\ Cardinality({}) = 0
    BY None
  <2> QED BY <2>1, <2>2, <2>3, <2>4, <2>5, <2>6 DEF CountedBy
<1> QED BY <1>4, <1>5

\* create gives up the stack in hand.
LEMMA GiveUp ==
    ASSUME NEW A, NEW K, NEW h, NEW stack, NEW S, NEW table, NEW L,
           OwnedBy(A, K, {h}, stack, S, table, L), CountedBy(A, K, {h}, S, L)
    PROVE  h \in A /\ OwnedBy(A \ {h}, K, {}, stack, S, table, L) /\ CountedBy(A \ {h}, K, {}, S, L)
<1>1. h \in A
  BY DEF OwnedBy
<1>2. OwnedBy(A \ {h}, K, {}, stack, S, table, L)
  BY DEF OwnedBy
<1>3. CountedBy(A \ {h}, K, {}, S, L)
  <2>1. /\ Cardinality(A) \in Nat
        /\ Cardinality(K) \in Nat
        /\ Cardinality(S) \in Nat
        /\ Cardinality(L) \in Nat
    BY FS_CardinalityType DEF CountedBy
  <2>2. IsFiniteSet(A \ {h}) /\ Cardinality(A \ {h}) = Cardinality(A) - 1
    BY <1>1, TakeOne DEF CountedBy
  <2>3. IsFiniteSet({h}) /\ Cardinality({h}) = 1
    BY Single
  <2>4. IsFiniteSet({}) /\ Cardinality({}) = 0
    BY None
  <2> QED BY <2>1, <2>2, <2>3, <2>4 DEF CountedBy
<1> QED BY <1>1, <1>2, <1>3

\* The stack of p is freed.
LEMMA DropStack ==
    ASSUME NEW A, NEW K, NEW C, NEW stack, NEW S, NEW table, NEW L, NEW p, p \in S,
           OwnedBy(A, K, C, stack, S, table, L), CountedBy(A, K, C, S, L)
    PROVE  /\ stack[p] \in A
           /\ OwnedBy(A \ {stack[p]}, K, C, stack, S \ {p}, table, L)
           /\ CountedBy(A \ {stack[p]}, K, C, S \ {p}, L)
<1>1. stack[p] \in A
  BY DEF OwnedBy
<1>2. OwnedBy(A \ {stack[p]}, K, C, stack, S \ {p}, table, L)
  BY DEF OwnedBy
<1>3. CountedBy(A \ {stack[p]}, K, C, S \ {p}, L)
  <2>1. /\ Cardinality(A) \in Nat
        /\ Cardinality(K) \in Nat
        /\ Cardinality(C) \in Nat
        /\ Cardinality(S) \in Nat
        /\ Cardinality(L) \in Nat
    BY FS_CardinalityType DEF CountedBy
  <2>2. IsFiniteSet(A \ {stack[p]}) /\ Cardinality(A \ {stack[p]}) = Cardinality(A) - 1
    BY <1>1, TakeOne DEF CountedBy
  <2>3. IsFiniteSet(S \ {p}) /\ Cardinality(S \ {p}) = Cardinality(S) - 1
    BY TakeOne DEF CountedBy
  <2> QED BY <2>1, <2>2, <2>3 DEF CountedBy
<1> QED BY <1>1, <1>2, <1>3

\* The same of its signal table, when its stack is gone.
LEMMA DropTable ==
    ASSUME NEW A, NEW K, NEW C, NEW stack, NEW S, NEW table, NEW L, NEW p, p \in L,
           OwnedBy(A, K, C, stack, S, table, L), CountedBy(A, K, C, S, L)
    PROVE  /\ table[p] \in A
           /\ OwnedBy(A \ {table[p]}, K, C, stack, S, table, L \ {p})
           /\ CountedBy(A \ {table[p]}, K, C, S, L \ {p})
<1>1. table[p] \in A
  BY DEF OwnedBy
<1>2. OwnedBy(A \ {table[p]}, K, C, stack, S, table, L \ {p})
  BY DEF OwnedBy
<1>3. CountedBy(A \ {table[p]}, K, C, S, L \ {p})
  <2>1. /\ Cardinality(A) \in Nat
        /\ Cardinality(K) \in Nat
        /\ Cardinality(C) \in Nat
        /\ Cardinality(S) \in Nat
        /\ Cardinality(L) \in Nat
    BY FS_CardinalityType DEF CountedBy
  <2>2. IsFiniteSet(A \ {table[p]}) /\ Cardinality(A \ {table[p]}) = Cardinality(A) - 1
    BY <1>1, TakeOne DEF CountedBy
  <2>3. IsFiniteSet(L \ {p}) /\ Cardinality(L \ {p}) = Cardinality(L) - 1
    BY TakeOne DEF CountedBy
  <2> QED BY <2>1, <2>2, <2>3 DEF CountedBy
<1> QED BY <1>1, <1>2, <1>3

\* kmalloc hands out what nobody has.
LEMMA Handed ==
    ASSUME MemInv, NEW size \in Nat, kmalloc(size)
    PROVE  /\ MemInv' /\ result' \notin DOMAIN allocated
           /\ DOMAIN allocated' = DOMAIN allocated \cup {result'}
<1> DEFINE c == first_fit(size)
<1>1. MemInv' /\ c \in Free /\ result' = c + 16 /\ allocated' = put(allocated, c + 16, size)
  BY Malloc DEF Mallocs
<1>2. DOMAIN allocated' = DOMAIN allocated \cup {result'}
  BY <1>1 DEF put
<1>3. c \in Nat /\ c \notin Held
  BY <1>1, FreeFacts
<1> HIDE DEF c
<1>4. result' - 16 = c
  BY <1>1, <1>3
<1> QED BY <1>1, <1>2, <1>3, <1>4 DEF Held

\* What kfree does to the pointers that are handed out.
LEMMA HandedBack ==
    ASSUME MemInv, NEW ptr, ptr \in DOMAIN allocated, kfree(ptr)
    PROVE  MemInv' /\ DOMAIN allocated' = DOMAIN allocated \ {ptr}
<1>1. MemInv' /\ allocated' = [q \in DOMAIN allocated \ {ptr} |-> allocated[q]]
  BY FreeOne DEF Freed
<1> QED BY <1>1

\* The owners, in the steps of the kernel.
LEMMA InUser ==
    /\ step \in {"user", "boot"} => InHand = {} /\ Stacked = Living
    /\ step \in {"pcb", "undo"} => InHand = {stack_bottom} /\ Stacked = Living
    /\ step = "table" => InHand = {} /\ Stacked = Living \ {dying}
BY DEF InHand, Stacked

\* The same after a step.
LEMMA InUserNext ==
    /\ step' \in {"user", "boot"} => InHand' = {} /\ Stacked' = Living'
    /\ step' \in {"pcb", "undo"} => InHand' = {stack_bottom'} /\ Stacked' = Living'
    /\ step' = "table" => InHand' = {} /\ Stacked' = Living' \ {dying'}
BY DEF InHand, Stacked

\* Start-up establishes the invariant of the callers.
LEMMA ProcInvInit == ProcInit => ProcInv
<1> SUFFICES ASSUME ProcInit PROVE ProcInv
  OBVIOUS
<1>1. MemInv /\ DOMAIN allocated = {} /\ kept = {} /\ step = "boot" /\ booted = 0 /\ stopped = Pcbs
  BY MemInvInit DEF ProcInit, Init
<1>2. Living = {} /\ Stacked = {} /\ InHand = {}
  BY <1>1 DEF Living, Stacked, InHand
<1>3. ProcTypes
  <2>1. AtBoot \in Seq(Sizes) /\ AtBoot # <<>>
    BY StackSizeAssumption
  <2>2. Len(AtBoot) \in Nat /\ 0 < Len(AtBoot)
    BY <2>1
  <2> QED BY <1>1, <2>2 DEF ProcTypes, ProcInit
<1>4. Owners
  BY <1>1, <1>2 DEF Owners, OwnedBy
<1>5. Counted
  BY <1>1, <1>2, None DEF Counted, CountedBy
<1> QED BY <1>1, <1>3, <1>4, <1>5 DEF ProcInv

\* The sizes that the callers ask for are natural numbers.
LEMMA SizesAsked ==
    /\ TABLE \in Nat
    /\ \A n \in 0..(Len(AtBoot) - 1) : AtBoot[n + 1] \in Nat
    /\ \A s \in Stacks : (IF s < DEFAULT_STACK_SIZE THEN DEFAULT_STACK_SIZE ELSE s) \in Nat
<1>1. Sizes \subseteq Nat /\ TABLE \in Sizes /\ DEFAULT_STACK_SIZE \in Sizes /\ AtBoot \in Seq(Sizes)
      /\ Stacks \subseteq Nat
  BY StackSizeAssumption, LayoutAssumption
<1>2. \A n \in 0..(Len(AtBoot) - 1) : AtBoot[n + 1] \in Nat
  <2> TAKE n \in 0..(Len(AtBoot) - 1)
  <2>1. Len(AtBoot) \in Nat /\ AtBoot \in [1..Len(AtBoot) -> Sizes]
    BY <1>1
  <2>2. n + 1 \in 1..Len(AtBoot)
    BY <2>1
  <2>3. AtBoot[n + 1] \in Sizes
    BY <2>1, <2>2
  <2> QED BY <1>1, <2>3
<1> QED BY <1>1, <1>2

\* Every step of the callers keeps it.
LEMMA ProcInvNext == ProcInv /\ [ProcNext]_<<memVars, procVars>> => ProcInv'
<1> SUFFICES ASSUME ProcInv, [ProcNext]_<<memVars, procVars>> PROVE ProcInv'
  OBVIOUS
<1> DEFINE A == DOMAIN allocated  A2 == DOMAIN allocated'
<1>1. MemInv /\ ProcTypes /\ OwnedBy(A, kept, InHand, memory_region, Stacked, signal_table, Living)
      /\ CountedBy(A, kept, InHand, Stacked, Living)
  BY DEF ProcInv, Owners, Counted
<1>2. SUFFICES /\ MemInv' /\ ProcTypes'
               /\ OwnedBy(A2, kept', InHand', memory_region', Stacked', signal_table', Living')
               /\ CountedBy(A2, kept', InHand', Stacked', Living')
  BY <1>2 DEF ProcInv, Owners, Counted
<1> HIDE DEF A, A2
<1>3. CASE boot
  <2> DEFINE x == result'
  <2>1. /\ step = "boot" /\ kmalloc(AtBoot[booted + 1]) /\ kept' = kept \cup {x} /\ booted' = booted + 1
        /\ step' = IF booted' = Len(AtBoot) THEN "user" ELSE "boot"
        /\ UNCHANGED <<stack_bottom, dying, stopped, memory_region, signal_table>>
    BY <1>3 DEF boot
  <2>2. booted \in 0..(Len(AtBoot) - 1) /\ Len(AtBoot) \in Nat
    <3>1. AtBoot \in Seq(Sizes)
      BY StackSizeAssumption
    <3>2. Len(AtBoot) \in Nat
      BY <3>1
    <3> QED BY <1>1, <2>1, <3>2 DEF ProcTypes
  <2>3. AtBoot[booted + 1] \in Nat
    BY <2>2, SizesAsked
  <2>4. MemInv' /\ x \notin A /\ A2 = A \cup {x}
    BY <1>1, <2>1, <2>3, Handed DEF A, A2
  <2> HIDE DEF x
  <2>5. Living' = Living /\ InHand = {} /\ Stacked = Living /\ InHand' = {} /\ Stacked' = Living
    BY <2>1, InUser, InUserNext DEF Living
  <2>6. ProcTypes'
    BY <1>1, <2>1, <2>2 DEF ProcTypes, Living
  <2>7. /\ OwnedBy(A \cup {x}, kept \cup {x}, {}, memory_region, Living, signal_table, Living)
        /\ CountedBy(A \cup {x}, kept \cup {x}, {}, Living, Living)
    BY <1>1, <2>4, <2>5, Keep
  <2> QED BY <2>1, <2>4, <2>5, <2>6, <2>7
<1>4. ASSUME NEW stack \in Stacks, create_stack(stack)
      PROVE  /\ MemInv' /\ ProcTypes'
             /\ OwnedBy(A2, kept', InHand', memory_region', Stacked', signal_table', Living')
             /\ CountedBy(A2, kept', InHand', Stacked', Living')
  <2> DEFINE size == IF stack < DEFAULT_STACK_SIZE THEN DEFAULT_STACK_SIZE ELSE stack
             x == result'
  <2>1. /\ step = "user"
        /\ \/ kmalloc(size) /\ stack_bottom' = x /\ step' = "pcb"
           \/ kmalloc_fails(size) /\ UNCHANGED <<stack_bottom, step>>
        /\ UNCHANGED <<booted, kept, dying, stopped, memory_region, signal_table>>
    BY <1>4 DEF create_stack
  <2>2. size \in Nat
    BY SizesAsked
  <2> HIDE DEF size
  <2>3. Living' = Living /\ InHand = {} /\ Stacked = Living
    BY <2>1, InUser DEF Living
  <2>4. ProcTypes'
    BY <1>1, <2>1 DEF ProcTypes, Living
  <2>5. CASE kmalloc(size) /\ stack_bottom' = x /\ step' = "pcb"
    <3>1. MemInv' /\ x \notin A /\ A2 = A \cup {x}
      BY <1>1, <2>2, <2>5, Handed DEF A, A2
    <3>2. InHand' = {x} /\ Stacked' = Living
      BY <2>3, <2>5, InUserNext
    <3> HIDE DEF x
    <3>3. /\ OwnedBy(A \cup {x}, kept, {x}, memory_region, Living, signal_table, Living)
          /\ CountedBy(A \cup {x}, kept, {x}, Living, Living)
      BY <1>1, <2>3, <3>1, Take
    <3> QED BY <2>1, <2>3, <2>4, <3>1, <3>2, <3>3
  <2>6. CASE kmalloc_fails(size) /\ UNCHANGED <<stack_bottom, step>>
    <3>1. MemInv' /\ A2 = A
      BY <1>1, <2>6, MemInvFails DEF kmalloc_fails, A, A2
    <3>2. InHand' = {} /\ Stacked' = Living
      BY <2>1, <2>3, <2>6, InUserNext
    <3> QED BY <1>1, <2>1, <2>3, <2>4, <3>1, <3>2
  <2> QED BY <2>1, <2>5, <2>6
<1>5. CASE get_next_available_pcb
  <2>1. step = "pcb" /\ UNCHANGED <<booted, kept, dying>>
    BY <1>5 DEF get_next_available_pcb
  <2>2. InHand = {stack_bottom} /\ Stacked = Living
    BY <2>1, InUser
  <2>3. ASSUME NEW p \in stopped, kmalloc(TABLE), stopped' = stopped \ {p},
               signal_table' = [signal_table EXCEPT ![p] = result'],
               memory_region' = [memory_region EXCEPT ![p] = stack_bottom],
               step' = "user", stack_bottom' = 0
        PROVE  /\ MemInv' /\ ProcTypes'
               /\ OwnedBy(A2, kept', InHand', memory_region', Stacked', signal_table', Living')
               /\ CountedBy(A2, kept', InHand', Stacked', Living')
    <3> DEFINE x == result'  stack2 == memory_region'  table2 == signal_table'
    <3>1. MemInv' /\ x \notin A /\ A2 = A \cup {x}
      BY <1>1, <2>3, SizesAsked, Handed DEF A, A2
    <3>2. ProcTypes'
      BY <1>1, <2>1, <2>3 DEF ProcTypes, Living
    <3>3. p \in Pcbs /\ p \notin Living /\ Living' = Living \cup {p}
      BY <1>1, <2>3 DEF ProcTypes, Living
    <3>4. InHand' = {} /\ Stacked' = Living \cup {p}
      BY <2>3, <3>3, InUserNext
    <3>5. stack2[p] = stack_bottom /\ table2[p] = x
      BY <1>1, <2>3, <3>3 DEF ProcTypes
    <3>6. \A q : q # p => stack2[q] = memory_region[q] /\ table2[q] = signal_table[q]
      BY <2>3
    <3> HIDE DEF x, stack2, table2
    <3>7. /\ OwnedBy(A \cup {x}, kept, {}, stack2, Living \cup {p}, table2, Living \cup {p})
          /\ CountedBy(A \cup {x}, kept, {}, Living \cup {p}, Living \cup {p})
      <4>1. OwnedBy(A, kept, {stack_bottom}, memory_region, Living, signal_table, Living)
            /\ CountedBy(A, kept, {stack_bottom}, Living, Living)
        BY <1>1, <2>2
      <4> QED BY <3>1, <3>3, <3>5, <3>6, <4>1, Give
    <3> QED BY <2>1, <3>1, <3>2, <3>3, <3>4, <3>7 DEF stack2, table2
  <2>4. ASSUME kmalloc_fails(TABLE) \/ UNCHANGED memVars, step' = "undo",
               UNCHANGED <<stopped, stack_bottom, signal_table, memory_region>>
        PROVE  /\ MemInv' /\ ProcTypes'
               /\ OwnedBy(A2, kept', InHand', memory_region', Stacked', signal_table', Living')
               /\ CountedBy(A2, kept', InHand', Stacked', Living')
    <3>1. MemInv' /\ A2 = A
      <4>1. CASE kmalloc_fails(TABLE)
        BY <1>1, <4>1, MemInvFails DEF kmalloc_fails, A, A2
      <4>2. CASE UNCHANGED memVars
        BY <1>1, <4>2, MemInvSame DEF memVars, MemInv, MemTypes, A, A2
      <4> QED BY <2>4, <4>1, <4>2
    <3>2. ProcTypes'
      BY <1>1, <2>1, <2>4 DEF ProcTypes, Living
    <3>3. Living' = Living /\ InHand' = {stack_bottom} /\ Stacked' = Living
      BY <2>4, InUserNext DEF Living
    <3> QED BY <1>1, <2>1, <2>2, <2>4, <3>1, <3>2, <3>3
  <2> QED BY <1>5, <2>3, <2>4 DEF get_next_available_pcb
<1>6. CASE create_undo
  <2> DEFINE x == stack_bottom
  <2>1. /\ step = "undo" /\ step' = "user" /\ kfree(x)
        /\ UNCHANGED <<booted, kept, dying, stopped, memory_region, signal_table>>
    BY <1>6 DEF create_undo
  <2>2. InHand = {x} /\ Stacked = Living /\ Living' = Living /\ InHand' = {} /\ Stacked' = Living
    BY <2>1, InUser, InUserNext DEF Living
  <2> HIDE DEF x
  <2>3. /\ x \in A /\ OwnedBy(A \ {x}, kept, {}, memory_region, Living, signal_table, Living)
        /\ CountedBy(A \ {x}, kept, {}, Living, Living)
    <3>1. OwnedBy(A, kept, {x}, memory_region, Living, signal_table, Living)
          /\ CountedBy(A, kept, {x}, Living, Living)
      BY <1>1, <2>2
    <3> QED BY <3>1, GiveUp
  <2>4. MemInv' /\ A2 = A \ {x}
    BY <1>1, <2>1, <2>3, HandedBack DEF A, A2
  <2>5. ProcTypes'
    BY <1>1, <2>1 DEF ProcTypes, Living
  <2> QED BY <2>1, <2>2, <2>3, <2>4, <2>5
<1>7. ASSUME NEW p \in Pcbs, cleanup_stack(p)
      PROVE  /\ MemInv' /\ ProcTypes'
             /\ OwnedBy(A2, kept', InHand', memory_region', Stacked', signal_table', Living')
             /\ CountedBy(A2, kept', InHand', Stacked', Living')
  <2> DEFINE x == memory_region[p]
  <2>1. /\ step = "user" /\ step' = "table" /\ kfree(x) /\ dying' = p /\ p \notin stopped
        /\ UNCHANGED <<booted, kept, stack_bottom, stopped, memory_region, signal_table>>
    BY <1>7 DEF cleanup_stack
  <2>2. /\ InHand = {} /\ Stacked = Living /\ Living' = Living /\ InHand' = {} /\ Stacked' = Living \ {p}
        /\ p \in Living
    BY <2>1, InUser, InUserNext DEF Living
  <2>3. /\ x \in A /\ OwnedBy(A \ {x}, kept, {}, memory_region, Living \ {p}, signal_table, Living)
        /\ CountedBy(A \ {x}, kept, {}, Living \ {p}, Living)
    <3>1. OwnedBy(A, kept, {}, memory_region, Living, signal_table, Living)
          /\ CountedBy(A, kept, {}, Living, Living)
      BY <1>1, <2>2
    <3> QED BY <2>2, <3>1, DropStack
  <2>4. MemInv' /\ A2 = A \ {x}
    <3> HIDE DEF x
    <3> QED BY <1>1, <2>1, <2>3, HandedBack DEF A, A2
  <2>5. ProcTypes'
    BY <1>1, <2>1, <2>2 DEF ProcTypes
  <2> QED BY <2>1, <2>2, <2>3, <2>4, <2>5
<1>8. CASE cleanup_table
  <2> DEFINE p == dying  x == signal_table[p]
  <2>1. /\ step = "table" /\ step' = "user" /\ kfree(x) /\ stopped' = stopped \cup {p}
        /\ UNCHANGED <<booted, kept, stack_bottom, memory_region, signal_table>>
    BY <1>8 DEF cleanup_table
  <2>2. p \in Living
    BY <1>1, <2>1 DEF ProcTypes
  <2>3. Living' = Living \ {p}
    BY <2>1 DEF Living
  <2>4. InHand = {} /\ Stacked = Living \ {p} /\ InHand' = {} /\ Stacked' = Living \ {p}
    BY <2>1, <2>3, InUser, InUserNext
  <2>5. ProcTypes'
    BY <1>1, <2>1, <2>2 DEF ProcTypes, Living
  <2> HIDE DEF p
  <2>6. /\ x \in A /\ OwnedBy(A \ {x}, kept, {}, memory_region, Living \ {p}, signal_table, Living \ {p})
        /\ CountedBy(A \ {x}, kept, {}, Living \ {p}, Living \ {p})
    <3>1. OwnedBy(A, kept, {}, memory_region, Living \ {p}, signal_table, Living)
          /\ CountedBy(A, kept, {}, Living \ {p}, Living)
      BY <1>1, <2>4
    <3> QED BY <2>2, <3>1, DropTable
  <2>7. MemInv' /\ A2 = A \ {x}
    <3> HIDE DEF x
    <3> QED BY <1>1, <2>1, <2>6, HandedBack DEF A, A2
  <2> QED BY <2>1, <2>3, <2>4, <2>5, <2>6, <2>7
<1>9. CASE UNCHANGED <<memVars, procVars>>
  <2>1. /\ UNCHANGED <<g_free_list, header, allocated>> /\ result' = result
        /\ UNCHANGED <<step, booted, kept, stack_bottom, dying, stopped, memory_region, signal_table>>
    BY <1>9 DEF memVars, procVars
  <2>2. MemInv' /\ A2 = A
    BY <1>1, <2>1, MemInvSame DEF MemInv, MemTypes, A, A2
  <2>3. Living' = Living /\ Stacked' = Stacked /\ InHand' = InHand
    BY <2>1 DEF Living, Stacked, InHand
  <2>4. ProcTypes'
    BY <1>1, <2>1, <2>3 DEF ProcTypes
  <2> QED BY <1>1, <2>1, <2>2, <2>3, <2>4
<1> QED BY <1>3, <1>4, <1>5, <1>6, <1>7, <1>8, <1>9 DEF ProcNext

\* Between handlers the owners are the living processes and start-up.
LEMMA OwnersOnce == ProcInv => OwnedOnce
<1> SUFFICES ASSUME ProcInv, step = "user" PROVE OwnedOnce
  BY DEF OwnedOnce
<1>1. /\ OwnedBy(DOMAIN allocated, kept, {}, memory_region, Living, signal_table, Living)
      /\ CountedBy(DOMAIN allocated, kept, {}, Living, Living)
  BY InUser DEF ProcInv, Owners, Counted
<1>2. Cardinality(kept) \in Nat /\ Cardinality(Living) \in Nat /\ Cardinality({}) = 0
  BY <1>1, FS_CardinalityType, None DEF CountedBy
<1>3. Cardinality(DOMAIN allocated) = Cardinality(kept) + 2 * Cardinality(Living)
  BY <1>1, <1>2 DEF CountedBy
<1>4. DOMAIN allocated = kept \cup {memory_region[p] : p \in Living} \cup {signal_table[p] : p \in Living}
  BY <1>1 DEF OwnedBy
<1> QED BY <1>3, <1>4 DEF OwnedOnce

-----------------------------------------------------------------------------
(* User pointers *)

\* A buffer inside what a pointer was handed out for is accepted.
LEMMA InsidePasses ==
    ASSUME MemInv, NEW ptr \in DOMAIN allocated, NEW addr \in Nat, NEW len \in Nat \ {0},
           ptr <= addr, addr + len <= ptr + allocated[ptr]
    PROVE  verify_usrptr(addr, len)
<1> DEFINE b == ptr - 16
<1>1. b \in Blocks /\ ptr \in Nat /\ allocated[ptr] \in Nat /\ ptr + allocated[ptr] <= End(b)
  BY DEF MemInv, MemTypes, Held, Grants
<1>2. /\ b \in Nat \ {0} /\ InRegion(header, b) /\ EndIn(header, b) \in Nat /\ End(b) = EndIn(header, b)
      /\ b < EndIn(header, b)
  BY <1>1, Tiles DEF MemInv, Blocks, End, EndIn
<1> DEFINE e == EndIn(header, b)
<1>3. /\ e \in Nat /\ addr + len <= e /\ b + 16 <= addr /\ b \in Nat \ {0}
      /\ (memstart <= b /\ e <= HOLESTART) \/ (HOLEEND <= b /\ e <= maxaddr)
  BY <1>1, <1>2 DEF InRegion
<1> HIDE DEF b, e
<1>4. KERNEL_STACK \in Nat
  BY StackAssumption
<1>5. addr > 0 /\ addr + len - 1 <= maxaddr /\ addr <= addr + len - 1 /\ addr + len - 1 \in Nat
  BY <1>3, Layout
<1>6. ~falls_in_hole(addr) /\ ~falls_in_hole(addr + len - 1)
  BY <1>3, <1>5, Layout DEF falls_in_hole
<1>7. ~falls_in_kstack(addr) /\ ~falls_in_kstack(addr + len - 1)
  BY <1>3, <1>4, <1>5, Layout DEF falls_in_kstack
<1>8. ~(addr <= 0 \/ addr + len - 1 > maxaddr)
  BY <1>5, Layout
<1> QED BY <1>6, <1>7, <1>8 DEF verify_usrptr

\* The stacks of living processes pass the checks.
LEMMA StackChecks == ProcInv => StacksPass
<1> SUFFICES ASSUME ProcInv, step = "user", NEW p \in Living, NEW len \in {1, KERNEL_STACK - 1},
                    len <= allocated[memory_region[p]]
             PROVE  LET stack == memory_region[p]
                    IN  /\ verify_usrptr(stack, len) /\ verify_usrptr(stack + allocated[stack] - len, len)
                        /\ verify_usrstr(stack + allocated[stack] - len, len - 1)
  BY DEF StacksPass
<1> DEFINE stack == memory_region[p]  last == stack + allocated[stack] - len
<1>1. MemInv /\ stack \in DOMAIN allocated
  BY InUser DEF ProcInv, Owners, OwnedBy
<1>2. stack \in Nat /\ allocated[stack] \in Nat /\ len \in Nat \ {0} /\ len <= allocated[stack]
  BY <1>1, StackAssumption DEF MemInv, MemTypes
<1>3. verify_usrptr(stack, len)
  <2> HIDE DEF stack
  <2>1. stack <= stack /\ stack + len <= stack + allocated[stack]
    BY <1>2
  <2> QED BY <1>1, <1>2, <2>1, InsidePasses
<1>4. last \in Nat /\ stack <= last /\ last + len = stack + allocated[stack]
  BY <1>2
<1> HIDE DEF stack, last
<1>5. verify_usrptr(last, len)
  <2>1. last + len <= stack + allocated[stack]
    BY <1>2, <1>4
  <2> QED BY <1>1, <1>2, <1>4, <2>1, InsidePasses
<1>6. verify_usrstr(last, len - 1)
  <2> SUFFICES ASSUME NEW i \in 0..(len - 1) PROVE verify_usrptr(last + i, 1)
    BY DEF verify_usrstr
  <2> DEFINE addr == last + i
  <2>1. addr \in Nat /\ stack <= addr /\ addr + 1 <= stack + allocated[stack] /\ 1 \in Nat \ {0}
    BY <1>2, <1>4
  <2> HIDE DEF addr
  <2>2. verify_usrptr(addr, 1)
    BY <1>1, <2>1, InsidePasses
  <2> QED BY <2>2 DEF addr
<1> QED BY <1>3, <1>5, <1>6 DEF stack, last

-----------------------------------------------------------------------------
(* The heap that mem.c implements *)

\* Something begins or ends at x, in the region from lo to hi.
Edge(x, lo, hi) == \/ x = lo \/ x = hi
                   \/ lo <= x /\ x <= hi /\ \E b \in Held : x = b \/ x = End(b)

\* Nothing is handed out from s to e.
Gap(s, e, lo, hi) == /\ Edge(s, lo, hi) /\ Edge(e, lo, hi) /\ s < e
                     /\ \A b \in Held : End(b) <= s \/ e <= b

\* The gaps of Heap, in terms of blocks.
LEMMA GapsAre ==
    ASSUME NEW n, NEW s
    PROVE  s \in H!Fits(n) <=> \E e : /\ Gap(s, e, memstart, HOLESTART) \/ Gap(s, e, HOLEEND, maxaddr)
                                      /\ s + n <= e
<1> DEFINE areas == {[start |-> b, end |-> End(b)] : b \in Held}
           r1 == [start |-> memstart, end |-> HOLESTART]
           r2 == [start |-> HOLEEND, end |-> maxaddr]
           points == UNION {{a.start, a.end} : a \in areas}
           edges(r) == {r.start, r.end} \cup {x \in points : r.start <= x /\ x <= r.end}
           gaps == {g \in UNION {[start : edges(r), end : edges(r)] : r \in {r1, r2}} :
                      /\ g.start < g.end
                      /\ \A a \in areas : a.end <= g.start \/ g.end <= a.start}
<1>1. H!Fits(n) = {g.start : g \in {h \in gaps : h.start + n <= h.end}}
  BY DEF H!Fits, H!Gaps, H!Edges
<1> DEFINE area(b) == [start |-> b, end |-> End(b)]
<1>2. \A b : area(b).start = b /\ area(b).end = End(b)
  OBVIOUS
<1>3. areas = {area(b) : b \in Held}
  OBVIOUS
<1> HIDE DEF area, areas
<1>4. \A x : x \in points <=> \E b \in Held : x = b \/ x = End(b)
  <2> TAKE x
  <2>1. ASSUME x \in points PROVE \E b \in Held : x = b \/ x = End(b)
    <3>1. PICK a \in areas : x = a.start \/ x = a.end
      BY <2>1
    <3>2. PICK b \in Held : a = area(b)
      BY <1>3, <3>1
    <3> QED BY <1>2, <3>1, <3>2
  <2>2. ASSUME NEW b \in Held, x = b \/ x = End(b) PROVE x \in points
    <3>1. area(b) \in areas /\ (x = area(b).start \/ x = area(b).end)
      BY <1>2, <1>3, <2>2
    <3> QED BY <3>1
  <2> QED BY <2>1, <2>2
<1> HIDE DEF points
<1>5. \A x : x \in edges(r1) <=> Edge(x, memstart, HOLESTART)
  BY <1>4 DEF Edge
<1>6. \A x : x \in edges(r2) <=> Edge(x, HOLEEND, maxaddr)
  BY <1>4 DEF Edge
<1> HIDE DEF edges
<1>7. \A g : (\A a \in areas : a.end <= g.start \/ g.end <= a.start)
                <=> \A b \in Held : End(b) <= g.start \/ g.end <= b
  BY <1>2, <1>3
<1>8. \A g : g \in gaps <=> /\ g \in [start : edges(r1), end : edges(r1)] \/ g \in [start : edges(r2), end : edges(r2)]
                            /\ g.start < g.end
                            /\ \A b \in Held : End(b) <= g.start \/ g.end <= b
  BY <1>7
<1> HIDE DEF gaps, r1, r2
<1>9. ASSUME s \in H!Fits(n)
      PROVE  \E e : (Gap(s, e, memstart, HOLESTART) \/ Gap(s, e, HOLEEND, maxaddr)) /\ s + n <= e
  <2>1. PICK g \in gaps : g.start + n <= g.end /\ s = g.start
    BY <1>1, <1>9
  <2>2. Gap(s, g.end, memstart, HOLESTART) \/ Gap(s, g.end, HOLEEND, maxaddr)
    BY <1>5, <1>6, <1>8, <2>1 DEF Gap
  <2> QED BY <2>1, <2>2
<1>10. ASSUME NEW e, Gap(s, e, memstart, HOLESTART) \/ Gap(s, e, HOLEEND, maxaddr), s + n <= e
      PROVE  s \in H!Fits(n)
  <2> DEFINE g == [start |-> s, end |-> e]
  <2>1. g \in gaps
    BY <1>5, <1>6, <1>8, <1>10 DEF Gap
  <2>2. g.start = s /\ g.start + n <= g.end
    BY <1>10
  <2> HIDE DEF g
  <2> QED BY <1>1, <2>1, <2>2
<1> QED BY <1>9, <1>10

\* A block begins where its region does, or where another block ends.
LEMMA Predecessor ==
    ASSUME MemInv, NEW f \in Blocks
    PROVE  f \in {memstart, HOLEEND} \/ \E a \in Blocks : End(a) = f
<1> SUFFICES ASSUME f # memstart, f # HOLEEND PROVE \E a \in Blocks : End(a) = f
  OBVIOUS
<1>1. /\ Blocks \in SUBSET (Nat \ {0}) /\ Tiled(header) /\ Blocks = DOMAIN header
      /\ \A a : End(a) = EndIn(header, a)
  BY FreeFacts DEF MemInv, Blocks, End, EndIn
<1>2. /\ {memstart, HOLEEND} \subseteq Blocks
      /\ \A a \in Blocks : /\ End(a) \in Nat /\ a < End(a)
                           /\ End(a) \in Blocks \cup {HOLESTART, maxaddr}
                           /\ (memstart <= a /\ End(a) <= HOLESTART) \/ (HOLEEND <= a /\ End(a) <= maxaddr)
                           /\ \A b \in Blocks : a < b => End(a) <= b
  BY <1>1, Tiles DEF Tiled, InRegion
<1> DEFINE U == {a \in Blocks : a < f}
<1>3. f \in Nat /\ U \in SUBSET Nat /\ U # {} /\ \A y \in U : y <= f
  <2>1. f \in Nat /\ \A y \in Blocks : y \in Nat /\ (y < f => y <= f)
    BY <1>1
  <2>2. memstart < f \/ HOLEEND < f
    BY <1>2, <2>1, Layout
  <2> QED BY <1>2, <2>1, <2>2
<1>4. Max(U) \in U /\ \A y \in U : y <= Max(U)
  <2> HIDE DEF U
  <2> QED BY <1>3, Greatest
<1> DEFINE a == Max(U)
<1>5. a \in Blocks /\ a < f /\ \A y \in Blocks : y < f => y <= a
  BY <1>4
<1> HIDE DEF a, U
<1>6. a \in Nat /\ End(a) <= f /\ End(a) \in Nat /\ a < End(a)
  BY <1>1, <1>2, <1>5
<1>7. ASSUME End(a) < f PROVE FALSE
  <2>1. End(a) \notin Blocks
    <3>1. End(a) \in Blocks => End(a) <= a
      BY <1>5, <1>7
    <3> QED BY <1>6, <3>1
  <2>2. End(a) = HOLESTART \/ End(a) = maxaddr
    BY <1>2, <1>5, <2>1
  <2>3. f < HOLESTART \/ (HOLEEND < f /\ f < maxaddr)
    BY <1>2, <1>3, Layout
  <2>4. HOLEEND < f => HOLEEND <= a
    BY <1>2, <1>5
  <2>5. HOLESTART \in Nat /\ HOLEEND \in Nat /\ maxaddr \in Nat /\ HOLESTART < HOLEEND
    BY Layout
  <2>6. CASE f < HOLESTART
    BY <1>3, <1>6, <1>7, <2>2, <2>5, <2>6, Layout
  <2>7. CASE HOLEEND < f /\ f < maxaddr
    <3>1. HOLEEND <= a
      BY <2>4, <2>7
    <3> QED BY <1>3, <1>6, <1>7, <2>2, <2>5, <2>7, <3>1
  <2> QED BY <2>3, <2>6, <2>7
<1> QED BY <1>3, <1>5, <1>6, <1>7

\* A request fits where a free block is large enough.
LEMMA FitsAre ==
    ASSUME MemInv, NEW n \in Nat \ {0}
    PROVE  H!Fits(n) = {f \in Free : n <= header[f].size}
<1>1. /\ Blocks \in SUBSET (Nat \ {0}) /\ Blocks = Free \cup Held /\ Free \cap Held = {}
      /\ Touching(header, Free, {}) /\ Tiled(header) /\ Blocks = DOMAIN header
      /\ \A a : End(a) = EndIn(header, a)
  BY FreeFacts DEF MemInv, Blocks, End, EndIn
<1>2. /\ {memstart, HOLEEND} \subseteq Blocks
      /\ \A a \in Blocks : /\ End(a) \in Nat /\ a < End(a) /\ a \in Nat
                           /\ End(a) \in Blocks \cup {HOLESTART, maxaddr}
                           /\ (memstart <= a /\ End(a) <= HOLESTART) \/ (HOLEEND <= a /\ End(a) <= maxaddr)
                           /\ \A b \in Blocks : a < b => End(a) <= b
  BY <1>1, Tiles DEF Tiled, InRegion
<1>3. \A a, b \in Free : End(a) # b
  BY <1>1 DEF Touching
<1>4. \A a \in Blocks : header[a].size \in Nat /\ End(a) = a + header[a].size
  BY <1>1, Tiles DEF EndIn
<1>5. /\ memstart \in Nat /\ HOLESTART \in Nat /\ HOLEEND \in Nat /\ maxaddr \in Nat
      /\ memstart < HOLESTART /\ HOLESTART < HOLEEND /\ HOLEEND < maxaddr
  BY Layout
<1>6. ASSUME NEW f \in Free, n <= header[f].size PROVE f \in H!Fits(n)
  <2> DEFINE e == End(f)
  <2>1. f \in Blocks /\ e \in Nat /\ f < e /\ f \in Nat
    BY <1>1, <1>2
  <2>2. f + n <= e
    BY <1>4, <1>6, <2>1
  <2>3. \A b \in Held : End(b) <= f \/ e <= b
    <3> TAKE b \in Held
    <3>1. b \in Blocks /\ b # f /\ b \in Nat
      BY <1>1, <1>2
    <3> QED BY <1>2, <2>1, <3>1
  <2>4. f \in {memstart, HOLEEND} \/ \E b \in Held : f = End(b)
    BY <1>1, <1>3, <2>1, Predecessor
  <2>5. e \in {HOLESTART, maxaddr} \/ \E b \in Held : e = b
    BY <1>1, <1>2, <1>3, <2>1
  <2>6. (memstart <= f /\ e <= HOLESTART) \/ (HOLEEND <= f /\ e <= maxaddr)
    BY <1>2, <2>1
  <2> HIDE DEF e
  <2>7. CASE memstart <= f /\ e <= HOLESTART
    <3>1. Edge(f, memstart, HOLESTART)
      BY <1>5, <2>1, <2>4, <2>7 DEF Edge
    <3>2. Edge(e, memstart, HOLESTART)
      BY <1>5, <2>1, <2>5, <2>7 DEF Edge
    <3>3. Gap(f, e, memstart, HOLESTART)
      BY <2>1, <2>3, <3>1, <3>2 DEF Gap
    <3> QED BY <2>2, <3>3, GapsAre
  <2>8. CASE HOLEEND <= f /\ e <= maxaddr
    <3>1. Edge(f, HOLEEND, maxaddr)
      BY <1>5, <2>1, <2>4, <2>8 DEF Edge
    <3>2. Edge(e, HOLEEND, maxaddr)
      BY <1>5, <2>1, <2>5, <2>8 DEF Edge
    <3>3. Gap(f, e, HOLEEND, maxaddr)
      BY <2>1, <2>3, <3>1, <3>2 DEF Gap
    <3> QED BY <2>2, <3>3, GapsAre
  <2> QED BY <2>6, <2>7, <2>8
<1>7. ASSUME NEW s, s \in H!Fits(n) PROVE s \in Free /\ n <= header[s].size
  <2>1. PICK e : (Gap(s, e, memstart, HOLESTART) \/ Gap(s, e, HOLEEND, maxaddr)) /\ s + n <= e
    BY <1>7, GapsAre
  <2>2. ASSUME NEW lo, NEW hi, <<lo, hi>> \in {<<memstart, HOLESTART>>, <<HOLEEND, maxaddr>>},
               Gap(s, e, lo, hi)
        PROVE  s \in Free /\ n <= header[s].size
    <3>1. lo \in Nat /\ hi \in Nat /\ lo < hi /\ lo \in Blocks
          /\ \A x \in {HOLESTART, maxaddr} : x <= lo \/ hi <= x
      BY <1>2, <1>5, <2>2
    <3>2. \A b \in Held : b \in Blocks /\ b \in Nat /\ End(b) \in Nat /\ b < End(b)
      BY <1>1, <1>2
    <3>3. /\ s \in Nat /\ e \in Nat /\ lo <= s /\ s < e /\ e <= hi
          /\ s = lo \/ s = hi \/ \E b \in Held : s = b \/ s = End(b)
      BY <2>2, <3>1, <3>2 DEF Gap, Edge
    <3>4. \A b \in Held : End(b) <= s \/ e <= b
      BY <2>2 DEF Gap
    <3>5. s \notin Held
      BY <3>2, <3>3, <3>4
    <3>6. s \in Blocks
      <4>1. CASE s = lo
        BY <3>1, <4>1
      <4>2. CASE s # lo
        <5>1. PICK b \in Held : s = End(b)
          BY <3>3, <3>5, <4>2
        <5>2. s \notin {HOLESTART, maxaddr}
          BY <3>1, <3>3, <4>2
        <5> QED BY <1>2, <3>2, <5>1, <5>2
      <4> QED BY <4>1, <4>2
    <3>7. s \in Free /\ End(s) \in Nat /\ s < End(s)
      BY <1>1, <1>2, <3>5, <3>6
    <3>8. ~(End(s) < e)
      <4> SUFFICES ASSUME End(s) < e PROVE FALSE
        OBVIOUS
      <4>1. End(s) \notin {HOLESTART, maxaddr}
        BY <3>1, <3>3, <3>7
      <4>2. End(s) \in Held
        BY <1>1, <1>2, <1>3, <3>6, <3>7, <4>1
      <4>3. End(End(s)) <= s \/ e <= End(s)
        BY <3>4, <4>2
      <4>4. End(End(s)) \in Nat /\ End(s) < End(End(s))
        BY <3>2, <4>2
      <4> QED BY <3>3, <3>7, <4>3, <4>4
    <3> QED BY <1>4, <2>1, <3>3, <3>6, <3>7, <3>8
  <2> QED BY <2>1, <2>2
<1> QED BY <1>6, <1>7

\* The state of the heap, as ImplementsHeap maps it.
areasNow == {[start |-> b, end |-> End(b)] : b \in Held}
resultNow == IF result = 0 THEN 0 ELSE result - 16

\* kmalloc is Allocate, of the first fit and its header.
LEMMA MallocIsAllocate ==
    ASSUME 0 \notin Sizes, MemInv, NEW size \in Sizes, kmalloc(size)
    PROVE  H!Next
<1> DEFINE r == size_required(size)
<1>1. PICK c : c = first_fit(size)
  OBVIOUS
<1>2. size \in Nat /\ r \in Nat \ {0}
  BY LayoutAssumption, Required
<1>3. /\ c \in Free /\ result' = c + 16 /\ Held' = Held \cup {c} /\ header'[c].size = r
      /\ \A b \in Held : End(b)' = End(b)
  BY <1>1, <1>2, Malloc DEF Mallocs
<1>4. r <= header[c].size /\ \A a \in Free : a < c => ~(r <= header[a].size)
  BY <1>1, <1>2, FirstFit DEF kmalloc
<1>5. c \in Nat \ {0} /\ Free \in SUBSET (Nat \ {0})
  BY <1>3, FreeFacts
<1>6. H!Fits(r) = {f \in Free : r <= header[f].size}
  BY <1>2, FitsAre
<1> HIDE DEF r
<1>7. c \in H!Fits(r) /\ \A t \in H!Fits(r) : c <= t
  <2>1. c \in H!Fits(r)
    BY <1>3, <1>4, <1>6
  <2>2. \A t \in Free : r <= header[t].size => c <= t
    <3> SUFFICES ASSUME NEW t \in Free, r <= header[t].size PROVE c <= t
      OBVIOUS
    <3>1. ~(t < c)
      BY <1>4
    <3>2. t \in Nat
      BY <1>5
    <3> QED BY <1>5, <3>1, <3>2
  <2> QED BY <1>6, <2>1, <2>2
<1>8. End(c)' = c + r
  BY <1>3 DEF End
<1>9. areasNow' = areasNow \cup {[start |-> c, end |-> c + r]}
  <2>1. areasNow' = {[start |-> b, end |-> End(b)'] : b \in Held \cup {c}}
    BY <1>3 DEF areasNow
  <2>2. {[start |-> b, end |-> End(b)'] : b \in Held} = areasNow
    BY <1>3 DEF areasNow
  <2> QED BY <1>8, <2>1, <2>2
<1>10. resultNow' = c
  BY <1>3, <1>5 DEF resultNow
<1>11. H!Allocate(r)
  BY <1>7, <1>9, <1>10 DEF H!Allocate, areasNow, resultNow
<1>12. r \in {size_required(s) : s \in Sizes}
  BY DEF r
<1> QED BY <1>11, <1>12 DEF H!Next

\* A kmalloc that fails is Fail: there is no gap that is large enough.
LEMMA MallocFailsIsFail ==
    ASSUME 0 \notin Sizes, MemInv, NEW size \in Sizes, kmalloc_fails(size)
    PROVE  H!Next
<1> DEFINE r == size_required(size)
<1>1. size \in Nat \ {0} /\ r \in Nat \ {0} /\ size + 16 <= r
  <2>1. size \in Nat
    BY LayoutAssumption
  <2> QED BY <2>1, Required
<1>2. /\ size >= maxaddr \/ fitting(size) = {}
      /\ result' = 0 /\ UNCHANGED <<g_free_list, header, allocated>>
  BY <1>1 DEF kmalloc_fails
<1>3. \A a \in Free : ~(r <= header[a].size)
  <2>1. CASE fitting(size) = {}
    BY <1>1, <2>1, NoFit
  <2>2. CASE size >= maxaddr
    <3> SUFFICES ASSUME NEW a \in Free, r <= header[a].size PROVE FALSE
      OBVIOUS
    <3>1. a \in DOMAIN header /\ Tiled(header)
      BY FreeFacts DEF MemInv, Blocks
    <3>2. /\ a \in Nat /\ header[a].size \in Nat /\ EndIn(header, a) \in Nat
          /\ EndIn(header, a) = a + header[a].size /\ InRegion(header, a)
      BY <3>1, Tiles DEF EndIn
    <3>3. EndIn(header, a) <= maxaddr
      BY <3>2, Layout DEF InRegion
    <3> HIDE DEF r
    <3>4. maxaddr \in Nat
      BY Layout
    <3> QED BY <1>1, <2>2, <3>2, <3>3, <3>4
  <2> QED BY <1>2, <2>1, <2>2
<1>4. H!Fits(r) = {f \in Free : r <= header[f].size}
  BY <1>1, FitsAre
<1> HIDE DEF r
<1>5. H!Fits(r) = {}
  BY <1>3, <1>4
<1>6. areasNow' = areasNow /\ resultNow' = 0
  BY <1>2 DEF areasNow, resultNow, Held, End
<1>7. H!Fail(r)
  BY <1>5, <1>6 DEF H!Fail, areasNow, resultNow
<1>8. r \in {size_required(s) : s \in Sizes}
  BY DEF r
<1> QED BY <1>7, <1>8 DEF H!Next

\* kfree is Free.
LEMMA KfreeIsFree ==
    ASSUME MemInv, NEW ptr, ptr \in DOMAIN allocated, kfree(ptr)
    PROVE  H!Next
<1> DEFINE b == ptr - 16
<1>1. /\ result' = result /\ Held' = Held \ {b} /\ \A x \in Held' : End(x)' = End(x)
  BY FreeOne DEF Freed
<1>2. PICK a : a = [start |-> b, end |-> End(b)]
  OBVIOUS
<1>3. a \in areasNow
  BY <1>2 DEF areasNow, Held
<1>4. areasNow' = areasNow \ {a}
  <2>1. areasNow' = {[start |-> x, end |-> End(x)] : x \in Held \ {b}}
    BY <1>1 DEF areasNow
  <2>2. \A x \in Held : [start |-> x, end |-> End(x)] = a <=> x = b
    BY <1>2
  <2> QED BY <2>1, <2>2 DEF areasNow
<1>5. resultNow' = resultNow
  BY <1>1 DEF resultNow
<1>6. H!Free(a)
  BY <1>4, <1>5 DEF H!Free, areasNow, resultNow
<1> QED BY <1>3, <1>6 DEF H!Next, areasNow

\* Nothing is handed out at first.
LEMMA HeapInit == Init => H!Init
BY DEF Init, H!Init, Held

\* What the callers do, the heap does.
LEMMA ProcHeapStep ==
    ASSUME 0 \notin Sizes, ProcInv, [ProcNext]_<<memVars, procVars>>
    PROVE  H!Next \/ UNCHANGED <<areasNow, resultNow>>
<1>1. MemInv /\ ProcTypes /\ TABLE \in Sizes /\ AtBoot \in Seq(Sizes)
  BY StackSizeAssumption DEF ProcInv
<1>2. ASSUME UNCHANGED memVars PROVE UNCHANGED <<areasNow, resultNow>>
  BY <1>2 DEF memVars, areasNow, resultNow, Held, End
<1>3. \A ptr : ptr \in DOMAIN allocated /\ kfree(ptr) => H!Next
  BY <1>1, KfreeIsFree
<1>4. \A size \in Sizes : kmalloc(size) \/ kmalloc_fails(size) => H!Next
  BY <1>1, MallocIsAllocate, MallocFailsIsFail
<1>5. CASE boot
  <2>1. step = "boot" /\ kmalloc(AtBoot[booted + 1])
    BY <1>5 DEF boot
  <2>2. booted \in 0..Len(AtBoot) /\ booted < Len(AtBoot)
    BY <1>1, <2>1 DEF ProcTypes
  <2>3. AtBoot[booted + 1] \in Sizes
    <3>1. Len(AtBoot) \in Nat /\ AtBoot \in [1..Len(AtBoot) -> Sizes]
      BY <1>1
    <3>2. booted + 1 \in 1..Len(AtBoot)
      BY <2>2, <3>1
    <3> QED BY <3>1, <3>2
  <2> QED BY <1>4, <2>1, <2>3
<1>6. ASSUME NEW stack \in Stacks, create_stack(stack) PROVE H!Next
  <2> DEFINE size == IF stack < DEFAULT_STACK_SIZE THEN DEFAULT_STACK_SIZE ELSE stack
  <2>1. kmalloc(size) \/ kmalloc_fails(size)
    BY <1>6 DEF create_stack
  <2>2. size \in Sizes
    <3>1. /\ stack \in Nat /\ DEFAULT_STACK_SIZE \in Nat /\ DEFAULT_STACK_SIZE \in Sizes
          /\ stack > DEFAULT_STACK_SIZE => stack \in Sizes
      BY StackSizeAssumption, LayoutAssumption
    <3> QED BY <3>1
  <2> QED BY <1>4, <2>1, <2>2
<1>7. CASE get_next_available_pcb
  BY <1>1, <1>2, <1>4, <1>7 DEF get_next_available_pcb
<1>8. CASE create_undo
  <2>1. stack_bottom \in DOMAIN allocated /\ kfree(stack_bottom)
    BY <1>8, InUser DEF create_undo, ProcInv, Owners, OwnedBy
  <2> QED BY <1>3, <2>1
<1>9. ASSUME NEW p \in Pcbs, cleanup_stack(p) PROVE H!Next
  <2>1. memory_region[p] \in DOMAIN allocated /\ kfree(memory_region[p])
    BY <1>9, InUser DEF cleanup_stack, ProcInv, Owners, OwnedBy, Living
  <2> QED BY <1>3, <2>1
<1>10. CASE cleanup_table
  <2>1. signal_table[dying] \in DOMAIN allocated /\ kfree(signal_table[dying])
    BY <1>1, <1>10 DEF cleanup_table, ProcInv, Owners, OwnedBy, ProcTypes
  <2> QED BY <1>3, <2>1
<1>11. CASE UNCHANGED <<memVars, procVars>>
  BY <1>2, <1>11
<1> QED BY <1>5, <1>6, <1>7, <1>8, <1>9, <1>10, <1>11 DEF ProcNext

\* The same of any caller.
LEMMA MemHeapStep ==
    ASSUME 0 \notin Sizes, MemInv, [Next]_memVars
    PROVE  H!Next \/ UNCHANGED <<areasNow, resultNow>>
<1>1. ASSUME UNCHANGED memVars PROVE UNCHANGED <<areasNow, resultNow>>
  BY <1>1 DEF memVars, areasNow, resultNow, Held, End
<1> QED BY <1>1, MallocIsAllocate, MallocFailsIsFail, KfreeIsFree DEF Next

-----------------------------------------------------------------------------
(* The theorems *)

\* Whatever sizes are asked for and in whatever order pointers are freed, the
\* free list of mem.c is in order and coalesced, and pointers are good.
THEOREM MemSound == Spec => [](FreeListSound /\ PointersGood)
<1>1. Init => MemInv
  BY MemInvInit
<1>2. MemInv /\ [Next]_memVars => MemInv'
  BY MemInvNext
<1>3. MemInv => FreeListSound /\ PointersGood
  BY ListInOrder, RoomForAll
<1> QED BY <1>1, <1>2, <1>3, PTL DEF Spec

\* The inductive invariant of the memory manager and its callers.
LEMMA ProcInvAlways == ProcSpec => []ProcInv
<1>1. ProcInit => ProcInv
  BY ProcInvInit
<1>2. ProcInv /\ [ProcNext]_<<memVars, procVars>> => ProcInv'
  BY ProcInvNext
<1> QED BY <1>1, <1>2, PTL DEF ProcSpec

\* The same of the free list with the kernel's own callers (mem.c below
\* create.c, pcb.c and the start-up).
THEOREM FreeListAlwaysSound == ProcSpec => []FreeListSound
<1>1. ProcInv => FreeListSound
  BY ListInOrder DEF ProcInv
<1> QED BY <1>1, ProcInvAlways, PTL

\* Every pointer that kmalloc returned is aligned, passes the sanity check of
\* kfree, and has the room that was asked for.
THEOREM PointersAlwaysGood == ProcSpec => []PointersGood
<1>1. ProcInv => PointersGood
  BY RoomForAll DEF ProcInv
<1> QED BY <1>1, ProcInvAlways, PTL

\* create, get_next_available_pcb and cleanup_proc free everything once and
\* leak nothing, whichever kmalloc fails.
THEOREM NoLeakNoDoubleFree == ProcSpec => []OwnedOnce
<1>1. ProcInv => OwnedOnce
  BY OwnersOnce
<1> QED BY <1>1, ProcInvAlways, PTL

\* The checks of copyinout.c accept every buffer on the stack of a process.
THEOREM StacksAlwaysPass == ProcSpec => []StacksPass
<1>1. ProcInv => StacksPass
  BY StackChecks
<1> QED BY <1>1, ProcInvAlways, PTL

\* What mem.c does with its list is first fit among the gaps between what is
\* handed out, whoever calls it; no request is for 0 bytes, for which kmalloc
\* returns NULL.
THEOREM MemIsHeap ==
    ASSUME 0 \notin Sizes
    PROVE  Spec => ImplementsHeap
<1>1. Init => MemInv /\ H!Init
  BY MemInvInit, HeapInit
<1>2. MemInv /\ [Next]_memVars => MemInv' /\ (H!Next \/ UNCHANGED <<areasNow, resultNow>>)
  BY MemInvNext, MemHeapStep
<1>3. MemInv /\ [Next]_memVars => MemInv' /\ [H!Next]_<<areasNow, resultNow>>
  BY <1>2
<1> QED BY <1>1, <1>3, PTL DEF Spec, ImplementsHeap, H!Spec, areasNow, resultNow

\* The same with the kernel's callers.
THEOREM CallersSeeHeap ==
    ASSUME 0 \notin Sizes
    PROVE  ProcSpec => ImplementsHeap
<1>1. ProcInit => ProcInv /\ H!Init
  BY ProcInvInit, HeapInit DEF ProcInit
<1>2. ProcInv /\ [ProcNext]_<<memVars, procVars>>
         => ProcInv' /\ (H!Next \/ UNCHANGED <<areasNow, resultNow>>)
  BY ProcInvNext, ProcHeapStep
<1>3. ProcInv /\ [ProcNext]_<<memVars, procVars>>
         => ProcInv' /\ [H!Next]_<<areasNow, resultNow>>
  BY <1>2
<1> QED BY <1>1, <1>3, PTL DEF ProcSpec, ImplementsHeap, H!Spec, areasNow, resultNow

\* A buffer that verify_usrptr accepts has no byte outside memory, in the hole
\* or in the kernel's stack, although only its ends were looked at.
THEOREM OnlyEndsMatter ==
    ASSUME NEW addr \in Int, NEW len \in 1..(KERNEL_STACK - 1), verify_usrptr(addr, len),
           NEW byte \in addr..(addr + len - 1)
    PROVE  byte \in 1..maxaddr /\ ~falls_in_hole(byte) /\ ~falls_in_kstack(byte)
<1>1. /\ KERNEL_STACK \in Nat /\ HOLESTART + KERNEL_STACK <= HOLEEND + 1
      /\ HOLESTART \in Nat /\ HOLEEND \in Nat /\ freemem \in Nat /\ maxaddr \in Nat
  BY StackAssumption, LayoutAssumption
<1>2. len \in Int /\ byte \in Int /\ len < KERNEL_STACK /\ addr <= byte /\ byte <= addr + len - 1
  BY <1>1
<1>3. byte \in 1..maxaddr
  BY <1>1, <1>2 DEF verify_usrptr
<1>4. ~falls_in_hole(byte)
  BY <1>1, <1>2 DEF verify_usrptr, falls_in_hole
<1>5. ~falls_in_kstack(byte)
  BY <1>1, <1>2 DEF verify_usrptr, falls_in_kstack
<1> QED  BY <1>3, <1>4, <1>5
=============================================================================
