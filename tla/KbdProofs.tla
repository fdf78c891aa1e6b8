------------------------------- MODULE KbdProofs -------------------------------
(***************************************************************************)
(* Proofs about the keyboard driver, for every table, buffer and input.    *)
(***************************************************************************)
EXTENDS Kbd, DispProofs

-----------------------------------------------------------------------------
(* The characters typed ahead, one at a time *)

\* What keyboard_flush_buffer does with one character.
flush_one(s, c) == IF s.refcount > 0
                   THEN [keyboard_process_char(s, c) EXCEPT !.buffer = Tail(@)] ELSE s

\* 1..n, seen from its greatest element.
LEMMA MaxOfInterval ==
    ASSUME NEW n \in Nat, NEW s \in SUBSET (1..(n + 1)), s # {}
    PROVE  /\ Max(s) \in s /\ s \ {Max(s)} \in SUBSET (1..n)
           /\ s = 1..(n + 1) => Max(s) = n + 1 /\ s \ {Max(s)} = 1..n
<1>1. \E x \in s : \A y \in s : x >= y
  <2> DEFINE T == {(n + 1) - x : x \in s}
  <2>1. T \subseteq Nat /\ T # {}
    <3>1. \A x \in s : x \in Int /\ (n + 1) - x \in Nat
      OBVIOUS
    <3> QED BY <3>1
  <2> HIDE DEF T
  <2>2. Min(T) \in T /\ \A y \in T : Min(T) <= y
    BY <2>1, MinInSet
  <2>3. PICK x \in s : Min(T) = (n + 1) - x
    BY <2>2 DEF T
  <2>4. \A y \in s : (n + 1) - x <= (n + 1) - y
    BY <2>2, <2>3 DEF T
  <2> QED BY <2>4
<1>2. Max(s) \in s /\ \A y \in s : Max(s) >= y
  BY <1>1 DEF Max
<1>3. s \ {Max(s)} \in SUBSET (1..n)
  <2>1. ASSUME NEW y \in s, y # Max(s) PROVE y \in 1..n
    <3>1. y \in 1..(n + 1) /\ Max(s) \in 1..(n + 1) /\ Max(s) >= y
      BY <1>2
    <3> QED BY <2>1, <3>1
  <2> QED BY <2>1
<1>4. s = 1..(n + 1) => Max(s) = n + 1
  BY <1>2
<1>5. (1..(n + 1)) \ {n + 1} = 1..n
  OBVIOUS
<1> QED BY <1>2, <1>3, <1>4, <1>5

\* keyboard_flush_buffer is that, for each character in turn.
LEMMA FlushSteps ==
    ASSUME NEW k, NEW n \in Nat, DOMAIN k.buffer = 1..n
    PROVE  \E f : /\ f[0] = k
                  /\ \A i \in 1..n : f[i] = flush_one(f[i - 1], k.buffer[i])
                  /\ keyboard_flush_buffer(k) = f[n]
<1> DEFINE one(s, i) == flush_one(s, k.buffer[i])
           Folded(g, m) == g = [s \in SUBSET (1..m) |->
                                  IF s = {} THEN k
                                  ELSE LET x == Max(s) IN one(g[s \ {x}], x)]
           iter == CHOOSE g : Folded(g, n)
<1>1. keyboard_flush_buffer(k) = iter[1..n]
  BY DEF keyboard_flush_buffer, FoldLeft, MapThenFoldSet, flush_one
<1> HIDE DEF one
<1>2. \A m \in Nat : \E g : Folded(g, m)
  <2> DEFINE T == {m \in Nat : \E g : Folded(g, m)}
  <2>1. 0 \in T
    <3>1. Folded([s \in SUBSET (1..0) |-> k], 0)
      BY SMT
    <3> QED BY <3>1
  <2>2. ASSUME NEW m \in Nat, m \in T PROVE m + 1 \in T
    <3>1. PICK g : Folded(g, m)
      BY <2>2
    <3> DEFINE h == [s \in SUBSET (1..(m + 1)) |->
                       IF s = {} THEN k ELSE LET x == Max(s) IN one(g[s \ {x}], x)]
    <3>2. \A s \in SUBSET (1..(m + 1)) : s # {} => s \ {Max(s)} \in SUBSET (1..m)
      BY <2>2, MaxOfInterval
    <3>3. \A s \in SUBSET (1..m) : s \in SUBSET (1..(m + 1)) /\ h[s] = g[s]
      <4>1. m \in Nat /\ 1..m \subseteq 1..(m + 1)
        BY <2>2
      <4>2. \A s \in SUBSET (1..m) : s \in SUBSET (1..(m + 1))
        BY <4>1
      <4>3. \A s \in SUBSET (1..m) : h[s] = g[s]
        BY <3>1, <4>2
      <4> QED BY <4>2, <4>3
    <3>4. \A s \in SUBSET (1..(m + 1)) : s # {} => h[s \ {Max(s)}] = g[s \ {Max(s)}]
      BY <3>2, <3>3
    <3>5. h = [s \in SUBSET (1..(m + 1)) |->
                 IF s = {} THEN k ELSE one(h[s \ {Max(s)}], Max(s))]
      BY <3>4
    <3>6. Folded(h, m + 1)
      BY <3>5
    <3> HIDE DEF Folded
    <3> QED BY <2>2, <3>6
  <2> HIDE DEF T
  <2>3. \A m \in Nat : m \in T
    BY <2>1, <2>2, NatInduct
  <2> QED BY <2>3 DEF T
<1>3. Folded(iter, n)
  BY <1>2
<1> HIDE DEF iter
<1>4. iter[1..0] = k
  BY <1>3
<1>5. ASSUME NEW i \in 1..n PROVE iter[1..i] = one(iter[1..(i - 1)], i)
  <2>1. i - 1 \in Nat /\ (i - 1) + 1 = i /\ 1..i \in SUBSET (1..n) /\ 1..i # {}
    <3>1. i \in Nat /\ i >= 1 /\ i <= n
      OBVIOUS
    <3>2. 1..i \subseteq 1..n /\ i \in 1..i
      BY <3>1
    <3>3. 1..i \in SUBSET (1..n) /\ 1..i # {}
      BY <3>2
    <3> QED BY <3>1, <3>3
  <2>2. Max(1..i) = i /\ (1..i) \ {Max(1..i)} = 1..(i - 1)
    BY <2>1, MaxOfInterval
  <2> QED BY <1>3, <2>1, <2>2
<1> DEFINE f == [i \in 0..n |-> iter[1..i]]
<1>6. f[0] = k /\ f[n] = iter[1..n] /\ \A i \in 1..n : f[i] = one(f[i - 1], i)
  BY <1>4, <1>5
<1> QED BY <1>1, <1>6 DEF one

\* InOrder takes the processes of a list one at a time.
LEMMA OrderSteps ==
    ASSUME NEW q, NEW n \in Nat, DOMAIN q = 1..n, NEW set
    PROVE  \E f : /\ f[0] = <<>>
                  /\ \A i \in 1..n : f[i] = IF q[i] \in set THEN Append(f[i - 1], q[i])
                                            ELSE f[i - 1]
                  /\ InOrder(q, set) = f[n]
<1> DEFINE one(s, i) == IF q[i] \in set THEN Append(s, q[i]) ELSE s
           Folded(g, m) == g = [s \in SUBSET (1..m) |->
                                  IF s = {} THEN <<>>
                                  ELSE LET x == Max(s) IN one(g[s \ {x}], x)]
           iter == CHOOSE g : Folded(g, n)
<1>1. InOrder(q, set) = iter[1..n]
  BY DEF InOrder, FoldLeft, MapThenFoldSet
<1> HIDE DEF one
<1>2. \A m \in Nat : \E g : Folded(g, m)
  <2> DEFINE T == {m \in Nat : \E g : Folded(g, m)}
  <2>1. 0 \in T
    <3>1. Folded([s \in SUBSET (1..0) |-> <<>>], 0)
      BY SMT
    <3> QED BY <3>1
  <2>2. ASSUME NEW m \in Nat, m \in T PROVE m + 1 \in T
    <3>1. PICK g : Folded(g, m)
      BY <2>2
    <3> DEFINE h == [s \in SUBSET (1..(m + 1)) |->
                       IF s = {} THEN <<>> ELSE LET x == Max(s) IN one(g[s \ {x}], x)]
    <3>2. \A s \in SUBSET (1..(m + 1)) : s # {} => s \ {Max(s)} \in SUBSET (1..m)
      BY <2>2, MaxOfInterval
    <3>3. \A s \in SUBSET (1..m) : s \in SUBSET (1..(m + 1)) /\ h[s] = g[s]
      <4>1. m \in Nat /\ 1..m \subseteq 1..(m + 1)
        BY <2>2
      <4>2. \A s \in SUBSET (1..m) : s \in SUBSET (1..(m + 1))
        BY <4>1
      <4>3. \A s \in SUBSET (1..m) : h[s] = g[s]
        BY <3>1, <4>2
      <4> QED BY <4>2, <4>3
    <3>4. \A s \in SUBSET (1..(m + 1)) : s # {} => h[s \ {Max(s)}] = g[s \ {Max(s)}]
      BY <3>2, <3>3
    <3>5. h = [s \in SUBSET (1..(m + 1)) |->
                 IF s = {} THEN <<>> ELSE one(h[s \ {Max(s)}], Max(s))]
      BY <3>4
    <3>6. Folded(h, m + 1)
      BY <3>5
    <3> HIDE DEF Folded
    <3> QED BY <2>2, <3>6
  <2> HIDE DEF T
  <2>3. \A m \in Nat : m \in T
    BY <2>1, <2>2, NatInduct
  <2> QED BY <2>3 DEF T
<1>3. Folded(iter, n)
  BY <1>2
<1> HIDE DEF iter
<1>4. iter[1..0] = <<>>
  BY <1>3
<1>5. ASSUME NEW i \in 1..n PROVE iter[1..i] = one(iter[1..(i - 1)], i)
  <2>1. i - 1 \in Nat /\ (i - 1) + 1 = i /\ 1..i \in SUBSET (1..n) /\ 1..i # {}
    <3>1. i \in Nat /\ i >= 1 /\ i <= n
      OBVIOUS
    <3>2. 1..i \subseteq 1..n /\ i \in 1..i
      BY <3>1
    <3>3. 1..i \in SUBSET (1..n) /\ 1..i # {}
      BY <3>2
    <3> QED BY <3>1, <3>3
  <2>2. Max(1..i) = i /\ (1..i) \ {Max(1..i)} = 1..(i - 1)
    BY <2>1, MaxOfInterval
  <2> QED BY <1>3, <2>1, <2>2
<1> DEFINE f == [i \in 0..n |-> iter[1..i]]
<1>6. f[0] = <<>> /\ f[n] = iter[1..n] /\ \A i \in 1..n : f[i] = one(f[i - 1], i)
  BY <1>4, <1>5
<1> QED BY <1>1, <1>6 DEF one

\* InOrder lists the processes of the list that are in the set.
LEMMA OrderLists ==
    ASSUME NEW A, NEW q \in Seq(A), NEW S, Lists(q, S), NEW set
    PROVE  InOrder(q, set) \in Seq(A) /\ Lists(InOrder(q, set), S \cap set)
<1> DEFINE n == Len(q)
           Upto(i) == {q[j] : j \in 1..i}
<1>1. n \in Nat /\ DOMAIN q = 1..n /\ \A i \in 1..n : q[i] \in A
  BY LenProperties, ElementOfSeq
<1> HIDE DEF n
<1>2. PICK f : /\ f[0] = <<>>
               /\ \A i \in 1..n : f[i] = IF q[i] \in set THEN Append(f[i - 1], q[i]) ELSE f[i - 1]
               /\ InOrder(q, set) = f[n]
  BY <1>1, OrderSteps
<1> DEFINE T == {i \in Nat : i <= n =>
                      f[i] \in Seq(A) /\ Lists(f[i], Upto(i) \cap set)}
<1>3. 0 \in T
  <2>1. Upto(0) = {}
    OBVIOUS
  <2>2. f[0] \in Seq(A) /\ Lists(f[0], {})
    BY <1>2, ListsEmpty, EmptySeq
  <2>3. Upto(0) \cap set = {}
    BY <2>1
  <2> HIDE DEF Upto
  <2> QED BY <2>2, <2>3
<1>4. ASSUME NEW i \in Nat, i \in T PROVE i + 1 \in T
  <2> SUFFICES ASSUME i + 1 <= n
               PROVE  f[i + 1] \in Seq(A) /\ Lists(f[i + 1], Upto(i + 1) \cap set)
    BY <1>4
  <2>a. i + 1 \in 1..n /\ (i + 1) - 1 = i /\ i <= n
    BY <1>1
  <2>b. f[i] \in Seq(A) /\ Lists(f[i], Upto(i) \cap set)
    <3> HIDE DEF Upto
    <3> QED BY <1>4, <2>a
  <2>1. /\ i + 1 \in 1..n /\ (i + 1) - 1 = i /\ i <= n
        /\ f[i] \in Seq(A) /\ Lists(f[i], Upto(i) \cap set)
    BY <2>a, <2>b
  <2>2. Upto(i + 1) = Upto(i) \cup {q[i + 1]}
    <3>1. 1..(i + 1) = 1..i \cup {i + 1}
      BY <1>4
    <3> QED BY <3>1
  <2>3. q[i + 1] \notin Upto(i)
    <3>1. \A a, b \in 1..n : q[a] = q[b] => a = b
      BY <1>1 DEF Lists, IsInjective
    <3>2. ASSUME NEW j \in 1..i PROVE q[j] # q[i + 1]
      <4>1. j \in 1..n /\ j # i + 1
        BY <1>1, <1>4, <2>1
      <4> QED BY <4>1, <2>1, <3>1
    <3> QED BY <3>2
  <2>4. q[i + 1] \in A
    BY <1>1, <2>1
  <2>5. f[i + 1] = IF q[i + 1] \in set THEN Append(f[i], q[i + 1]) ELSE f[i]
    BY <1>2, <2>1
  <2> HIDE DEF Upto, T
  <2>6. CASE q[i + 1] \in set
    <3>1. Upto(i + 1) \cap set = (Upto(i) \cap set) \cup {q[i + 1]}
      BY <2>2, <2>6
    <3>2. /\ add_proc_to_queue(f[i], q[i + 1]) \in Seq(A)
          /\ Lists(add_proc_to_queue(f[i], q[i + 1]), (Upto(i) \cap set) \cup {q[i + 1]})
      BY <2>1, <2>3, <2>4, AddLists
    <3>3. f[i + 1] = add_proc_to_queue(f[i], q[i + 1])
      BY <2>5, <2>6 DEF add_proc_to_queue
    <3> QED BY <3>1, <3>2, <3>3
  <2>7. CASE q[i + 1] \notin set
    <3>1. Upto(i + 1) \cap set = Upto(i) \cap set /\ f[i + 1] = f[i]
      BY <2>2, <2>5, <2>7
    <3> QED BY <3>1, <2>1
  <2> QED BY <2>6, <2>7
<1> HIDE DEF T
<1>5. n \in T
  BY <1>1, <1>3, <1>4, NatInduct
<1>6. Upto(n) = S
  BY <1>1 DEF Lists, ToSet
<1> HIDE DEF Upto
<1> QED BY <1>1, <1>2, <1>5, <1>6 DEF T

\* The order of the driver's task list holds every slot once.
LEMMA TasksInOrder == TaskOrder \in Seq(Slots) /\ Lists(TaskOrder, Slots)
<1> DEFINE n == PCB_TABLE_SIZE
           t == TaskOrder
<1>1. n \in Nat /\ n >= 1
  BY TableAssumption
<1>2. /\ DOMAIN t = 1..n /\ t[1] = n
      /\ \A i \in 1..n : t[i] = IF i = 1 THEN n ELSE i - 1
      /\ \A i \in 1..n : t[i] \in 1..n
  BY <1>1 DEF TaskOrder
<1>3. t \in [1..n -> 1..n]
  BY <1>1 DEF TaskOrder
<1>4. t \in Seq(Slots)
  BY <1>1, <1>3, SeqDef DEF Slots
<1> HIDE DEF t
<1>5. IsInjective(t)
  <2>1. ASSUME NEW a \in 1..n, NEW b \in 1..n, t[a] = t[b] PROVE a = b
    <3>1. /\ t[a] = (IF a = 1 THEN n ELSE a - 1) /\ a \in Int /\ a <= n /\ a >= 1
          /\ t[b] = (IF b = 1 THEN n ELSE b - 1) /\ b \in Int /\ b <= n /\ b >= 1
      BY <1>1, <1>2
    <3> QED BY <3>1, <2>1, <1>1
  <2> QED BY <1>2, <2>1 DEF IsInjective
<1>6. ASSUME NEW p \in 1..n PROVE \E i \in 1..n : t[i] = p
  <2>1. CASE p = n
    BY <2>1, <1>1, <1>2
  <2>2. CASE p # n
    <3>1. p + 1 \in 1..n /\ t[p + 1] = p
      BY <2>2, <1>1, <1>2
    <3> QED BY <3>1
  <2> QED BY <2>1, <2>2
<1>7. ToSet(t) = 1..n
  BY <1>2, <1>6 DEF ToSet
<1> QED BY <1>4, <1>5, <1>7 DEF Lists, Slots, t

-----------------------------------------------------------------------------
(* What a character and a flush do to the reads *)

Task   == [waiting_on_read : BOOLEAN, buflen : Nat, buf : Seq(Nat)]
Boards == [task : [Slots -> Task], refcount : Int, done : BOOLEAN, enabled : BOOLEAN,
           buffer : Seq(Nat), unblocked : Seq(Slots)]

\* The processes whose reads wait, and that their buffers have room.
Reads(t) == {p \in Slots : t[p].waiting_on_read}
Roomy(t) == \A p \in Slots : t[p].waiting_on_read => Len(t[p].buf) < t[p].buflen

\* A read is full, or has its line before it is.
Complete(t) == \/ Len(t.buf) = t.buflen
               \/ t.buf # <<>> /\ Last(t.buf) = NEWLINE /\ Len(t.buf) < t.buflen

\* What characters leave of the reads: of those that do not wait all, and those
\* that they end, if all had room and no EOF was typed, are complete.
Told(t0, t1, done) ==
    \A p \in Slots : /\ t1[p].buflen = t0[p].buflen
                     /\ ~t0[p].waiting_on_read => t1[p] = t0[p]
                     /\ t0[p].waiting_on_read /\ ~t1[p].waiting_on_read /\ Roomy(t0)
                           => done \/ Complete(t1[p])

\* A character ends reads and never begins one; each one ended is counted off
\* and its process listed.  An EOF ends them all, and those that go on keep room.
LEMMA CharFacts ==
    ASSUME NEW k \in Boards, NEW c \in Nat
    PROVE  LET k2    == keyboard_process_char(k, c)
               ended == Reads(k.task) \ Reads(k2.task)
           IN  /\ k2 \in Boards /\ k2.buffer = k.buffer
               /\ Reads(k2.task) \subseteq Reads(k.task)
               /\ k2.refcount = k.refcount - Cardinality(ended)
               /\ k2.unblocked = k.unblocked \o InOrder(TaskOrder, ended)
               /\ k2.done <=> (k.done \/ c = g_keyboard_eof)
               /\ k2.enabled <=> (k.enabled /\ c # g_keyboard_eof)
               /\ c = g_keyboard_eof => Reads(k2.task) = {}
               /\ Roomy(k.task) => Roomy(k2.task)
               /\ Told(k.task, k2.task, k2.done)
<1> DEFINE k2      == keyboard_process_char(k, c)
           eof     == c = g_keyboard_eof
           waiting == {p \in Slots : k.task[p].waiting_on_read}
           written == [p \in Slots |-> IF p \in waiting /\ ~eof
                                       THEN [k.task[p] EXCEPT !.buf = Append(@, c)] ELSE k.task[p]]
           ended   == {p \in waiting : read_ends(c, written[p])}
           after   == [p \in Slots |-> [written[p] EXCEPT !.waiting_on_read = @ /\ p \notin ended]]
<1>1. k2 = [k EXCEPT !.task      = after,
                     !.refcount  = @ - Cardinality(ended),
                     !.done      = @ \/ eof,
                     !.enabled   = @ /\ ~eof,
                     !.unblocked = @ \o InOrder(TaskOrder, ended)]
  BY DEF keyboard_process_char
<1>2. /\ k.task \in [Slots -> Task] /\ k.refcount \in Int /\ k.done \in BOOLEAN
      /\ k.enabled \in BOOLEAN /\ k.buffer \in Seq(Nat) /\ k.unblocked \in Seq(Slots)
  BY DEF Boards
<1>3. waiting = Reads(k.task)
  BY DEF Reads
<1>4. ASSUME NEW p \in Slots
      PROVE  /\ written[p] \in Task
             /\ written[p].waiting_on_read = k.task[p].waiting_on_read
             /\ written[p].buflen = k.task[p].buflen
             /\ written[p].buf = IF p \in waiting /\ ~eof THEN Append(k.task[p].buf, c)
                                 ELSE k.task[p].buf
  <2>1. k.task[p] \in Task
    BY <1>2
  <2>2. k.task[p].buf \in Seq(Nat)
    BY <2>1 DEF Task
  <2>3. Append(k.task[p].buf, c) \in Seq(Nat)
    BY <2>2, AppendProperties
  <2> QED BY <2>1, <2>3 DEF Task
<1> HIDE DEF written
<1>5. ASSUME NEW p \in Slots
      PROVE  /\ after[p] \in Task
             /\ after[p].waiting_on_read <=> (p \in waiting /\ p \notin ended)
             /\ after[p].buflen = k.task[p].buflen
             /\ after[p].buf = written[p].buf
  <2>1. after[p] = [written[p] EXCEPT !.waiting_on_read = @ /\ p \notin ended]
    OBVIOUS
  <2>2. written[p] \in Task /\ (written[p].waiting_on_read <=> p \in waiting)
    BY <1>4
  <2> HIDE DEF ended, waiting, after
  <2> QED BY <1>4, <2>1, <2>2 DEF Task
<1>6. after \in [Slots -> Task]
  BY <1>5
<1>7. ended \subseteq waiting /\ Reads(after) = waiting \ ended
  <2>1. waiting \subseteq Slots
    OBVIOUS
  <2>2. ended \subseteq waiting
    OBVIOUS
  <2> HIDE DEF ended, waiting, after
  <2> QED BY <1>5, <2>1, <2>2 DEF Reads
<1>8. waiting \ Reads(after) = ended
  BY <1>7
<1>9. eof => ended = waiting
  BY DEF read_ends
<1>10. Roomy(k.task) => Roomy(after)
  <2> SUFFICES ASSUME Roomy(k.task), NEW p \in Slots, after[p].waiting_on_read
               PROVE  Len(after[p].buf) < after[p].buflen
    BY DEF Roomy
  <2>1. p \in waiting /\ p \notin ended
    BY <1>5
  <2>2. ~eof /\ Len(written[p].buf) # written[p].buflen
    BY <2>1 DEF read_ends
  <2>3. written[p].buf = Append(k.task[p].buf, c) /\ written[p].buflen = k.task[p].buflen
    BY <2>1, <2>2, <1>4
  <2>4. k.task[p].buf \in Seq(Nat) /\ k.task[p].buflen \in Nat
    <3>1. k.task[p] \in Task
      BY <1>2
    <3> QED BY <3>1 DEF Task
  <2>5. Len(Append(k.task[p].buf, c)) = Len(k.task[p].buf) + 1 /\ Len(k.task[p].buf) \in Nat
    BY <2>4, AppendProperties, LenProperties
  <2>6. Len(k.task[p].buf) < k.task[p].buflen
    BY <2>1 DEF Roomy
  <2>7. after[p].buflen = k.task[p].buflen /\ after[p].buf = written[p].buf
    BY <1>5
  <2> HIDE DEF after
  <2> QED BY <2>2, <2>3, <2>4, <2>5, <2>6, <2>7
<1>18. Told(k.task, after, eof)
  <2>1. ASSUME NEW p \in Slots, p \notin waiting PROVE after[p] = k.task[p]
    <3>1. p \notin ended /\ ~k.task[p].waiting_on_read
      BY <2>1
    <3>2. after[p] = [written[p] EXCEPT !.waiting_on_read = @ /\ p \notin ended]
      OBVIOUS
    <3>3. written[p] = k.task[p]
      BY <2>1 DEF written
    <3>4. k.task[p] \in Task
      BY <1>2
    <3> HIDE DEF waiting, ended, after, written
    <3> QED BY <3>1, <3>2, <3>3, <3>4 DEF Task
  <2>2. ASSUME NEW p \in Slots, p \in ended, Roomy(k.task), ~eof PROVE Complete(after[p])
    <3>1. p \in waiting /\ read_ends(c, written[p])
      BY <2>2
    <3>2. written[p].buf = Append(k.task[p].buf, c) /\ written[p].buflen = k.task[p].buflen
      BY <3>1, <2>2, <1>4
    <3>3. k.task[p].buf \in Seq(Nat) /\ k.task[p].buflen \in Nat
      <4>1. k.task[p] \in Task
        BY <1>2
      <4> QED BY <4>1 DEF Task
    <3>4. /\ Len(Append(k.task[p].buf, c)) = Len(k.task[p].buf) + 1 /\ Len(k.task[p].buf) \in Nat
          /\ Append(k.task[p].buf, c)[Len(k.task[p].buf) + 1] = c
          /\ Append(k.task[p].buf, c) # <<>>
      <4> DEFINE b == k.task[p].buf
      <4>1. b \in Seq(Nat)
        BY <3>3
      <4> HIDE DEF b
      <4>2. /\ Len(Append(b, c)) = Len(b) + 1 /\ Len(b) \in Nat
            /\ Append(b, c)[Len(b) + 1] = c
        BY <4>1
      <4>3. Append(b, c) # <<>>
        BY <4>1, <4>2, EmptySeq
      <4> QED BY <4>2, <4>3 DEF b
    <3>5. Len(k.task[p].buf) < k.task[p].buflen
      BY <2>2, <3>1 DEF Roomy
    <3>6. after[p].buf = written[p].buf /\ after[p].buflen = written[p].buflen
      BY <1>4, <1>5
    <3>7. c = NEWLINE \/ Len(written[p].buf) = written[p].buflen
      BY <2>2, <3>1 DEF read_ends
    <3> DEFINE b == Append(k.task[p].buf, c)
    <3>8. /\ after[p].buf = b /\ after[p].buflen = k.task[p].buflen
          /\ b # <<>> /\ Last(b) = c /\ Len(b) = Len(k.task[p].buf) + 1
      BY <3>2, <3>4, <3>6 DEF Last
    <3>9. Len(b) \in Nat /\ k.task[p].buflen \in Nat /\ Len(b) <= k.task[p].buflen
      BY <3>3, <3>4, <3>5
    <3>10. c = NEWLINE \/ Len(b) = k.task[p].buflen
      BY <3>2, <3>7
    <3> HIDE DEF after, waiting, ended, eof, written, b
    <3>11. CASE Len(b) = k.task[p].buflen
      BY <3>8, <3>11 DEF Complete
    <3>12. CASE c = NEWLINE /\ Len(b) # k.task[p].buflen
      <4>1. Len(b) < k.task[p].buflen
        BY <3>9, <3>12
      <4> QED BY <3>8, <3>12, <4>1 DEF Complete
    <3> QED BY <3>10, <3>11, <3>12
  <2>3. \A p \in Slots : k.task[p].waiting_on_read <=> p \in waiting
    OBVIOUS
  <2> HIDE DEF after, waiting, ended, eof
  <2> QED BY <1>5, <2>1, <2>2, <2>3 DEF Told
<1>11. Cardinality(ended) \in Int
  <2>1. IsFiniteSet(Slots)
    BY FS_Interval, TableAssumption DEF Slots
  <2>2. ended \subseteq Slots
    OBVIOUS
  <2> HIDE DEF ended
  <2> QED BY <2>1, <2>2, FS_Subset, FS_CardinalityType
<1>12. InOrder(TaskOrder, ended) \in Seq(Slots)
  BY TasksInOrder, OrderLists
<1> HIDE DEF after, ended, waiting, eof
<1>13. k.unblocked \o InOrder(TaskOrder, ended) \in Seq(Slots)
  BY <1>2, <1>12, ConcatProperties
<1>14. /\ k2 \in Boards /\ k2.buffer = k.buffer /\ k2.task = after
       /\ k2.refcount = k.refcount - Cardinality(ended)
       /\ k2.unblocked = k.unblocked \o InOrder(TaskOrder, ended)
       /\ k2.done <=> (k.done \/ eof)
       /\ k2.enabled <=> (k.enabled /\ ~eof)
  <2> DEFINE t == after
             r == k.refcount - Cardinality(ended)
             u == k.unblocked \o InOrder(TaskOrder, ended)
             d == k.done \/ eof
             e == k.enabled /\ ~eof
  <2>1. /\ t \in [Slots -> Task] /\ r \in Int /\ u \in Seq(Slots)
        /\ d \in BOOLEAN /\ e \in BOOLEAN
    BY <1>2, <1>6, <1>11, <1>13
  <2>2. k2 = [k EXCEPT !.task = t, !.refcount = r, !.done = d, !.enabled = e, !.unblocked = u]
    BY <1>1
  <2> HIDE DEF t, r, u, d, e, k2
  <2>3. /\ k2 \in Boards /\ k2.buffer = k.buffer /\ k2.task = t /\ k2.refcount = r
        /\ k2.unblocked = u /\ k2.done = d /\ k2.enabled = e
    BY <2>1, <2>2 DEF Boards
  <2> QED BY <2>3 DEF t, r, u, d, e
<1> HIDE DEF k2
<1>15. Reads(k.task) \ Reads(k2.task) = ended /\ Reads(k2.task) \subseteq Reads(k.task)
  BY <1>3, <1>7, <1>8, <1>14
<1>16. eof => Reads(k2.task) = {}
  BY <1>7, <1>9, <1>14
<1>17. Roomy(k.task) => Roomy(k2.task)
  BY <1>10, <1>14
<1>19. Told(k.task, k2.task, k2.done)
  BY <1>14, <1>18 DEF Told
<1> QED BY <1>14, <1>15, <1>16, <1>17, <1>19 DEF k2, eof

\* What each character keeps true a flush keeps true.
LEMMA FlushInvariant ==
    ASSUME NEW k, NEW n \in Nat, DOMAIN k.buffer = 1..n, NEW I, k \in I[0],
           \A i \in 1..n : \A s \in I[i - 1] : flush_one(s, k.buffer[i]) \in I[i]
    PROVE  keyboard_flush_buffer(k) \in I[n]
<1>1. PICK f : /\ f[0] = k
               /\ \A i \in 1..n : f[i] = flush_one(f[i - 1], k.buffer[i])
               /\ keyboard_flush_buffer(k) = f[n]
  BY FlushSteps
<1> DEFINE T == {i \in Nat : i <= n => f[i] \in I[i]}
<1>2. 0 \in T
  BY <1>1
<1>3. ASSUME NEW i \in Nat, i \in T PROVE i + 1 \in T
  <2> SUFFICES ASSUME i + 1 <= n PROVE f[i + 1] \in I[i + 1]
    BY <1>3
  <2>1. i + 1 \in 1..n /\ (i + 1) - 1 = i /\ i <= n
    OBVIOUS
  <2>2. f[i] \in I[i]
    BY <1>3, <2>1
  <2>3. f[i + 1] = flush_one(f[i], k.buffer[i + 1])
    BY <1>1, <2>1
  <2>4. \A s \in I[i] : flush_one(s, k.buffer[i + 1]) \in I[i + 1]
    BY <2>1
  <2> QED BY <2>2, <2>3, <2>4
<1> HIDE DEF T
<1>4. n \in T
  BY <1>2, <1>3, NatInduct
<1> QED BY <1>1, <1>4 DEF T

\* The reads that a flush may leave, and what it tells of those it ends.
Flushed(k, s) ==
    /\ s \in Boards
    /\ Reads(s.task) \subseteq Reads(k.task)
    /\ s.refcount = k.refcount - Cardinality(Reads(k.task) \ Reads(s.task))
    /\ Lists(s.unblocked, Reads(k.task) \ Reads(s.task))
    /\ k.done => s.done
    /\ s.enabled <=> (k.enabled /\ (s.done => k.done))
    /\ s.done => k.done \/ Reads(s.task) = {}
    /\ Roomy(k.task) => Roomy(s.task)
    /\ Told(k.task, s.task, s.done)

\* No character yet.
LEMMA FlushedNothing ==
    ASSUME NEW k \in Boards, k.unblocked = <<>>, k.enabled => ~k.done
    PROVE  Flushed(k, k)
<1>1. Reads(k.task) \ Reads(k.task) = {} /\ Cardinality({}) = 0
  BY FS_EmptySet
<1>2. k.refcount = k.refcount - 0 /\ Lists(k.unblocked, {})
      /\ k.done \in BOOLEAN /\ k.enabled \in BOOLEAN
  BY ListsEmpty DEF Boards
<1> QED BY <1>1, <1>2 DEF Flushed, Told

\* One character more.
LEMMA FlushedOneMore ==
    ASSUME NEW k \in Boards, NEW s, Flushed(k, s), NEW c \in Nat,
           k.enabled => ~k.done
    PROVE  LET s2 == keyboard_process_char(s, c)
           IN  Flushed(k, s2) /\ s2.buffer = s.buffer
<1> DEFINE s2 == keyboard_process_char(s, c)
           R0 == Reads(k.task)
           R1 == Reads(s.task)
           R2 == Reads(s2.task)
<1>1. /\ s \in Boards /\ R1 \subseteq R0
      /\ s.refcount = k.refcount - Cardinality(R0 \ R1)
      /\ Lists(s.unblocked, R0 \ R1)
      /\ k.done => s.done
      /\ s.enabled <=> (k.enabled /\ (s.done => k.done))
      /\ s.done => k.done \/ R1 = {}
      /\ Roomy(k.task) => Roomy(s.task)
      /\ Told(k.task, s.task, s.done)
  BY DEF Flushed
<1>2. /\ s2 \in Boards /\ s2.buffer = s.buffer
      /\ R2 \subseteq R1
      /\ s2.refcount = s.refcount - Cardinality(R1 \ R2)
      /\ s2.unblocked = s.unblocked \o InOrder(TaskOrder, R1 \ R2)
      /\ s2.done <=> (s.done \/ c = g_keyboard_eof)
      /\ s2.enabled <=> (s.enabled /\ c # g_keyboard_eof)
      /\ c = g_keyboard_eof => R2 = {}
      /\ Roomy(s.task) => Roomy(s2.task)
      /\ Told(s.task, s2.task, s2.done)
  BY <1>1, CharFacts
<1>3. R0 \subseteq Slots
  BY DEF Reads
<1>4. /\ k.done \in BOOLEAN /\ k.enabled \in BOOLEAN /\ k.refcount \in Int
      /\ s.done \in BOOLEAN /\ s.enabled \in BOOLEAN
      /\ s2.done \in BOOLEAN /\ s2.enabled \in BOOLEAN
      /\ s.unblocked \in Seq(Slots)
  BY <1>1, <1>2 DEF Boards
<1> HIDE DEF s2, R0, R1, R2
<1>5. Cardinality(R0 \ R2) = Cardinality(R0 \ R1) + Cardinality(R1 \ R2)
      /\ Cardinality(R0 \ R1) \in Int /\ Cardinality(R1 \ R2) \in Int
  <2>1. IsFiniteSet(Slots)
    BY FS_Interval, TableAssumption DEF Slots
  <2>2. IsFiniteSet(R0 \ R1) /\ IsFiniteSet(R1 \ R2)
    BY <1>1, <1>2, <1>3, <2>1, FS_Subset
  <2>3. (R0 \ R1) \cup (R1 \ R2) = R0 \ R2 /\ (R0 \ R1) \cap (R1 \ R2) = {}
    BY <1>1, <1>2
  <2>4. Cardinality((R0 \ R1) \cap (R1 \ R2)) = 0
    BY <2>3, FS_EmptySet
  <2>5. /\ Cardinality(R0 \ R1) \in Nat /\ Cardinality(R1 \ R2) \in Nat
        /\ Cardinality((R0 \ R1) \cup (R1 \ R2)) = Cardinality(R0 \ R1) + Cardinality(R1 \ R2)
                                                 - Cardinality((R0 \ R1) \cap (R1 \ R2))
    BY <2>2, FS_Union, FS_CardinalityType
  <2>6. Cardinality((R0 \ R1) \cup (R1 \ R2)) = Cardinality(R0 \ R2)
    BY <2>3
  <2>7. Cardinality(R0 \ R1) \in Int /\ Cardinality(R1 \ R2) \in Int
    BY <2>5
  <2> QED BY <2>4, <2>5, <2>6, <2>7
<1>6. Lists(s2.unblocked, R0 \ R2)
  <2>1. /\ InOrder(TaskOrder, R1 \ R2) \in Seq(Slots)
        /\ Lists(InOrder(TaskOrder, R1 \ R2), Slots \cap (R1 \ R2))
    BY TasksInOrder, OrderLists
  <2>2. Slots \cap (R1 \ R2) = R1 \ R2 /\ (R0 \ R1) \cap (R1 \ R2) = {}
        /\ (R0 \ R1) \cup (R1 \ R2) = R0 \ R2
    BY <1>1, <1>2, <1>3
  <2>3. Lists(InOrder(TaskOrder, R1 \ R2), R1 \ R2)
    BY <2>1, <2>2
  <2>4. Lists(s.unblocked \o InOrder(TaskOrder, R1 \ R2), (R0 \ R1) \cup (R1 \ R2))
    BY <1>1, <1>4, <2>1, <2>2, <2>3, ConcatLists
  <2> QED BY <1>2, <2>2, <2>4
<1>7. s2.refcount = k.refcount - Cardinality(R0 \ R2)
  <2> DEFINE a == Cardinality(R0 \ R1)
             b == Cardinality(R1 \ R2)
  <2>1. /\ s.refcount = k.refcount - a /\ s2.refcount = s.refcount - b
        /\ Cardinality(R0 \ R2) = a + b
    BY <1>1, <1>2, <1>5
  <2>2. a \in Int /\ b \in Int /\ k.refcount \in Int
    BY <1>4, <1>5
  <2> HIDE DEF a, b
  <2>3. s2.refcount = k.refcount - (a + b)
    BY <2>1, <2>2
  <2> QED BY <2>1, <2>3
<1>8. s2.done => k.done \/ R2 = {}
  BY <1>1, <1>2, <1>4
<1>9. s2.enabled <=> (k.enabled /\ (s2.done => k.done))
  BY <1>1, <1>2, <1>4
<1>10. R2 \subseteq R0 /\ (k.done => s2.done) /\ (Roomy(k.task) => Roomy(s2.task))
  BY <1>1, <1>2
<1>11. Told(k.task, s2.task, s2.done)
  <2>1. s.done => s2.done
    BY <1>2
  <2>2. \A p \in Slots : s2.task[p].waiting_on_read => s.task[p].waiting_on_read
    BY <1>2 DEF R1, R2, Reads
  <2> QED BY <1>1, <1>2, <2>1, <2>2 DEF Told
<1> QED BY <1>2, <1>6, <1>7, <1>8, <1>9, <1>10, <1>11 DEF Flushed, s2, R0, R1, R2

\* A flush, and that it stops only when nothing is left to do.
LEMMA FlushFacts ==
    ASSUME NEW k \in Boards, k.unblocked = <<>>, k.enabled => ~k.done
    PROVE  LET k2 == keyboard_flush_buffer(k)
           IN  /\ Flushed(k, k2)
               /\ k2.refcount <= 0 \/ k2.buffer = <<>>
               /\ k.buffer = <<>> => k2 = k
<1> DEFINE n == Len(k.buffer)
           I == [i \in 0..n |-> {s \in Boards : /\ Flushed(k, s)
                                                /\ s.refcount <= 0 \/ Len(s.buffer) = n - i
                                                /\ i = 0 => s = k}]
<1>1. /\ k.buffer \in Seq(Nat) /\ n \in Nat /\ DOMAIN k.buffer = 1..n
      /\ \A i \in 1..n : k.buffer[i] \in Nat
  <2>1. k.buffer \in Seq(Nat)
    BY DEF Boards
  <2> QED BY <2>1, LenProperties, ElementOfSeq
<1> HIDE DEF n
<1>2. Flushed(k, k)
  BY FlushedNothing
<1>3. k \in I[0]
  <2>1. Len(k.buffer) = n - 0
    BY <1>1 DEF n
  <2> QED BY <1>1, <1>2, <2>1
<1>4. ASSUME NEW i \in 1..n, NEW s \in I[i - 1]
      PROVE  flush_one(s, k.buffer[i]) \in I[i]
  <2> DEFINE c == k.buffer[i]
             s2 == keyboard_process_char(s, c)
             s3 == [s2 EXCEPT !.buffer = Tail(@)]
  <2>0. i \in 0..n /\ i - 1 \in 0..n /\ i # 0 /\ i \in Int /\ i <= n
    BY <1>1
  <2>1. s \in Boards /\ Flushed(k, s) /\ (s.refcount <= 0 \/ Len(s.buffer) = n - (i - 1))
    BY <2>0
  <2>2. c \in Nat
    BY <1>1
  <2>3. Flushed(k, s2) /\ s2.buffer = s.buffer /\ s2 \in Boards
    <3>1. Flushed(k, s2) /\ s2.buffer = s.buffer
      BY <2>1, <2>2, FlushedOneMore
    <3> QED BY <3>1 DEF Flushed
  <2> HIDE DEF I, c
  <2>4. CASE s.refcount > 0
    <3>1. s.refcount \in Int
      BY <2>1 DEF Boards
    <3>2. Len(s.buffer) = n - (i - 1) /\ Len(s.buffer) # 0 /\ s.buffer \in Seq(Nat)
      BY <2>0, <2>1, <2>4, <3>1, <1>1 DEF Boards
    <3>3. s.buffer # <<>>
      BY <3>2, EmptySeq
    <3>4. Tail(s.buffer) \in Seq(Nat) /\ Len(Tail(s.buffer)) = n - i
      <4>1. Tail(s.buffer) \in Seq(Nat) /\ Len(Tail(s.buffer)) = Len(s.buffer) - 1
        BY <3>2, <3>3, HeadTailProperties
      <4> QED BY <4>1, <3>2, <2>0, <1>1
    <3> HIDE DEF s2
    <3>5. /\ s3 \in Boards /\ s3.buffer = Tail(s.buffer) /\ s3.task = s2.task
          /\ s3.refcount = s2.refcount /\ s3.done = s2.done /\ s3.enabled = s2.enabled
          /\ s3.unblocked = s2.unblocked
      BY <2>3, <3>4 DEF Boards
    <3> HIDE DEF s3
    <3>6. Flushed(k, s3)
      BY <2>3, <3>5 DEF Flushed
    <3>7. flush_one(s, c) = s3
      BY <2>4 DEF flush_one, s2, s3
    <3> QED BY <2>0, <3>4, <3>5, <3>6, <3>7 DEF I, c
  <2>5. CASE ~(s.refcount > 0)
    <3>1. s.refcount <= 0
      BY <2>1, <2>5 DEF Boards
    <3>2. flush_one(s, c) = s
      BY <2>5 DEF flush_one
    <3> QED BY <2>0, <2>1, <3>1, <3>2 DEF I, c
  <2> QED BY <2>4, <2>5
<1>5. keyboard_flush_buffer(k) \in I[n]
  <2> HIDE DEF I
  <2> QED BY <1>1, <1>3, <1>4, FlushInvariant
<1> DEFINE k2 == keyboard_flush_buffer(k)
<1> HIDE DEF k2
<1>6. /\ k2 \in Boards /\ Flushed(k, k2)
      /\ k2.refcount <= 0 \/ Len(k2.buffer) = n - n
      /\ n = 0 => k2 = k
  BY <1>1, <1>5 DEF k2
<1>7. Len(k2.buffer) = 0 => k2.buffer = <<>>
  BY <1>6, EmptySeq DEF Boards
<1>8. k.buffer = <<>> => n = 0
  BY <1>1, EmptySeq DEF n
<1> QED BY <1>1, <1>6, <1>7, <1>8 DEF k2

-----------------------------------------------------------------------------
(* The state of the driver, whatever the processes do *)

DevTypes ==
    /\ g_kbd_refcount \in Nat /\ g_kbd_task_refcount \in Int
    /\ g_kbd_done \in BOOLEAN /\ enabled \in BOOLEAN
    /\ task \in [Slots -> Task] /\ g_keyboard_buffer \in Seq(Nat)

DevInv == DevTypes /\ EnabledWhileOpen /\ RoomToWrite

\* No more descriptors are closed than are counted.
LEMMA ClosableFacts ==
    ASSUME NEW fds \in SUBSET Fds, g_kbd_refcount \in Nat
    PROVE  /\ closable(fds) \subseteq fds
           /\ IsFiniteSet(closable(fds)) /\ Cardinality(closable(fds)) \in Nat
           /\ Cardinality(closable(fds)) <= g_kbd_refcount
<1> DEFINE Z == closable(fds)
<1>1. Z \subseteq fds /\ \A fd \in Z : Cardinality({f \in fds : f <= fd}) <= g_kbd_refcount
  BY DEF closable
<1>2. IsFiniteSet(fds) /\ \A f \in fds : f \in Nat /\ PCB_NUM_FDS - f \in Nat
  <2>1. IsFiniteSet(Fds)
    BY FS_Interval, FdAssumption DEF Fds
  <2>2. \A f \in Fds : f \in Nat /\ PCB_NUM_FDS - f \in Nat
    BY FdAssumption DEF Fds
  <2> QED BY <2>1, <2>2, FS_Subset
<1> HIDE DEF Z
<1>3. IsFiniteSet(Z) /\ Cardinality(Z) \in Nat
  BY <1>1, <1>2, FS_Subset, FS_CardinalityType
<1>4. CASE Z = {}
  <2>1. Cardinality(Z) = 0
    BY <1>4, FS_EmptySet
  <2> QED BY <1>1, <1>3, <2>1 DEF Z
<1>5. CASE Z # {}
  <2> DEFINE T == {PCB_NUM_FDS - f : f \in Z}
  <2>1. T \subseteq Nat /\ T # {}
    BY <1>1, <1>2, <1>5
  <2> HIDE DEF T
  <2>2. Min(T) \in T /\ \A y \in T : Min(T) <= y
    BY <2>1, MinInSet
  <2>3. PICK x \in Z : Min(T) = PCB_NUM_FDS - x
    BY <2>2 DEF T
  <2>4. \A f \in Z : PCB_NUM_FDS - x <= PCB_NUM_FDS - f
    BY <2>2, <2>3 DEF T
  <2>5. \A f \in Z : f <= x
    BY <1>1, <1>2, <2>4, FdAssumption
  <2> DEFINE S == {f \in fds : f <= x}
  <2>6. Z \subseteq S /\ S \subseteq fds /\ Cardinality(S) <= g_kbd_refcount
    BY <1>1, <2>5
  <2> HIDE DEF S
  <2>7. IsFiniteSet(S) /\ Cardinality(S) \in Nat
    BY <1>2, <2>6, FS_Subset, FS_CardinalityType
  <2>8. Cardinality(Z) <= Cardinality(S)
    BY <2>6, <2>7, FS_Subset
  <2>9. Cardinality(Z) <= g_kbd_refcount
    BY <1>3, <2>6, <2>7, <2>8
  <2> QED BY <1>1, <1>3, <2>9 DEF Z
<1> QED BY <1>4, <1>5

\* Closing keeps the driver's state right.
LEMMA CloseKeeps ==
    ASSUME DevInv, NEW proc, NEW fds \in SUBSET Fds, kbd_close(proc, closable(fds))
    PROVE  DevInv'
<1> DEFINE closed == closable(fds)
           n == Cardinality(closed)
<1>1. n \in Nat /\ n <= g_kbd_refcount /\ (closed = {} <=> n = 0)
  <2>1. IsFiniteSet(closed) /\ n \in Nat /\ n <= g_kbd_refcount
    BY ClosableFacts DEF DevInv, DevTypes
  <2> HIDE DEF closed
  <2> QED BY <2>1, FS_EmptySet
<1>2. /\ g_kbd_refcount' = g_kbd_refcount - n
      /\ enabled' = (enabled /\ (closed = {} \/ n < g_kbd_refcount))
      /\ task' = [task EXCEPT ![proc].waiting_on_read = @ /\ closed = {}]
      /\ g_kbd_task_refcount' = g_kbd_task_refcount
             - (IF closed # {} /\ task[proc].waiting_on_read THEN 1 ELSE 0)
      /\ UNCHANGED <<g_kbd_done, g_keyboard_buffer>>
  BY DEF kbd_close, enabled_after_close, task_after_close
<1> HIDE DEF closed, n
<1>3. DevTypes'
  <2>1. g_kbd_refcount' \in Nat /\ g_kbd_task_refcount' \in Int
    BY <1>1, <1>2 DEF DevInv, DevTypes
  <2>2. task' \in [Slots -> Task]
    <3>1. task \in [Slots -> Task]
      BY DEF DevInv, DevTypes
    <3>2. \A p \in Slots : [task[p] EXCEPT !.waiting_on_read = @ /\ closed = {}] \in Task
      BY <3>1 DEF Task
    <3> QED BY <3>1, <3>2, <1>2
  <2> QED BY <1>2, <2>1, <2>2 DEF DevInv, DevTypes
<1>4. EnabledWhileOpen'
  BY <1>1, <1>2 DEF DevInv, DevTypes, EnabledWhileOpen
<1>5. RoomToWrite'
  <2>1. task \in [Slots -> Task]
    BY DEF DevInv, DevTypes
  <2>2. ASSUME NEW p \in Slots
        PROVE  /\ task'[p].waiting_on_read => task[p].waiting_on_read
               /\ task'[p].buf = task[p].buf /\ task'[p].buflen = task[p].buflen
    <3>1. CASE p = proc
      <4>1. task'[p] = [task[p] EXCEPT !.waiting_on_read = @ /\ closed = {}]
        BY <1>2, <2>1, <3>1
      <4>2. task[p] \in Task
        BY <2>1
      <4> QED BY <4>1, <4>2 DEF Task
    <3>2. CASE p # proc
      <4>1. task'[p] = task[p]
        BY <1>2, <2>1, <3>2
      <4> QED BY <4>1
    <3> QED BY <3>1, <3>2
  <2> QED BY <2>2 DEF DevInv, RoomToWrite
<1> QED BY <1>3, <1>4, <1>5 DEF DevInv

\* What the driver knows, as a board.
LEMMA KeyboardIsBoard ==
    ASSUME DevInv
    PROVE  /\ Keyboard \in Boards /\ Keyboard.unblocked = <<>>
           /\ Keyboard.task = task /\ Keyboard.refcount = g_kbd_task_refcount
           /\ Keyboard.done = g_kbd_done /\ Keyboard.enabled = enabled
           /\ Keyboard.buffer = g_keyboard_buffer
           /\ enabled => ~g_kbd_done
           /\ Roomy(task)
BY EmptySeq DEF DevInv, DevTypes, Boards, Keyboard, EnabledWhileOpen, RoomToWrite, Roomy

\* The board on which the running process begins to read.
Reading(buflen) ==
    [Keyboard EXCEPT !.task = [task EXCEPT ![currproc] =
                                 [waiting_on_read |-> TRUE, buflen |-> buflen, buf |-> <<>>]],
                     !.refcount = @ + 1]

\* A read begins with room for a character.
LEMMA ReadingIsBoard ==
    ASSUME DevInv, NEW buflen \in ReadLens
    PROVE  LET k0 == Reading(buflen)
           IN  /\ k0 \in Boards /\ k0.unblocked = <<>>
               /\ k0.task = [task EXCEPT ![currproc] =
                               [waiting_on_read |-> TRUE, buflen |-> buflen, buf |-> <<>>]]
               /\ k0.refcount = g_kbd_task_refcount + 1
               /\ k0.done = g_kbd_done /\ k0.enabled = enabled /\ k0.buffer = g_keyboard_buffer
               /\ Roomy(k0.task)
<1> DEFINE new == [waiting_on_read |-> TRUE, buflen |-> buflen, buf |-> <<>>]
           started == [task EXCEPT ![currproc] = new]
<1>1. buflen \in Nat /\ buflen > 0 /\ new \in Task
  <2>1. buflen \in Nat /\ buflen > 0
    BY KeyAssumption
  <2> QED BY <2>1, EmptySeq DEF Task
<1>2. task \in [Slots -> Task]
  BY DEF DevInv, DevTypes
<1>3. new.waiting_on_read /\ Len(new.buf) = 0 /\ new.buflen = buflen
  BY EmptySeq
<1> HIDE DEF new
<1>4. started \in [Slots -> Task] /\ \A p \in Slots : started[p] = IF p = currproc THEN new ELSE task[p]
  BY <1>1, <1>2
<1>5. Roomy(started)
  BY <1>1, <1>3, <1>4, KeyboardIsBoard DEF Roomy
<1> HIDE DEF started
<1>6. Reading(buflen) = [Keyboard EXCEPT !.task = started, !.refcount = g_kbd_task_refcount + 1]
  BY KeyboardIsBoard DEF Reading, started, new, Boards
<1>7. g_kbd_task_refcount + 1 \in Int
  BY DEF DevInv, DevTypes
<1> QED BY <1>4, <1>5, <1>6, <1>7, KeyboardIsBoard DEF Boards, started, new

\* The driver's state is right again after the characters it handled.
LEMMA BecomesKeeps ==
    ASSUME DevInv, NEW k0 \in Boards, NEW k, Flushed(k0, k), Becomes(k),
           k0.done = g_kbd_done, k0.enabled = enabled, Roomy(k0.task)
    PROVE  DevInv'
<1>1. /\ k \in Boards
      /\ k0.done => k.done
      /\ k.enabled <=> (k0.enabled /\ (k.done => k0.done))
      /\ Roomy(k.task)
  BY DEF Flushed
<1>2. /\ task' = k.task /\ g_kbd_task_refcount' = k.refcount /\ g_kbd_done' = k.done
      /\ enabled' = k.enabled /\ g_keyboard_buffer' = k.buffer
      /\ UNCHANGED g_kbd_refcount
  BY DEF Becomes
<1>3. DevTypes'
  BY <1>1, <1>2 DEF DevInv, DevTypes, Boards
<1>4. EnabledWhileOpen'
  BY <1>1, <1>2 DEF DevInv, EnabledWhileOpen
<1>5. RoomToWrite'
  BY <1>1, <1>2 DEF RoomToWrite, Roomy
<1> QED BY <1>3, <1>4, <1>5 DEF DevInv

\* The keyboard interrupt: the board after the character, in either case.
Typed(c) ==
    IF g_kbd_task_refcount > 0 THEN keyboard_process_char(Keyboard, c)
    ELSE [Keyboard EXCEPT !.buffer =
             IF Len(g_keyboard_buffer) < KEYBOARD_BUFFER_SIZE - 1 THEN Append(@, c) ELSE @]

\* A character that is typed ends reads or waits in the buffer.
LEMMA TypedFacts ==
    ASSUME DevInv, NEW c \in Keys
    PROVE  /\ Flushed(Keyboard, Typed(c))
           /\ g_kbd_task_refcount > 0 => Typed(c).buffer = g_keyboard_buffer
<1>1. c \in Nat
  BY KeyAssumption
<1>2. Flushed(Keyboard, Keyboard)
  BY KeyboardIsBoard, FlushedNothing
<1>3. CASE g_kbd_task_refcount > 0
  BY <1>1, <1>2, <1>3, KeyboardIsBoard, FlushedOneMore DEF Typed
<1>4. CASE ~(g_kbd_task_refcount > 0)
  <2> DEFINE b == IF Len(g_keyboard_buffer) < KEYBOARD_BUFFER_SIZE - 1
                  THEN Append(g_keyboard_buffer, c) ELSE g_keyboard_buffer
             k == Typed(c)
  <2>1. b \in Seq(Nat)
    BY <1>1, AppendProperties DEF DevInv, DevTypes
  <2>2. k = [Keyboard EXCEPT !.buffer = b]
    BY <1>4, KeyboardIsBoard DEF Typed
  <2> HIDE DEF b, k
  <2>3. k \in Boards /\ k.task = Keyboard.task /\ k.refcount = Keyboard.refcount
        /\ k.done = Keyboard.done /\ k.enabled = Keyboard.enabled
        /\ k.unblocked = Keyboard.unblocked
    BY <2>1, <2>2, KeyboardIsBoard DEF Boards
  <2>4. Flushed(Keyboard, k)
    BY <1>2, <2>3 DEF Flushed
  <2> QED BY <1>4, <2>4 DEF k
<1> QED BY <1>3, <1>4

\* The driver starts right.
LEMMA InitDevInv == KbdInit => DevInv
<1> SUFFICES ASSUME KbdInit PROVE DevInv
  OBVIOUS
<1>1. [waiting_on_read |-> FALSE, buflen |-> 0, buf |-> <<>>] \in Task
  BY EmptySeq DEF Task
<1>2. DevTypes
  <2>1. /\ g_kbd_refcount = 0 /\ g_kbd_done = FALSE /\ enabled = FALSE
        /\ task = [p \in Slots |-> [waiting_on_read |-> FALSE, buflen |-> 0, buf |-> <<>>]]
        /\ g_kbd_task_refcount = 0 /\ g_keyboard_buffer = <<>>
    BY DEF KbdInit
  <2>2. task \in [Slots -> Task]
    BY <1>1, <2>1
  <2>3. g_keyboard_buffer \in Seq(Nat)
    BY <2>1, EmptySeq
  <2>4. /\ g_kbd_refcount \in Nat /\ g_kbd_task_refcount \in Int
        /\ g_kbd_done \in BOOLEAN /\ enabled \in BOOLEAN
    <3>1. g_kbd_done = FALSE /\ enabled = FALSE
      BY <2>1
    <3>2. g_kbd_done \in BOOLEAN /\ enabled \in BOOLEAN
      BY <3>1, Zenon
    <3> QED BY <2>1, <3>2
  <2> QED BY <2>2, <2>3, <2>4 DEF DevTypes
<1>3. EnabledWhileOpen /\ RoomToWrite
  BY DEF KbdInit, EnabledWhileOpen, RoomToWrite
<1> QED BY <1>2, <1>3 DEF DevInv

\* Every step keeps it right.
LEMMA NextDevInv == DevInv /\ [KbdNext]_allVars => DevInv'
<1> SUFFICES ASSUME DevInv, [KbdNext]_allVars PROVE DevInv'
  OBVIOUS
<1>0. ASSUME UNCHANGED <<g_kbd_refcount, g_kbd_done, enabled, task, g_kbd_task_refcount,
                         g_keyboard_buffer>>
      PROVE  DevInv'
  BY <1>0 DEF DevInv, DevTypes, EnabledWhileOpen, RoomToWrite
<1>1. CASE kernel_step
  <2>1. CASE kbd_close(currproc, closable(Open(currproc)))
    BY <2>1, CloseKeeps DEF Open
  <2>2. CASE UNCHANGED kbdVars
    BY <2>2, <1>0 DEF kbdVars
  <2> QED BY <1>1, <2>1, <2>2 DEF kernel_step
<1>2. CASE keyboard_handler
  <2>1. PICK c \in Keys : Becomes(Typed(c))
    BY <1>2 DEF keyboard_handler, Typed
  <2>2. Flushed(Keyboard, Typed(c))
    BY TypedFacts
  <2> QED BY <2>1, <2>2, KeyboardIsBoard, BecomesKeeps
<1>3. CASE dispatch_syscall_open
  <2>1. CASE UNCHANGED devVars
    BY <2>1, <1>0 DEF devVars, kbdVars
  <2>2. CASE \E echo_flag : kbd_open(echo_flag) /\ UNCHANGED <<task, g_kbd_task_refcount>>
    <3>1. CASE /\ g_kbd_refcount > 0 /\ g_kbd_refcount' = g_kbd_refcount + 1
               /\ UNCHANGED <<g_kbd_done, enabled, g_keyboard_buffer, task, g_kbd_task_refcount>>
      <4>1. g_kbd_refcount' \in Nat /\ g_kbd_refcount' > 0
        BY <3>1 DEF DevInv, DevTypes
      <4> QED BY <3>1, <4>1 DEF DevInv, DevTypes, EnabledWhileOpen, RoomToWrite
    <3>2. CASE /\ g_kbd_refcount' = 1 /\ g_kbd_done' = FALSE /\ g_keyboard_buffer' = <<>>
               /\ enabled' = TRUE /\ UNCHANGED <<task, g_kbd_task_refcount>>
      <4>1. g_keyboard_buffer' \in Seq(Nat)
        BY <3>2, EmptySeq
      <4>2. DevTypes'
        BY <3>2, <4>1 DEF DevInv, DevTypes
      <4> QED BY <3>2, <4>2 DEF DevInv, EnabledWhileOpen, RoomToWrite
    <3> QED BY <2>2, <3>1, <3>2 DEF kbd_open
  <2> QED BY <1>3, <2>1, <2>2 DEF dispatch_syscall_open, di_open
<1>4. CASE dispatch_syscall_close
  <2>1. PICK fd \in FdArgs : kbd_close(currproc, closable({fd} \cap Open(currproc)))
    BY <1>4 DEF dispatch_syscall_close
  <2>2. {fd} \cap Open(currproc) \in SUBSET Fds
    BY DEF Open
  <2> QED BY <2>1, <2>2, CloseKeeps
<1>5. CASE dispatch_syscall_read
  <2>1. CASE UNCHANGED devVars
    BY <2>1, <1>0 DEF devVars, kbdVars
  <2>2. ASSUME NEW buflen \in ReadLens, kbd_read(buflen) PROVE DevInv'
    <3>1. Becomes(keyboard_flush_buffer(Reading(buflen)))
      BY <2>2 DEF kbd_read, Reading
    <3>2. Flushed(Reading(buflen), keyboard_flush_buffer(Reading(buflen)))
      BY ReadingIsBoard, KeyboardIsBoard, FlushFacts
    <3> QED BY <3>1, <3>2, ReadingIsBoard, BecomesKeeps
  <2> QED BY <1>5, <2>1, <2>2 DEF dispatch_syscall_read, di_read
<1>6. CASE dispatch_syscall_write
  BY <1>6, <1>0 DEF dispatch_syscall_write, di_write, devVars, kbdVars
<1>7. CASE dispatch_syscall_ioctl
  BY <1>7, <1>0 DEF dispatch_syscall_ioctl, di_ioctl, kbd_ioctl, devVars, kbdVars
<1>8. CASE UNCHANGED allVars
  BY <1>8, <1>0 DEF allVars, devVars, kbdVars
<1> QED BY <1>1, <1>2, <1>3, <1>4, <1>5, <1>6, <1>7, <1>8 DEF KbdNext

\* The driver's own state is right in every state, even one in which stale
\* reads have corrupted the queues of the kernel.
THEOREM DriverStaysRight == KbdSpec => []DevInv
<1>1. KbdInit => DevInv
  BY InitDevInv
<1>2. DevInv /\ [KbdNext]_allVars => DevInv'
  BY NextDevInv
<1> QED BY <1>1, <1>2, PTL DEF KbdSpec

\* The keyboard interrupts exactly while it is open and no EOF was typed.
THEOREM KeyboardListens == KbdSpec => []EnabledWhileOpen
<1>1. DevInv => EnabledWhileOpen
  BY DEF DevInv
<1> QED BY <1>1, DriverStaysRight, PTL

\* No character is written past the end of a reader's buffer.
THEOREM BuffersHaveRoom == KbdSpec => []RoomToWrite
<1>1. DevInv => RoomToWrite
  BY DEF DevInv
<1> QED BY <1>1, DriverStaysRight, PTL

-----------------------------------------------------------------------------
(* What a step of the rest of the kernel does to the states of processes *)

USE DEF READY, STOPPED, RUNNING, BLOCKED, SENDER, RECEIVER, WAITING, RECEIVE_ANY, SLEEP,
        DEVICE, NO_BLOCKER, NULL

\* The idle process never stops.
LEMMA IdleGoesOn ==
    ASSUME IInv, Next, curr_state'[currproc] = STOPPED
    PROVE  currproc \in Slots
<1> USE SlotFacts
<1> SUFFICES ASSUME currproc = IdleProc PROVE FALSE
  BY IInvTypes
<1>0. currproc \in Procs /\ curr_state[currproc] = RUNNING
  BY IInvTypes
<1>1. CASE ctsw_contextswitch
  BY <1>0, <1>1 DEF ctsw_contextswitch, pcbVars
<1>2. CASE timer_handler
  <2> DEFINE woken == SubSeq(sleeping, 1, expired)
             st == [p \in Procs |-> IF p = currproc \/ p \in ToSet(woken) THEN READY
                                    ELSE curr_state[p]]
  <2>1. CASE UNCHANGED pcbVars
    BY <2>1, <1>0 DEF pcbVars
  <2>2. CASE get_next_proc(enqueue_ready(ready \o woken, currproc), st)
    <3>1. DOMAIN st = Procs /\ st[currproc] = READY
      BY <1>0
    <3> HIDE DEF st
    <3> QED BY <1>0, <2>2, <3>1, Scheduled
  <2> QED BY <1>2, <2>1, <2>2 DEF timer_handler, Asserting
<1>3. ASSUME NEW c, Syscall(c) PROVE FALSE
  BY <1>3 DEF Syscall
<1> QED BY <1>1, <1>2, <1>3
        DEF Next, dispatch_syscall_create, syscall_yield, syscall_stop, syscall_getpid,
            dispatch_syscall_kill, dispatch_syscall_wait, dispatch_syscall_puts,
            dispatch_syscall_send, dispatch_syscall_recv, dispatch_syscall_sleep,
            dispatch_syscall_getcputimes, dispatch_syscall_sighandler,
            dispatch_syscall_sigreturn

\* Nobody is blocked on a device but by the handlers of this module.
NoNewDevice == \A p \in Slots : blocking_queue_name'[p] = DEVICE => blocking_queue_name[p] = DEVICE

\* A step that gives one process another blocker.
LEMMA RenameOne ==
    ASSUME IInv, NEW x, NEW name, name # DEVICE,
           blocking_queue_name' = [blocking_queue_name EXCEPT ![x] = name]
    PROVE  NoNewDevice
BY IInvTypes, SlotFacts DEF NoNewDevice

\* A step that unblocks a set of processes.
LEMMA RenameMany ==
    ASSUME NEW set,
           blocking_queue_name' = [p \in Procs |-> IF p \in set THEN NO_BLOCKER
                                                   ELSE blocking_queue_name[p]]
    PROVE  NoNewDevice
BY SlotFacts DEF NoNewDevice

\* No step of the rest of the kernel gives a process the device as its blocker.
LEMMA NextNotDevice == ASSUME IInv, Next PROVE NoNewDevice
<1> USE SlotFacts
<1>0. ASSUME UNCHANGED blocking_queue_name PROVE NoNewDevice
  BY <1>0 DEF NoNewDevice
<1>a. ASSUME NEW code, Return(code) PROVE NoNewDevice
  BY <1>a, <1>0 DEF Return, pcbVars
<1>b. ASSUME NEW owner, NEW queue \in Queues, NEW code, block_on(owner, queue, code)
      PROVE  NoNewDevice
  BY <1>b, RenameOne DEF block_on, Queues
<1>c. ASSUME cleanup_proc PROVE NoNewDevice
  BY <1>c, <1>0, RenameMany DEF cleanup_proc, Asserting, pcbVars
<1>d. ASSUME NEW src, NEW len, recv_now(src, len) PROVE NoNewDevice
  BY <1>d, <1>0, RenameOne DEF recv_now, Asserting, pcbVars
<1>1. CASE ctsw_contextswitch
  BY <1>1, <1>0 DEF ctsw_contextswitch, pcbVars
<1>2. CASE timer_handler
  BY <1>2, <1>0, RenameMany DEF timer_handler, Asserting, pcbVars
<1>3. CASE dispatch_syscall_create
  <2>1. ASSUME create PROVE NoNewDevice
    <3>1. \/ UNCHANGED pcbVars
          \/ blocking_queue_name' = [blocking_queue_name EXCEPT ![Head(stopped)] = NO_BLOCKER]
      BY <2>1 DEF create, Asserting
    <3> QED BY <3>1, <1>0, RenameOne DEF pcbVars
  <2>2. ASSUME create_without_table PROVE NoNewDevice
    BY <2>2, RenameOne DEF create_without_table
  <2> QED BY <1>3, <1>a, <2>1, <2>2 DEF dispatch_syscall_create
<1>4. CASE syscall_yield
  BY <1>4, <1>0 DEF syscall_yield
<1>5. CASE syscall_stop \/ dispatch_syscall_sigreturn
  BY <1>5, <1>c, <1>0 DEF syscall_stop, dispatch_syscall_sigreturn, sigreturn, pcbVars
<1>6. CASE syscall_getpid
  BY <1>6, <1>a DEF syscall_getpid
<1>7. CASE dispatch_syscall_kill
  <2>1. ASSUME NEW proc, NEW signal, set_proc_signal(proc, signal) PROVE NoNewDevice
    BY <2>1, <1>0, RenameOne DEF set_proc_signal, resolve_blocking, Asserting, pcbVars
  <2> QED BY <1>7, <1>a, <2>1 DEF dispatch_syscall_kill
<1>8. CASE dispatch_syscall_wait
  BY <1>8, <1>a, <1>b DEF dispatch_syscall_wait, Queues
<1>9. CASE dispatch_syscall_puts
  BY <1>9, <1>0 DEF dispatch_syscall_puts, Ignore, pcbVars
<1>10. CASE dispatch_syscall_send
  <2>1. ASSUME NEW dest, NEW message, send_now(dest, message) PROVE NoNewDevice
    BY <2>1, <1>0, RenameOne DEF send_now, Asserting, pcbVars
  <2>2. ASSUME NEW dest, NEW message, send_blocks(dest, message) PROVE NoNewDevice
    BY <2>2, <1>b DEF send_blocks, Queues
  <2> QED BY <1>10, <1>a, <2>1, <2>2 DEF dispatch_syscall_send
<1>11. CASE dispatch_syscall_recv
  <2>1. ASSUME NEW src, NEW len, recv(src, len) PROVE NoNewDevice
    BY <2>1, <1>b, <1>d DEF recv, Queues
  <2>2. ASSUME NEW len, recv_any(len) PROVE NoNewDevice
    BY <2>2, <1>a, <1>d, RenameOne DEF recv_any
  <2> QED BY <1>11, <1>a, <2>1, <2>2 DEF dispatch_syscall_recv
<1>12. CASE dispatch_syscall_sleep
  BY <1>12, <1>0, RenameOne DEF dispatch_syscall_sleep, sleep, Ignore, pcbVars
<1>13. CASE dispatch_syscall_getcputimes
  BY <1>13, <1>a, <1>0 DEF dispatch_syscall_getcputimes, Asserting, pcbVars
<1>14. CASE dispatch_syscall_sighandler
  BY <1>14, <1>a, <1>0 DEF dispatch_syscall_sighandler, pcbVars
<1> QED BY <1>1, <1>2, <1>3, <1>4, <1>5, <1>6, <1>7, <1>8, <1>9, <1>10, <1>11, <1>12, <1>13,
           <1>14 DEF Next

-----------------------------------------------------------------------------
(* Waking the processes whose reads have ended *)

\* The states and blockers after the wake-ups.  The running process blocks on
\* the device when its own read goes on: blocks is then the set of it, else {}.
woken_state(k, blocks) ==
    [p \in Procs |-> IF p \in blocks THEN BLOCKED ELSE unblocked_state(k)[p]]
woken_name(k, blocks) ==
    [p \in Procs |-> IF p \in blocks THEN DEVICE ELSE unblocked_name(k)[p]]

\* Waking processes that are blocked on the device leaves every list right.
LEMMA WakeReads ==
    ASSUME IInv, NEW k, NEW ended, k.unblocked \in Seq(Slots), Lists(k.unblocked, ended),
           \A p \in ended : curr_state[p] = BLOCKED => blocking_queue_name[p] = DEVICE,
           NEW blocks \in SUBSET {currproc}, blocks \subseteq Slots
    PROVE  /\ Prepared(woken_state(k, blocks), blocking_proc, woken_name(k, blocks),
                       blocking_queue, unblocked_ready(k), stopped, sleeping)
           /\ \A p \in Procs : woken_state(k, blocks)[p] = RUNNING <=> (p = currproc /\ p \notin blocks)
<1> USE SlotFacts
<1> DEFINE woken == ended \cap InState(BLOCKED)
           st == woken_state(k, blocks)
           nm == woken_name(k, blocks)
<1>1. /\ unblocked_procs(k) \in Seq(Slots) /\ Lists(unblocked_procs(k), woken)
      /\ \A p \in Procs : /\ st[p] = IF p \in blocks THEN BLOCKED
                                     ELSE IF p \in woken THEN READY ELSE curr_state[p]
                          /\ nm[p] = IF p \in blocks THEN DEVICE
                                     ELSE IF p \in woken THEN NO_BLOCKER
                                     ELSE blocking_queue_name[p]
  <2>1. unblocked_procs(k) \in Seq(Slots) /\ Lists(unblocked_procs(k), woken)
    BY OrderLists DEF unblocked_procs
  <2>2. ToSet(unblocked_procs(k)) = woken
    BY <2>1 DEF Lists
  <2> HIDE DEF woken
  <2>3. \A p \in Procs : /\ unblocked_state(k)[p] = IF p \in woken THEN READY ELSE curr_state[p]
                         /\ unblocked_name(k)[p] = IF p \in woken THEN NO_BLOCKER
                                                   ELSE blocking_queue_name[p]
    BY <2>2 DEF unblocked_state, unblocked_name
  <2> QED BY <2>1, <2>3 DEF woken_state, woken_name
<1>2. /\ woken \subseteq Slots
      /\ \A p \in woken : curr_state[p] = BLOCKED /\ blocking_queue_name[p] = DEVICE
  BY DEF InState
<1> HIDE DEF woken
<1>3. /\ curr_state \in [Procs -> ProcStates]
      /\ blocking_proc \in [Procs -> Slots \cup {NULL}]
      /\ blocking_queue_name \in [Procs -> Blockers]
      /\ blocking_queue \in [Procs -> [Queues -> Seq(Slots)]]
      /\ ready \in Seq(Slots) /\ stopped \in Seq(Slots) /\ sleeping \in Seq(Slots)
      /\ currproc \in Procs /\ curr_state[currproc] = RUNNING
      /\ \A x \in Procs : curr_state[x] = RUNNING => x = currproc
  BY IInvTypes
<1>4. st \in [Procs -> ProcStates] /\ nm \in [Procs -> Blockers]
  <2>1. DOMAIN st = Procs /\ st = [p \in Procs |-> st[p]]
        /\ DOMAIN nm = Procs /\ nm = [p \in Procs |-> nm[p]]
    BY DEF woken_state, woken_name
  <2> HIDE DEF st, nm
  <2>2. \A p \in Procs : st[p] \in ProcStates /\ nm[p] \in Blockers
    BY <1>1, <1>3 DEF ProcStates, Blockers
  <2> QED BY <2>1, <2>2
<1> HIDE DEF st, nm
<1>5. \A p \in Slots : /\ curr_state[p] # BLOCKED => blocking_proc[p] = NULL
                       /\ curr_state[p] \in {READY, RUNNING} => blocking_queue_name[p] = NO_BLOCKER
                       /\ curr_state[p] = BLOCKED =>
                             /\ blocking_queue_name[p] # NO_BLOCKER
                             /\ blocking_proc[p] # NULL <=> blocking_queue_name[p] \in Queues
  BY DEF IInv, BlockersMatchStates
<1>6. \A p \in woken : blocking_proc[p] = NULL /\ p # currproc
  BY <1>2, <1>3, <1>5 DEF Queues
<1>7. /\ {p \in Slots : st[p] = READY} = InState(READY) \cup woken
      /\ {p \in Slots : st[p] = STOPPED} = InState(STOPPED)
  <2>1. \A p \in blocks : curr_state[p] = RUNNING
    BY <1>3
  <2>2. ASSUME NEW p \in Slots
        PROVE  /\ st[p] = READY <=> (curr_state[p] = READY \/ p \in woken)
               /\ st[p] = STOPPED <=> curr_state[p] = STOPPED
    BY <2>1, <1>1, <1>2
  <2> QED BY <2>2, <1>2 DEF InState
<1>8. {p \in Slots : st[p] = BLOCKED /\ nm[p] = SLEEP} = Asleep
  BY <1>1, <1>2, <1>3 DEF Asleep
<1>9. ASSUME NEW o \in Slots, NEW q \in Queues
      PROVE  {p \in Slots : st[p] = BLOCKED /\ nm[p] = q /\ blocking_proc[p] = o} = BlockedOn(o, q)
  BY <1>1, <1>2, <1>3 DEF BlockedOn, Queues
<1>10. /\ unblocked_ready(k) \in Seq(Slots)
       /\ Lists(unblocked_ready(k), {p \in Slots : st[p] = READY})
  <2>1. Lists(ready, InState(READY))
    BY IInvLists
  <2>2. InState(READY) \cap woken = {}
    BY <1>2 DEF InState
  <2>3. ready \o unblocked_procs(k) \in Seq(Slots)
        /\ Lists(ready \o unblocked_procs(k), InState(READY) \cup woken)
    BY <1>1, <1>3, <2>1, <2>2, ConcatLists
  <2> QED BY <1>7, <2>3 DEF unblocked_ready
<1>11. \A p \in Slots :
         /\ st[p] # BLOCKED => blocking_proc[p] = NULL
         /\ st[p] \in {READY, RUNNING} => nm[p] = NO_BLOCKER
         /\ st[p] = BLOCKED => nm[p] # NO_BLOCKER /\ (blocking_proc[p] # NULL <=> nm[p] \in Queues)
  <2> SUFFICES ASSUME NEW p \in Slots
               PROVE  /\ st[p] # BLOCKED => blocking_proc[p] = NULL
                      /\ st[p] \in {READY, RUNNING} => nm[p] = NO_BLOCKER
                      /\ st[p] = BLOCKED => /\ nm[p] # NO_BLOCKER
                                            /\ blocking_proc[p] # NULL <=> nm[p] \in Queues
    OBVIOUS
  <2>1. CASE p \in blocks
    BY <2>1, <1>1, <1>3, <1>5 DEF Queues
  <2>2. CASE p \in woken
    BY <2>2, <1>1, <1>6
  <2>3. CASE p \notin blocks /\ p \notin woken
    BY <2>3, <1>1, <1>5
  <2> QED BY <2>1, <2>2, <2>3
<1>12. \A p \in Slots : blocking_proc[p] # NULL => st[blocking_proc[p]] # STOPPED
  <2> SUFFICES ASSUME NEW p \in Slots, blocking_proc[p] # NULL
               PROVE  st[blocking_proc[p]] # STOPPED
    OBVIOUS
  <2>1. blocking_proc[p] \in Slots /\ curr_state[blocking_proc[p]] # STOPPED
    BY <1>3 DEF IInv, NoOrphans
  <2> QED BY <2>1, <1>1
<1>13. Prepared(st, blocking_proc, nm, blocking_queue, unblocked_ready(k), stopped, sleeping)
  <2>1. Lists(stopped, {p \in Slots : st[p] = STOPPED})
    BY <1>7, IInvLists
  <2>2. Lists(sleeping, {p \in Slots : st[p] = BLOCKED /\ nm[p] = SLEEP})
    BY <1>8, IInvLists
  <2>3. ASSUME NEW o \in Slots, NEW q \in Queues
        PROVE  Lists(blocking_queue[o][q],
                     {p \in Slots : st[p] = BLOCKED /\ nm[p] = q /\ blocking_proc[p] = o})
    <3>1. Lists(blocking_queue[o][q], BlockedOn(o, q))
      BY IInvLists
    <3> QED BY <3>1, <1>9
  <2> QED BY <1>3, <1>4, <1>10, <1>11, <1>12, <2>1, <2>2, <2>3 DEF Prepared
<1>14. \A p \in Procs : st[p] = RUNNING <=> (p = currproc /\ p \notin blocks)
  <2> SUFFICES ASSUME NEW p \in Procs PROVE st[p] = RUNNING <=> (p = currproc /\ p \notin blocks)
    OBVIOUS
  <2>1. CASE p = currproc
    BY <2>1, <1>1, <1>3, <1>6
  <2>2. CASE p # currproc
    BY <2>2, <1>1, <1>3
  <2> QED BY <2>1, <2>2
<1> QED BY <1>13, <1>14 DEF st, nm

-----------------------------------------------------------------------------
(* The descriptors, the driver and the processes together *)

DevValues == Devices \cup {CLOSED}

\* The descriptors are counted, and the reads that wait are counted, held and
\* short of input.
DescInv == fd_table \in [Slots -> [Fds -> DevValues]] /\ OpenCount

\* The part of BlockedReadersListen that a step must keep: the rest of it
\* follows from the counts.
ReadersHear ==
    \A p \in Slots : curr_state[p] = BLOCKED /\ blocking_queue_name[p] = DEVICE
        => (task[p].waiting_on_read /\ ~g_kbd_done) \/ LineTypedAhead(p)

ReadInv == /\ g_kbd_task_refcount \in Nat
           /\ OnlyHoldersWait /\ TypedAheadOnlyIfUnread /\ ReadersHear

\* The inductive invariant: the structure of the process table, the state of
\* the driver, and what joins the two.
KInv == IInv /\ SignalTypes /\ DevInv /\ DescInv /\ ReadInv

\* The open descriptors of all processes: what OpenCount counts.
Descriptors == {e \in Slots \X Fds : e[2] \in Open(e[1])}

\* They are finitely many.
LEMMA DescriptorFacts ==
    ASSUME OpenCount
    PROVE  /\ IsFiniteSet(Slots) /\ IsFiniteSet(Fds) /\ IsFiniteSet(Slots \X Fds)
           /\ IsFiniteSet(Descriptors) /\ g_kbd_refcount = Cardinality(Descriptors)
           /\ \A p \in Slots : \A fd : <<p, fd>> \in Descriptors <=> fd \in Open(p)
<1>1. IsFiniteSet(Slots) /\ IsFiniteSet(Fds)
  <2>1. IsFiniteSet(Slots)
    BY FS_Interval, TableAssumption DEF Slots
  <2>2. IsFiniteSet(Fds)
    BY FS_Interval, FdAssumption DEF Fds
  <2> QED BY <2>1, <2>2
<1>2. IsFiniteSet(Slots \X Fds)
  BY <1>1, FS_Product
<1>3. Descriptors \in SUBSET (Slots \X Fds)
  BY DEF Descriptors
<1>4. IsFiniteSet(Descriptors)
  BY <1>2, <1>3, FS_Subset
<1>5. g_kbd_refcount = Cardinality(Descriptors)
  BY DEF OpenCount, Descriptors
<1>6. \A p \in Slots : \A fd : <<p, fd>> \in Descriptors <=> fd \in Open(p)
  BY DEF Descriptors, Open
<1> QED BY <1>1, <1>2, <1>4, <1>5, <1>6

\* As many pairs as descriptors.
LEMMA PairsWith ==
    ASSUME NEW x, NEW T, IsFiniteSet(T)
    PROVE  IsFiniteSet({x} \X T) /\ Cardinality({x} \X T) = Cardinality(T)
<1>1. IsFiniteSet({x}) /\ Cardinality({x}) = 1
  BY FS_Singleton
<1>2. IsFiniteSet({x} \X T) /\ Cardinality({x} \X T) = Cardinality({x}) * Cardinality(T)
  BY <1>1, FS_Product
<1>3. Cardinality(T) \in Nat
  BY FS_CardinalityType
<1>4. 1 * Cardinality(T) = Cardinality(T)
  BY <1>3
<1> QED BY <1>1, <1>2, <1>4

\* Nothing a process closes is refused: the driver counts no less than it has.
LEMMA AllClosable ==
    ASSUME OpenCount, NEW proc \in Slots, NEW fds \in SUBSET Open(proc)
    PROVE  closable(fds) = fds /\ IsFiniteSet(fds)
<1>1. Open(proc) \subseteq Fds /\ IsFiniteSet(Fds)
  BY DescriptorFacts DEF Open
<1>2. IsFiniteSet(fds)
  <2>1. fds \in SUBSET Fds
    BY <1>1
  <2> QED BY <1>1, <2>1, FS_Subset
<1>3. {proc} \X fds \in SUBSET Descriptors
  <2>1. \A fd \in fds : <<proc, fd>> \in Descriptors
    BY DescriptorFacts
  <2>2. ASSUME NEW e \in {proc} \X fds PROVE e \in Descriptors
    <3>1. e = <<proc, e[2]>> /\ e[2] \in fds
      OBVIOUS
    <3> QED BY <2>1, <3>1
  <2> QED BY <2>2
<1>4. Cardinality(fds) <= g_kbd_refcount
  <2>1. Cardinality({proc} \X fds) <= Cardinality(Descriptors)
    BY <1>3, DescriptorFacts, FS_Subset
  <2> QED BY <1>2, <2>1, PairsWith, DescriptorFacts
<1>5. ASSUME NEW fd \in fds PROVE Cardinality({f \in fds : f <= fd}) <= g_kbd_refcount
  <2> DEFINE below == {f \in fds : f <= fd}
  <2>1. below \in SUBSET fds
    OBVIOUS
  <2> HIDE DEF below
  <2>2. Cardinality(below) <= Cardinality(fds) /\ IsFiniteSet(below)
    BY <1>2, <2>1, FS_Subset
  <2>3. Cardinality(below) \in Nat /\ Cardinality(fds) \in Nat /\ g_kbd_refcount \in Nat
    BY <1>2, <2>2, DescriptorFacts, FS_CardinalityType
  <2>4. Cardinality(below) <= g_kbd_refcount
    BY <1>4, <2>2, <2>3
  <2> QED BY <2>4 DEF below
<1> QED BY <1>2, <1>5 DEF closable

\* A step that changes no descriptor, and after which nobody who has one is
\* STOPPED.
LEMMA CountSame ==
    ASSUME OpenCount, UNCHANGED <<g_kbd_refcount, g_kbd_current_type>>,
           \A p \in Slots : Open(p)' = Open(p),
           \A p \in Slots : \A fd \in Open(p) : fd_table'[p][fd] = fd_table[p][fd],
           \A p \in Slots : Open(p) # {} => curr_state'[p] # STOPPED
    PROVE  OpenCount'
<1>1. {e \in Slots \X Fds : e[2] \in Open(e[1])}' = {e \in Slots \X Fds : e[2] \in Open(e[1])}
  <2>1. \A e \in Slots \X Fds : e[1] \in Slots
    OBVIOUS
  <2>2. {e \in Slots \X Fds : e[2] \in Open(e[1])'} = {e \in Slots \X Fds : e[2] \in Open(e[1])}
    BY <2>1
  <2> QED BY <2>2
<1>2. \A p \in Slots : \A fd \in Open(p)' :
        curr_state'[p] # STOPPED /\ fd_table'[p][fd] = g_kbd_current_type'
  BY DEF OpenCount
<1>3. g_kbd_refcount' = Cardinality({e \in Slots \X Fds : e[2] \in Open(e[1])})
  BY DEF OpenCount
<1> QED BY <1>1, <1>2, <1>3 DEF OpenCount

\* What kbd_close does to the descriptors.
LEMMA OpenAfterClose ==
    ASSUME DescInv, NEW proc \in Slots, NEW fds \in SUBSET Open(proc), kbd_close(proc, fds)
    PROVE  /\ fd_table' \in [Slots -> [Fds -> DevValues]]
           /\ \A p \in Slots : Open(p)' = IF p = proc THEN Open(p) \ fds ELSE Open(p)
           /\ \A p \in Slots : \A fd \in Open(p)' : fd_table'[p][fd] = fd_table[p][fd]
<1> DEFINE new == [fd \in Fds |-> IF fd \in fds THEN CLOSED ELSE fd_table[proc][fd]]
<1>1. fd_table \in [Slots -> [Fds -> DevValues]] /\ CLOSED \in DevValues
  BY DEF DescInv, DevValues
<1>2. fd_table' = [fd_table EXCEPT ![proc] = new]
  BY <1>1 DEF kbd_close
<1>3. new \in [Fds -> DevValues]
  BY <1>1
<1>4. \A fd \in Fds : new[fd] = IF fd \in fds THEN CLOSED ELSE fd_table[proc][fd]
  OBVIOUS
<1> HIDE DEF new
<1>5. fd_table' \in [Slots -> [Fds -> DevValues]]
  BY <1>1, <1>2, <1>3
<1>6. \A p \in Slots : fd_table'[p] = IF p = proc THEN new ELSE fd_table[p]
  BY <1>1, <1>2
<1>7. ASSUME NEW p \in Slots
      PROVE  /\ Open(p)' = IF p = proc THEN Open(p) \ fds ELSE Open(p)
             /\ \A fd \in Open(p)' : fd_table'[p][fd] = fd_table[p][fd]
  <2>1. Open(p)' = {fd \in Fds : fd_table'[p][fd] # CLOSED}
    BY DEF Open
  <2>2. CASE p = proc
    <3>1. \A fd \in Fds : fd_table'[p][fd] # CLOSED <=> fd_table[p][fd] # CLOSED /\ fd \notin fds
      BY <2>2, <1>4, <1>6
    <3>2. Open(p) \ fds = {fd \in Fds : fd_table[p][fd] # CLOSED /\ fd \notin fds}
      BY DEF Open
    <3> QED BY <2>1, <2>2, <3>1, <3>2, <1>4, <1>6
  <2>3. CASE p # proc
    BY <2>1, <2>3, <1>6 DEF Open
  <2> QED BY <2>2, <2>3
<1> QED BY <1>5, <1>7

\* Closing descriptors, all of them when the process stops, counts them off.
LEMMA CountClose ==
    ASSUME DescInv, NEW proc \in Slots, NEW fds \in SUBSET Open(proc), kbd_close(proc, fds),
           \A p \in Slots : curr_state'[p] = STOPPED =>
                               curr_state[p] = STOPPED \/ (p = proc /\ fds = Open(proc))
    PROVE  DescInv'
<1> DEFINE D  == Descriptors
           D2 == {e \in Slots \X Fds : e[2] \in Open(e[1])'}
           gone == {proc} \X fds
<1>0. OpenCount
  BY DEF DescInv
<1>1. /\ \A p \in Slots : Open(p)' = IF p = proc THEN Open(p) \ fds ELSE Open(p)
      /\ \A p \in Slots : \A fd \in Open(p)' : fd_table'[p][fd] = fd_table[p][fd]
      /\ fd_table' \in [Slots -> [Fds -> DevValues]]
  BY OpenAfterClose
<1>2. IsFiniteSet(fds) /\ IsFiniteSet(D) /\ g_kbd_refcount = Cardinality(D)
  BY <1>0, AllClosable, DescriptorFacts
<1>3. D2 = D \ gone
  <2>1. ASSUME NEW e \in Slots \X Fds PROVE e \in D2 <=> e \in D /\ e \notin gone
    <3>1. /\ e[1] \in Slots /\ e = <<e[1], e[2]>>
          /\ e \in gone <=> (e[1] = proc /\ e[2] \in fds)
      BY <2>1
    <3>2. e[2] \in Open(e[1])' <=> e[2] \in Open(e[1]) /\ ~(e[1] = proc /\ e[2] \in fds)
      BY <1>1, <3>1
    <3> QED BY <2>1, <3>1, <3>2 DEF Descriptors
  <2> QED BY <2>1 DEF Descriptors
<1>4. D \cap gone = gone
  <2>1. ASSUME NEW e \in gone PROVE e \in D
    <3>1. e[1] = proc /\ e[2] \in fds /\ e = <<proc, e[2]>>
      OBVIOUS
    <3>2. e[2] \in Open(proc) /\ e[2] \in Fds
      BY <3>1 DEF Open
    <3> QED BY <3>1, <3>2 DEF Descriptors
  <2> QED BY <2>1
<1>5. Cardinality(gone) = Cardinality(fds)
  BY <1>2, PairsWith
<1> HIDE DEF D, D2, gone
<1>6. Cardinality(D2) = g_kbd_refcount - Cardinality(fds)
  <2>1. Cardinality(D \ gone) = Cardinality(D) - Cardinality(D \cap gone)
    BY <1>2, FS_Difference
  <2> QED BY <2>1, <1>2, <1>3, <1>4, <1>5
<1>7. g_kbd_refcount' = Cardinality({e \in Slots \X Fds : e[2] \in Open(e[1])}')
  BY <1>6 DEF kbd_close, D2
<1>8. ASSUME NEW p \in Slots, NEW fd \in Open(p)'
      PROVE  curr_state'[p] # STOPPED /\ fd_table'[p][fd] = g_kbd_current_type'
  <2>1. fd \in Open(p) /\ ~(p = proc /\ fds = Open(proc)) /\ fd_table'[p][fd] = fd_table[p][fd]
    BY <1>1
  <2>2. curr_state[p] # STOPPED /\ fd_table[p][fd] = g_kbd_current_type
    BY <1>0, <2>1 DEF OpenCount
  <2> QED BY <2>1, <2>2 DEF kbd_close
<1> QED BY <1>1, <1>7, <1>8 DEF DescInv, OpenCount

\* Nobody gets blocked on the device.
NoNewReader ==
    \A p \in Slots : curr_state'[p] = BLOCKED /\ blocking_queue_name'[p] = DEVICE
                        => curr_state[p] = BLOCKED /\ blocking_queue_name[p] = DEVICE

\* Closing ends the read of the process that closes, and counts it off.
LEMMA ReadsClose ==
    ASSUME DevInv, DescInv, ReadInv, NEW proc \in Slots, NEW fds \in SUBSET Open(proc),
           kbd_close(proc, fds), NoNewReader, curr_state[proc] # BLOCKED
    PROVE  ReadInv'
<1>1. /\ \A p \in Slots : Open(p)' = IF p = proc THEN Open(p) \ fds ELSE Open(p)
  BY OpenAfterClose
<1>2. /\ task \in [Slots -> Task]
      /\ task' = [task EXCEPT ![proc].waiting_on_read = @ /\ fds = {}]
      /\ g_kbd_task_refcount' = g_kbd_task_refcount
             - (IF fds # {} /\ task[proc].waiting_on_read THEN 1 ELSE 0)
      /\ UNCHANGED <<g_kbd_done, g_keyboard_buffer>>
  BY DEF DevInv, DevTypes, kbd_close, task_after_close
<1>3. \A p \in Slots : task'[p].waiting_on_read
                         <=> task[p].waiting_on_read /\ (p = proc => fds = {})
  BY <1>2 DEF Task
<1>4. IsFiniteSet(Reads(task)) /\ Cardinality(Reads(task)) \in Nat
  <2>1. IsFiniteSet(Slots) /\ Reads(task) \in SUBSET Slots
    BY DescriptorFacts DEF DescInv, Reads
  <2> QED BY <2>1, FS_Subset, FS_CardinalityType
<1>5. Reads(task') = IF fds = {} THEN Reads(task) ELSE Reads(task) \ {proc}
  BY <1>3 DEF Reads
<1>6. /\ Cardinality(Reads(task)) <= g_kbd_task_refcount /\ g_kbd_task_refcount \in Nat
      /\ g_keyboard_buffer # <<>> => g_kbd_task_refcount = 0
      /\ proc \in Reads(task) <=> task[proc].waiting_on_read
  BY DEF ReadInv, TypedAheadOnlyIfUnread, Reads
<1>7. /\ g_kbd_task_refcount' \in Nat
      /\ Cardinality(Reads(task')) <= g_kbd_task_refcount'
      /\ g_keyboard_buffer' # <<>> => g_kbd_task_refcount' = 0
  <2>1. CASE fds # {} /\ proc \in Reads(task)
    <3>1. Cardinality(Reads(task')) = Cardinality(Reads(task)) - 1
      BY <2>1, <1>4, <1>5, FS_RemoveElement
    <3>2. Cardinality(Reads(task)) # 0
      BY <2>1, <1>4, FS_EmptySet
    <3> QED BY <2>1, <3>1, <3>2, <1>2, <1>4, <1>6
  <2>2. CASE ~(fds # {} /\ proc \in Reads(task))
    <3>1. Reads(task') = Reads(task)
      BY <2>2, <1>5
    <3>2. g_kbd_task_refcount' = g_kbd_task_refcount
      BY <2>2, <1>2, <1>6
    <3> QED BY <3>1, <3>2, <1>2, <1>6
  <2> QED BY <2>1, <2>2
<1>8. OnlyHoldersWait'
  BY <1>1, <1>3 DEF ReadInv, OnlyHoldersWait
<1>9. ReadersHear'
  <2>1. \A p \in Slots : p # proc => task'[p] = task[p]
    BY <1>2
  <2> QED BY <1>2, <2>1 DEF ReadInv, ReadersHear, NoNewReader, LineTypedAhead
<1> QED BY <1>7, <1>8, <1>9 DEF ReadInv, TypedAheadOnlyIfUnread, Reads

\* A step that leaves the reads and the descriptors alone.
LEMMA ReadsSame ==
    ASSUME ReadInv, UNCHANGED <<task, g_kbd_task_refcount, g_kbd_done, g_keyboard_buffer>>,
           \A p \in Slots : Open(p)' = Open(p), NoNewReader
    PROVE  ReadInv'
<1>1. OnlyHoldersWait' /\ TypedAheadOnlyIfUnread'
  BY DEF ReadInv, OnlyHoldersWait, TypedAheadOnlyIfUnread
<1>2. ReadersHear'
  BY DEF ReadInv, ReadersHear, NoNewReader, LineTypedAhead
<1> QED BY <1>1, <1>2 DEF ReadInv

\* A step of the rest of the kernel blocks nobody on the device.
LEMMA NextReader == ASSUME IInv, IInv', SignalTypes, Next PROVE NoNewReader
<1>1. BlockedAfter /\ NoNewDevice
  BY NextBlocked, NextNotDevice
<1>2. ASSUME NEW p \in Slots, curr_state'[p] = BLOCKED, blocking_queue_name'[p] = DEVICE
      PROVE  curr_state[p] = BLOCKED /\ blocking_queue_name[p] = DEVICE
  <2>1. blocking_queue_name[p] = DEVICE
    BY <1>1, <1>2 DEF NoNewDevice
  <2>2. CASE p = currproc
    BY <2>1, <2>2, IInvTypes DEF IInv, BlockersMatchStates
  <2>3. CASE StaysBlocked(p)
    BY <2>1, <2>3 DEF StaysBlocked
  <2> QED BY <1>1, <1>2, <2>2, <2>3 DEF BlockedAfter
<1> QED BY <1>2 DEF NoNewReader

\* A step of the rest of the kernel keeps the invariant: cleanup_proc closes
\* all that the process has open, and a new process has nothing open.
LEMMA KernelKeeps == ASSUME KInv, kernel_step PROVE KInv'
<1>1. /\ IInv /\ SignalTypes /\ DevInv /\ DescInv /\ ReadInv /\ OpenCount /\ Next
      /\ fd_table \in [Slots -> [Fds -> DevValues]]
  BY DEF KInv, DescInv, kernel_step
<1>2. IInv'
  BY <1>1, NextIInv
<1>3. SignalTypes'
  BY <1>1, NextSignalTypes
<1>4. DevInv'
  BY <1>1, NextDevInv DEF KbdNext
<1>5. NoNewReader
  BY <1>1, <1>2, NextReader
<1>6. \A p \in Slots : curr_state'[p] = STOPPED => curr_state[p] = STOPPED \/ p = currproc
  BY <1>1, <1>2, NextStopped
<1>7. CASE curr_state'[currproc] = STOPPED
  <2>1. currproc \in Slots
    BY <1>1, <1>7, IdleGoesOn
  <2>2. closable(Open(currproc)) = Open(currproc)
    BY <1>1, <2>1, AllClosable
  <2>3. kbd_close(currproc, Open(currproc))
    BY <1>7, <2>2 DEF kernel_step
  <2>4. curr_state[currproc] # BLOCKED
    BY <1>1, <2>1, IInvTypes
  <2>5. DescInv' /\ ReadInv'
    BY <1>1, <1>5, <1>6, <2>1, <2>3, <2>4, CountClose, ReadsClose
  <2> QED BY <1>2, <1>3, <1>4, <2>5 DEF KInv
<1>8. CASE curr_state'[currproc] # STOPPED
  <2>1. /\ fd_table' = [p \in Slots |-> IF curr_state[p] = STOPPED /\ curr_state'[p] = READY
                                        THEN NoFds ELSE fd_table[p]]
        /\ UNCHANGED kbdVars
    BY <1>8 DEF kernel_step
  <2>2. NoFds \in [Fds -> DevValues]
    BY DEF NoFds, DevValues
  <2>3. fd_table' \in [Slots -> [Fds -> DevValues]]
    BY <1>1, <2>1, <2>2
  <2>4. ASSUME NEW p \in Slots
        PROVE  /\ Open(p)' = Open(p)
               /\ \A fd \in Open(p) : fd_table'[p][fd] = fd_table[p][fd]
               /\ Open(p) # {} => curr_state'[p] # STOPPED
    <3>1. curr_state[p] = STOPPED => Open(p) = {}
      BY <1>1 DEF OpenCount
    <3>2. Open(p) # {} => curr_state'[p] # STOPPED
      BY <1>6, <1>8, <3>1
    <3>3. CASE curr_state[p] = STOPPED /\ curr_state'[p] = READY
      <4>1. Open(p)' = {}
        BY <2>1, <3>3 DEF Open, NoFds
      <4> QED BY <3>1, <3>2, <3>3, <4>1
    <3>4. CASE ~(curr_state[p] = STOPPED /\ curr_state'[p] = READY)
      <4>1. fd_table'[p] = fd_table[p]
        BY <2>1, <3>4
      <4> QED BY <3>2, <4>1 DEF Open
    <3> QED BY <3>3, <3>4
  <2>5. DescInv'
    <3>1. UNCHANGED <<g_kbd_refcount, g_kbd_current_type>>
      BY <2>1 DEF kbdVars
    <3>2. OpenCount'
      BY <1>1, <2>4, <3>1, CountSame
    <3> QED BY <2>3, <3>2 DEF DescInv
  <2>6. ReadInv'
    <3>1. UNCHANGED <<task, g_kbd_task_refcount, g_kbd_done, g_keyboard_buffer>>
      BY <2>1 DEF kbdVars
    <3> QED BY <1>1, <1>5, <2>4, <3>1, ReadsSame
  <2> QED BY <1>2, <1>3, <1>4, <2>5, <2>6 DEF KInv
<1> QED BY <1>7, <1>8

\* A handler that leaves the processes, the descriptors and the reads alone.
LEMMA QuietKeeps ==
    ASSUME KInv, UNCHANGED <<structVars, signalVars, fd_table, g_kbd_refcount,
                             g_kbd_current_type, g_kbd_done, enabled, task,
                             g_kbd_task_refcount, g_keyboard_buffer>>
    PROVE  KInv'
<1>1. IInv /\ SignalTypes /\ DevInv /\ DescInv /\ ReadInv /\ OpenCount
  BY DEF KInv, DescInv
<1>2. IInv' /\ SignalTypes'
  BY <1>1, StructUnchanged DEF signalVars, SignalTypes
<1>3. DevInv'
  BY <1>1 DEF DevInv, DevTypes, EnabledWhileOpen, RoomToWrite
<1>4. \A p \in Slots : Open(p)' = Open(p)
  BY DEF Open
<1>5. curr_state' = curr_state /\ blocking_queue_name' = blocking_queue_name
  BY DEF structVars
<1>6. DescInv'
  <2>1. \A p \in Slots : Open(p) # {} => curr_state'[p] # STOPPED
    BY <1>1, <1>5 DEF OpenCount
  <2>2. OpenCount'
    BY <1>1, <1>4, <2>1, CountSame
  <2> QED BY <1>1, <2>2 DEF DescInv
<1>7. ReadInv'
  BY <1>1, <1>4, <1>5, ReadsSame DEF NoNewReader
<1> QED BY <1>2, <1>3, <1>6, <1>7 DEF KInv

\* What Return and a failed or passed assertion leave alone.
LEMMA QuietCall ==
    ASSUME NEW name, Syscall(name)
    PROVE  /\ currproc \in Procs => currproc \in Slots
           /\ \A code : Return(code) => UNCHANGED <<structVars, signalVars>>
           /\ UNCHANGED <<pcbVars, signalVars, listVars>> => UNCHANGED <<structVars, signalVars>>
BY SlotFacts DEF Syscall, Return, structVars, pcbVars, listVars

\* One descriptor more is counted.
LEMMA CountOpen ==
    ASSUME DescInv, NEW proc \in Slots, curr_state'[proc] # STOPPED,
           NEW fd \in Fds \ Open(proc), NEW device_no \in Devices, g_kbd_refcount \in Nat,
           fd_table' = [fd_table EXCEPT ![proc][fd] = device_no],
           g_kbd_refcount' = g_kbd_refcount + 1,
           g_kbd_refcount > 0 => g_kbd_current_type = device_no,
           g_kbd_current_type' = device_no,
           curr_state' = curr_state
    PROVE  /\ DescInv'
           /\ \A p \in Slots : Open(p)' = IF p = proc THEN Open(p) \cup {fd} ELSE Open(p)
<1> DEFINE D  == Descriptors
           D2 == {e \in Slots \X Fds : e[2] \in Open(e[1])'}
           new == [fd_table[proc] EXCEPT ![fd] = device_no]
<1>1. OpenCount /\ fd_table \in [Slots -> [Fds -> DevValues]] /\ device_no # CLOSED
  BY DEF DescInv, Devices, CLOSED
<1>2. fd_table' = [fd_table EXCEPT ![proc] = new]
  BY <1>1
<1>3. /\ new \in [Fds -> DevValues]
      /\ \A f \in Fds : new[f] = IF f = fd THEN device_no ELSE fd_table[proc][f]
  BY <1>1 DEF DevValues
<1> HIDE DEF new
<1>4. fd_table' \in [Slots -> [Fds -> DevValues]]
  BY <1>1, <1>2, <1>3
<1>5. \A p \in Slots : fd_table'[p] = IF p = proc THEN new ELSE fd_table[p]
  BY <1>1, <1>2
<1>6. ASSUME NEW p \in Slots
      PROVE  Open(p)' = IF p = proc THEN Open(p) \cup {fd} ELSE Open(p)
  <2>1. Open(p)' = {f \in Fds : fd_table'[p][f] # CLOSED}
    BY DEF Open
  <2>2. CASE p = proc
    <3>1. \A f \in Fds : fd_table'[p][f] # CLOSED <=> fd_table[p][f] # CLOSED \/ f = fd
      BY <2>2, <1>1, <1>3, <1>5
    <3> QED BY <2>1, <2>2, <3>1 DEF Open
  <2>3. CASE p # proc
    BY <2>1, <2>3, <1>5 DEF Open
  <2> QED BY <2>2, <2>3
<1>7. IsFiniteSet(D) /\ g_kbd_refcount = Cardinality(D)
  BY <1>1, DescriptorFacts
<1>8. <<proc, fd>> \notin D
  BY <1>1, DescriptorFacts
<1>9. D2 = D \cup {<<proc, fd>>}
  <2>1. ASSUME NEW e \in Slots \X Fds PROVE e \in D2 <=> e \in D \/ e = <<proc, fd>>
    <3>1. e[1] \in Slots /\ e = <<e[1], e[2]>> /\ (e = <<proc, fd>> <=> e[1] = proc /\ e[2] = fd)
      OBVIOUS
    <3>2. e[2] \in Open(e[1])' <=> e[2] \in Open(e[1]) \/ (e[1] = proc /\ e[2] = fd)
      BY <1>6, <3>1
    <3> QED BY <3>1, <3>2 DEF Descriptors
  <2>2. <<proc, fd>> \in Slots \X Fds
    OBVIOUS
  <2> QED BY <2>1, <2>2 DEF Descriptors
<1> HIDE DEF D, D2
<1>10. Cardinality(D2) = g_kbd_refcount + 1
  BY <1>7, <1>8, <1>9, FS_AddElement
<1>11. g_kbd_refcount' = Cardinality({e \in Slots \X Fds : e[2] \in Open(e[1])}')
  BY <1>10 DEF D2
<1>12. ASSUME NEW p \in Slots, NEW f \in Open(p)'
       PROVE  curr_state'[p] # STOPPED /\ fd_table'[p][f] = g_kbd_current_type'
  <2>1. CASE p = proc /\ f = fd
    BY <2>1, <1>3, <1>5
  <2>2. CASE ~(p = proc /\ f = fd)
    <3>1. f \in Open(p) /\ f \in Fds
      BY <2>2, <1>6 DEF Open
    <3>2. <<p, f>> \in D
      BY <3>1, <1>1, DescriptorFacts DEF D
    <3>3. g_kbd_refcount > 0
      <4>1. Cardinality(D) # 0
        BY <1>7, <3>2, FS_EmptySet
      <4> QED BY <4>1, <1>7
    <3>4. curr_state[p] # STOPPED /\ fd_table[p][f] = g_kbd_current_type
      BY <1>1, <3>1 DEF OpenCount
    <3>5. fd_table'[p][f] = fd_table[p][f]
      BY <2>2, <3>1, <1>3, <1>5
    <3> QED BY <3>3, <3>4, <3>5
  <2> QED BY <2>1, <2>2
<1> QED BY <1>4, <1>6, <1>11, <1>12 DEF DescInv, OpenCount

\* While nothing is open no read waits.
LEMMA NothingOpen ==
    ASSUME DescInv, ReadInv, g_kbd_refcount = 0
    PROVE  \A p \in Slots : Open(p) = {} /\ ~task[p].waiting_on_read
<1>1. IsFiniteSet(Descriptors) /\ Cardinality(Descriptors) = 0
  BY DescriptorFacts DEF DescInv
<1>2. Descriptors = {}
  BY <1>1, FS_EmptySet
<1>3. \A p \in Slots : Open(p) = {}
  BY <1>2, DescriptorFacts DEF DescInv
<1> QED BY <1>3 DEF ReadInv, OnlyHoldersWait

\* sysopen keeps the invariant.
LEMMA OpenKeeps == ASSUME KInv, dispatch_syscall_open PROVE KInv'
<1>1. /\ IInv /\ SignalTypes /\ DevInv /\ DescInv /\ ReadInv /\ Syscall("OPEN")
      /\ currproc \in Slots
  BY QuietCall, IInvTypes DEF KInv, dispatch_syscall_open
<1>2. PICK device_no : di_open(device_no)
  BY DEF dispatch_syscall_open
<1>3. CASE Return(SYSERR) /\ UNCHANGED devVars
  <2>1. UNCHANGED <<structVars, signalVars>>
    BY <1>1, <1>3, QuietCall
  <2> QED BY <1>3, <2>1, QuietKeeps DEF devVars, kbdVars
<1>4. CASE ~(Return(SYSERR) /\ UNCHANGED devVars)
  <2> DEFINE free == Fds \ Open(currproc)
             fd == Min(free)
  <2>1. /\ device_no \in Devices /\ free # {}
        /\ g_kbd_refcount > 0 => g_kbd_current_type = device_no
        /\ UNCHANGED <<pcbVars, signalVars, listVars>>
        /\ kbd_open(device_no)
        /\ fd_table' = [fd_table EXCEPT ![currproc][fd] = device_no]
        /\ UNCHANGED <<task, g_kbd_task_refcount>>
    BY <1>2, <1>4 DEF di_open, Asserting
  <2>2. fd \in free
    <3>1. free \subseteq Nat
      BY FdAssumption DEF Fds
    <3> QED BY <2>1, <3>1, MinInSet
  <2> HIDE DEF fd
  <2>3. UNCHANGED <<structVars, signalVars>>
    BY <1>1, <2>1, QuietCall
  <2>4. g_kbd_refcount \in Nat
    BY <1>1 DEF DevInv, DevTypes
  <2>5. /\ g_kbd_refcount' = g_kbd_refcount + 1 /\ g_kbd_current_type' = device_no
        /\ \/ g_kbd_refcount > 0 /\ UNCHANGED <<g_kbd_done, g_keyboard_buffer>>
           \/ g_kbd_refcount = 0 /\ g_kbd_done' = FALSE /\ g_keyboard_buffer' = <<>>
    BY <2>1, <2>4 DEF kbd_open
  <2>6. IInv' /\ SignalTypes'
    BY <1>1, <2>3, StructUnchanged DEF signalVars, SignalTypes
  <2>7. DevInv'
    BY <1>1, NextDevInv DEF KbdNext
  <2>8. curr_state' = curr_state /\ blocking_queue_name' = blocking_queue_name
    BY <2>3 DEF structVars
  <2>9. curr_state'[currproc] # STOPPED
    BY <1>1, <2>8, IInvTypes
  <2>10. /\ DescInv'
         /\ \A p \in Slots : Open(p)' = IF p = currproc THEN Open(p) \cup {fd} ELSE Open(p)
    BY <1>1, <2>1, <2>2, <2>4, <2>5, <2>8, <2>9, CountOpen
  <2>11. ReadInv'
    <3>1. OnlyHoldersWait'
      BY <1>1, <2>1, <2>10 DEF ReadInv, OnlyHoldersWait
    <3>2. TypedAheadOnlyIfUnread' /\ g_kbd_task_refcount' \in Nat
      BY <1>1, <2>1, <2>5 DEF ReadInv, TypedAheadOnlyIfUnread
    <3>3. ReadersHear'
      BY <1>1, <2>1, <2>5, <2>8 DEF ReadInv, ReadersHear, LineTypedAhead
    <3> QED BY <3>1, <3>2, <3>3 DEF ReadInv
  <2> QED BY <2>6, <2>7, <2>10, <2>11 DEF KInv
<1> QED BY <1>3, <1>4

\* sysclose keeps the invariant.
LEMMA CloseHandlerKeeps == ASSUME KInv, dispatch_syscall_close PROVE KInv'
<1>1. /\ IInv /\ SignalTypes /\ DevInv /\ DescInv /\ ReadInv /\ OpenCount /\ Syscall("CLOSE")
      /\ currproc \in Slots
  BY QuietCall, IInvTypes DEF KInv, DescInv, dispatch_syscall_close
<1>2. PICK fd \in FdArgs : /\ \E code : Return(code)
                           /\ kbd_close(currproc, closable({fd} \cap Open(currproc)))
  BY DEF dispatch_syscall_close
<1>3. UNCHANGED <<structVars, signalVars>>
  BY <1>1, <1>2, QuietCall
<1>4. IInv' /\ SignalTypes'
  BY <1>1, <1>3, StructUnchanged DEF signalVars, SignalTypes
<1>5. DevInv'
  BY <1>1, NextDevInv DEF KbdNext
<1> DEFINE fds == {fd} \cap Open(currproc)
<1>6. fds \in SUBSET Open(currproc)
  OBVIOUS
<1> HIDE DEF fds
<1>7. kbd_close(currproc, fds)
  <2>1. closable(fds) = fds
    BY <1>1, <1>6, AllClosable
  <2> QED BY <1>2, <2>1 DEF fds
<1>8. curr_state' = curr_state /\ blocking_queue_name' = blocking_queue_name
  BY <1>3 DEF structVars
<1>9. DescInv'
  BY <1>1, <1>6, <1>7, <1>8, CountClose
<1>10. ReadInv'
  <2>1. curr_state[currproc] # BLOCKED
    BY <1>1, IInvTypes
  <2> QED BY <1>1, <1>6, <1>7, <1>8, <2>1, ReadsClose DEF NoNewReader
<1> QED BY <1>4, <1>5, <1>9, <1>10 DEF KInv

-----------------------------------------------------------------------------
(* Reads and characters *)

\* No process is blocked elsewhere while a read of its waits: a read that was
\* left waiting by a signal is still there when its process makes another
\* call that blocks, and ends that call too.  The theorems below are about
\* runs in which no process does.
StaleReadsQuiet ==
    \A p \in Slots : task[p].waiting_on_read /\ curr_state[p] = BLOCKED
                        => blocking_queue_name[p] = DEVICE \/ g_kbd_done

\* Whoever is blocked in a read after the flush that began with board k0 was
\* before it, and its read did not end; or it begins to wait, before an EOF,
\* because its read is not full.
ReadersAfter(k0, k) ==
    \A p \in Slots : curr_state'[p] = BLOCKED /\ blocking_queue_name'[p] = DEVICE =>
        \/ /\ curr_state[p] = BLOCKED /\ blocking_queue_name[p] = DEVICE
           /\ k0.task[p] = task[p] /\ p \notin Reads(k0.task) \ Reads(k.task)
        \/ p \in Reads(k0.task) /\ ~k.done /\ Len(k.task[p].buf) # k.task[p].buflen

\* What such a flush leaves is counted and held, and who is blocked can be
\* woken or has a line.
LEMMA ReadsFlushed ==
    ASSUME DevInv, DescInv, ReadInv, NEW k0 \in Boards, NEW k, Flushed(k0, k), Becomes(k),
           k0.done = g_kbd_done, k0.refcount \in Nat, Roomy(k0.task),
           Cardinality(Reads(k0.task)) <= k0.refcount,
           \A p \in Reads(k0.task) : Open(p) # {},
           k.buffer # <<>> => k.refcount <= 0,
           ReadersAfter(k0, k)
    PROVE  ReadInv'
<1> DEFINE R0 == Reads(k0.task)
           R1 == Reads(k.task)
<1>1. /\ k.refcount = k0.refcount - Cardinality(R0 \ R1)
      /\ R1 \subseteq R0
      /\ k.done => k0.done \/ R1 = {}
      /\ k.refcount \in Int
  BY DEF Flushed, Boards
<1>2. /\ task' = k.task /\ g_kbd_task_refcount' = k.refcount /\ g_kbd_done' = k.done
      /\ g_keyboard_buffer' = k.buffer /\ UNCHANGED fd_table
  BY DEF Becomes
<1>3. IsFiniteSet(R0)
  <2>1. IsFiniteSet(Slots) /\ R0 \in SUBSET Slots
    BY DescriptorFacts DEF DescInv, Reads
  <2> QED BY <2>1, FS_Subset
<1>4. R1 = {p \in Slots : task'[p].waiting_on_read}
  BY <1>2 DEF Reads
<1> HIDE DEF R0, R1
<1>5. Cardinality(R1) = Cardinality(R0) - Cardinality(R0 \ R1)
      /\ Cardinality(R0) \in Nat /\ Cardinality(R1) \in Nat /\ Cardinality(R0 \ R1) \in Nat
  <2>1. R1 \in SUBSET R0
    BY <1>1
  <2>2. IsFiniteSet(R1) /\ IsFiniteSet(R0 \ R1)
    BY <1>3, <2>1, FS_Subset, FS_Difference
  <2>3. Cardinality(R0 \ R1) = Cardinality(R0) - Cardinality(R0 \cap R1)
    BY <1>3, FS_Difference
  <2>4. Cardinality(R0 \cap R1) = Cardinality(R1)
    <3>1. R0 \cap R1 = R1
      BY <2>1
    <3> QED BY <3>1, Zenon
  <2>5. Cardinality(R0) \in Nat /\ Cardinality(R1) \in Nat /\ Cardinality(R0 \ R1) \in Nat
    BY <1>3, <2>2, FS_CardinalityType
  <2> QED BY <2>3, <2>4, <2>5
<1>6. Cardinality(R0) <= k0.refcount
  BY DEF R0
<1>7. Cardinality(R1) <= k.refcount /\ k.refcount \in Nat
  BY <1>1, <1>5, <1>6
<1>8. TypedAheadOnlyIfUnread' /\ g_kbd_task_refcount' \in Nat
  BY <1>2, <1>4, <1>7 DEF TypedAheadOnlyIfUnread
<1>9. OnlyHoldersWait'
  <2>1. ASSUME NEW p \in Slots, task'[p].waiting_on_read PROVE Open(p)' # {}
    <3>1. p \in R0
      BY <1>1, <1>4, <2>1
    <3> QED BY <3>1, <1>2 DEF Open, R0
  <2> QED BY <2>1 DEF OnlyHoldersWait
<1>10. ReadersHear'
  <2> SUFFICES ASSUME NEW p \in Slots, curr_state'[p] = BLOCKED, blocking_queue_name'[p] = DEVICE
               PROVE  (task[p].waiting_on_read /\ ~g_kbd_done)' \/ LineTypedAhead(p)'
    BY DEF ReadersHear
  <2>1. /\ p \in R0 <=> k0.task[p].waiting_on_read
        /\ p \in R1 <=> k.task[p].waiting_on_read
        /\ Told(k0.task, k.task, k.done)
    BY DEF R0, R1, Reads, Flushed
  <2>2. CASE /\ curr_state[p] = BLOCKED /\ blocking_queue_name[p] = DEVICE
             /\ k0.task[p] = task[p] /\ p \notin R0 \ R1
    <3>1. (task[p].waiting_on_read /\ ~g_kbd_done) \/ LineTypedAhead(p)
      BY <2>2 DEF ReadInv, ReadersHear
    <3>2. CASE task[p].waiting_on_read /\ ~g_kbd_done
      <4>1. p \in R1 /\ ~k.done
        BY <1>1, <2>1, <2>2, <3>2
      <4> QED BY <1>2, <2>1, <4>1
    <3>3. CASE LineTypedAhead(p)
      <4>1. task'[p] = task[p]
        BY <1>2, <2>1, <2>2, <3>3 DEF LineTypedAhead, Told
      <4> QED BY <3>3, <4>1 DEF LineTypedAhead
    <3> QED BY <3>1, <3>2, <3>3
  <2>3. CASE p \in R0 /\ ~k.done /\ Len(k.task[p].buf) # k.task[p].buflen
    <3>1. CASE p \in R1
      BY <1>2, <2>1, <2>3, <3>1
    <3>2. CASE p \notin R1
      <4>1. Complete(k.task[p]) /\ ~k.task[p].waiting_on_read
        BY <2>1, <2>3, <3>2 DEF Told
      <4> QED BY <1>2, <2>3, <4>1 DEF Complete, LineTypedAhead
    <3> QED BY <3>1, <3>2
  <2> QED BY <2>2, <2>3 DEF ReadersAfter, R0, R1
<1> QED BY <1>8, <1>9, <1>10 DEF ReadInv

\* When only processes blocked on the device are woken, the running process
\* being blocked or going on, the process table stays right.
LEMMA WokenKeeps ==
    ASSUME IInv, NEW k0, NEW k, Flushed(k0, k),
           \A p \in Reads(k0.task) \ Reads(k.task) :
               curr_state[p] = BLOCKED => blocking_queue_name[p] = DEVICE,
           NEW blocks \in SUBSET {currproc}, blocks \subseteq Slots,
           blocking_queue_name' = woken_name(k, blocks),
           UNCHANGED <<blocking_proc, blocking_queue, stopped, sleeping>>,
           \/ /\ blocks = {} /\ UNCHANGED currproc
              /\ ready' = unblocked_ready(k) /\ curr_state' = woken_state(k, blocks)
           \/ /\ blocks = {currproc}
              /\ get_next_proc(unblocked_ready(k), woken_state(k, blocks))
    PROVE  IInv'
<1> DEFINE ended == Reads(k0.task) \ Reads(k.task)
<1>1. k.unblocked \in Seq(Slots) /\ Lists(k.unblocked, ended)
  BY DEF Flushed, Boards
<1>2. \A p \in ended : curr_state[p] = BLOCKED => blocking_queue_name[p] = DEVICE
  OBVIOUS
<1> HIDE DEF ended
<1>3. /\ Prepared(woken_state(k, blocks), blocking_proc, woken_name(k, blocks),
                  blocking_queue, unblocked_ready(k), stopped, sleeping)
      /\ \A p \in Procs : woken_state(k, blocks)[p] = RUNNING <=> (p = currproc /\ p \notin blocks)
  BY <1>1, <1>2, WakeReads
<1>4. Prepared(woken_state(k, blocks), blocking_proc', blocking_queue_name',
               blocking_queue', unblocked_ready(k), stopped', sleeping')
  BY <1>3
<1>5. CASE /\ blocks = {} /\ UNCHANGED currproc
           /\ ready' = unblocked_ready(k) /\ curr_state' = woken_state(k, blocks)
  <2>1. OneRunning' /\ currproc' \in Procs
    BY <1>3, <1>5, IInvTypes DEF OneRunning
  <2>2. Prepared(curr_state', blocking_proc', blocking_queue_name',
                 blocking_queue', ready', stopped', sleeping')
    BY <1>4, <1>5
  <2> QED BY <2>1, <2>2, IInvIsPreparedNext
<1>6. CASE /\ blocks = {currproc}
           /\ get_next_proc(unblocked_ready(k), woken_state(k, blocks))
  <2>1. \A p \in Procs : woken_state(k, blocks)[p] # RUNNING
    BY <1>3, <1>6
  <2> QED BY <1>4, <1>6, <2>1, GetNextProc
<1> QED BY <1>5, <1>6

\* With nobody blocked the states are those of the code.
LEMMA WokenOnly ==
    ASSUME NEW k
    PROVE  woken_state(k, {}) = unblocked_state(k) /\ woken_name(k, {}) = unblocked_name(k)
BY DEF woken_state, woken_name, unblocked_state, unblocked_name

\* With the running process blocked they are those of kbd_read.
LEMMA WokenAndBlocked ==
    ASSUME IInv, NEW k
    PROVE  /\ woken_state(k, {currproc}) = [unblocked_state(k) EXCEPT ![currproc] = BLOCKED]
           /\ woken_name(k, {currproc}) = [unblocked_name(k) EXCEPT ![currproc] = DEVICE]
BY IInvTypes DEF woken_state, woken_name, unblocked_state, unblocked_name

\* Who is in which state after processes are woken: nobody new is STOPPED, and
\* if nobody is blocked, nobody new is blocked on the device.
LEMMA WokenStates ==
    ASSUME IInv, NEW k,
           NEW blocks, blocking_queue_name' = woken_name(k, blocks),
           \A p \in Procs : curr_state'[p] = woken_state(k, blocks)[p] \/ curr_state'[p] = RUNNING
    PROVE  /\ \A p \in Slots : curr_state'[p] = STOPPED => curr_state[p] = STOPPED
           /\ blocks = {} => NoNewReader
<1>1. \A p \in Procs : /\ woken_state(k, blocks)[p] = IF p \in blocks THEN BLOCKED
                                  ELSE IF p \in ToSet(unblocked_procs(k)) THEN READY ELSE curr_state[p]
                       /\ blocking_queue_name'[p] = IF p \in blocks THEN DEVICE
                                  ELSE IF p \in ToSet(unblocked_procs(k)) THEN NO_BLOCKER
                                  ELSE blocking_queue_name[p]
  BY DEF woken_state, woken_name, unblocked_state, unblocked_name
<1> QED BY <1>1, SlotFacts DEF NoNewReader

\* The processes that are woken are those blocked whose reads ended.
LEMMA WokenEnded ==
    ASSUME IInv, NEW k0, NEW k, Flushed(k0, k)
    PROVE  ToSet(unblocked_procs(k)) = {p \in Reads(k0.task) \ Reads(k.task) : curr_state[p] = BLOCKED}
<1>1. k.unblocked \in Seq(Slots) /\ Lists(k.unblocked, Reads(k0.task) \ Reads(k.task))
  BY DEF Flushed, Boards
<1>2. Lists(unblocked_procs(k), (Reads(k0.task) \ Reads(k.task)) \cap InState(BLOCKED))
  BY <1>1, OrderLists DEF unblocked_procs
<1> QED BY <1>2 DEF Lists, InState, Reads

\* Who is blocked in a read after a step that wakes processes and blocks those
\* that begin to wait.
LEMMA WokenReaders ==
    ASSUME IInv, NEW k0, NEW k, Flushed(k0, k),
           NEW blocks, blocking_queue_name' = woken_name(k, blocks),
           \A p \in Procs : curr_state'[p] = woken_state(k, blocks)[p] \/ curr_state'[p] = RUNNING,
           \A p \in Slots : curr_state[p] = BLOCKED => k0.task[p] = task[p],
           \A p \in blocks : /\ p \in Reads(k0.task) /\ ~k.done
                             /\ Len(k.task[p].buf) # k.task[p].buflen
    PROVE  ReadersAfter(k0, k)
<1>1. \A p \in Procs : /\ woken_state(k, blocks)[p] = IF p \in blocks THEN BLOCKED
                                  ELSE IF p \in ToSet(unblocked_procs(k)) THEN READY ELSE curr_state[p]
                       /\ blocking_queue_name'[p] = IF p \in blocks THEN DEVICE
                                  ELSE IF p \in ToSet(unblocked_procs(k)) THEN NO_BLOCKER
                                  ELSE blocking_queue_name[p]
  BY DEF woken_state, woken_name, unblocked_state, unblocked_name
<1>2. ASSUME NEW p \in Slots, curr_state'[p] = BLOCKED, blocking_queue_name'[p] = DEVICE,
             p \notin blocks
      PROVE  /\ curr_state[p] = BLOCKED /\ blocking_queue_name[p] = DEVICE
             /\ p \notin ToSet(unblocked_procs(k))
  BY <1>1, <1>2, SlotFacts
<1> QED BY <1>2, WokenEnded DEF ReadersAfter

\* The keyboard interrupt keeps the invariant: it comes only before an EOF, so
\* that whoever waits and is blocked is blocked on the device.
LEMMA InterruptKeeps == ASSUME KInv, StaleReadsQuiet, keyboard_handler PROVE KInv'
<1>1. /\ IInv /\ SignalTypes /\ DevInv /\ DescInv /\ ReadInv /\ enabled
      /\ UNCHANGED <<blocking_proc, blocking_queue, signalVars, stopped, sleeping, currproc>>
  BY DEF KInv, keyboard_handler
<1>2. PICK c \in Keys : /\ Becomes(Typed(c))
                        /\ ready' = unblocked_ready(Typed(c))
                        /\ curr_state' = unblocked_state(Typed(c))
                        /\ blocking_queue_name' = unblocked_name(Typed(c))
  BY DEF keyboard_handler, Typed
<1> DEFINE k == Typed(c)
<1>3. /\ Keyboard \in Boards /\ Keyboard.task = task /\ Keyboard.done = g_kbd_done
      /\ Keyboard.refcount = g_kbd_task_refcount /\ ~g_kbd_done
  BY <1>1, KeyboardIsBoard
<1>4. /\ Flushed(Keyboard, k)
      /\ g_kbd_task_refcount > 0 => k.buffer = g_keyboard_buffer
  BY <1>1, TypedFacts
<1>5. k.buffer # <<>> => k.refcount <= 0
  <2>1. CASE g_kbd_task_refcount > 0
    <3>1. g_keyboard_buffer = <<>>
      BY <1>1, <2>1 DEF ReadInv, TypedAheadOnlyIfUnread
    <3> QED BY <2>1, <3>1, <1>4
  <2>2. CASE ~(g_kbd_task_refcount > 0)
    <3>1. k.refcount = g_kbd_task_refcount
      BY <2>2, <1>3 DEF Typed, Keyboard
    <3> QED BY <2>2, <3>1, <1>1 DEF ReadInv
  <2> QED BY <2>1, <2>2
<1> HIDE DEF k
<1>6. Becomes(k) /\ ready' = unblocked_ready(k) /\ curr_state' = woken_state(k, {})
      /\ blocking_queue_name' = woken_name(k, {})
  BY <1>2, WokenOnly DEF k
<1>7. IInv'
  <2>1. \A p \in Reads(Keyboard.task) \ Reads(k.task) :
           curr_state[p] = BLOCKED => blocking_queue_name[p] = DEVICE
    BY <1>3 DEF StaleReadsQuiet, Reads
  <2>2. {} \in SUBSET {currproc} /\ {} \subseteq Slots
    OBVIOUS
  <2> QED BY <1>1, <1>4, <1>6, <2>1, <2>2, WokenKeeps
<1>8. SignalTypes'
  BY <1>1 DEF signalVars, SignalTypes
<1>9. DevInv'
  BY <1>1, NextDevInv DEF KbdNext
<1>10. NoNewReader /\ \A p \in Slots : curr_state'[p] = STOPPED => curr_state[p] = STOPPED
  BY <1>1, <1>6, WokenStates
<1>11. DescInv'
  <2>1. /\ UNCHANGED <<fd_table, g_kbd_refcount, g_kbd_current_type>>
        /\ \A p \in Slots : Open(p)' = Open(p)
    BY <1>6 DEF Becomes, Open
  <2>2. \A p \in Slots : Open(p) # {} => curr_state'[p] # STOPPED
    BY <1>1, <1>10 DEF DescInv, OpenCount
  <2>3. OpenCount'
    BY <1>1, <2>1, <2>2, CountSame DEF DescInv
  <2> QED BY <1>1, <2>1, <2>3 DEF DescInv
<1>12. ReadInv'
  <2>1. Keyboard.refcount \in Nat /\ Cardinality(Reads(Keyboard.task)) <= Keyboard.refcount
    BY <1>1, <1>3 DEF ReadInv, TypedAheadOnlyIfUnread, Reads
  <2>2. \A p \in Reads(Keyboard.task) : Open(p) # {}
    BY <1>1, <1>3 DEF ReadInv, OnlyHoldersWait, Reads
  <2>3. ReadersAfter(Keyboard, k)
    BY <1>1, <1>3, <1>4, <1>6, WokenReaders
  <2>4. Roomy(Keyboard.task)
    BY <1>1, KeyboardIsBoard
  <2> QED BY <1>1, <1>3, <1>4, <1>5, <1>6, <2>1, <2>2, <2>3, <2>4, ReadsFlushed
<1> QED BY <1>7, <1>8, <1>9, <1>11, <1>12 DEF KInv

\* The reads on the board on which the running process begins to read.
LEMMA ReadingReads ==
    ASSUME DevInv, DescInv, ReadInv, currproc \in Slots, NEW buflen \in ReadLens
    PROVE  LET k0 == Reading(buflen)
           IN  /\ Reads(k0.task) = Reads(task) \cup {currproc}
               /\ k0.refcount \in Nat /\ Cardinality(Reads(k0.task)) <= k0.refcount
<1> DEFINE k0 == Reading(buflen)
<1>1. /\ k0.task = [task EXCEPT ![currproc] =
                      [waiting_on_read |-> TRUE, buflen |-> buflen, buf |-> <<>>]]
      /\ k0.refcount = g_kbd_task_refcount + 1
  BY ReadingIsBoard
<1> HIDE DEF k0
<1>2. task \in [Slots -> Task]
  BY DEF DevInv, DevTypes
<1>3. Reads(k0.task) = Reads(task) \cup {currproc}
  <2>1. \A p \in Slots : k0.task[p].waiting_on_read <=> task[p].waiting_on_read \/ p = currproc
    BY <1>1, <1>2 DEF Task
  <2> QED BY <2>1 DEF Reads
<1>4. IsFiniteSet(Reads(task)) /\ Cardinality(Reads(task)) \in Nat
  <2>1. IsFiniteSet(Slots) /\ Reads(task) \in SUBSET Slots
    BY DescriptorFacts DEF DescInv, Reads
  <2> QED BY <2>1, FS_Subset, FS_CardinalityType
<1>5. Cardinality(Reads(task)) <= g_kbd_task_refcount /\ g_kbd_task_refcount \in Nat
  BY DEF ReadInv, TypedAheadOnlyIfUnread, Reads
<1>6. Cardinality(Reads(k0.task)) <= Cardinality(Reads(task)) + 1
  <2>1. Cardinality(Reads(task) \cup {currproc}) =
            IF currproc \in Reads(task) THEN Cardinality(Reads(task))
            ELSE Cardinality(Reads(task)) + 1
    BY <1>4, FS_AddElement
  <2> QED BY <2>1, <1>3, <1>4
<1>7. Cardinality(Reads(k0.task)) <= k0.refcount /\ k0.refcount \in Nat
  <2>1. Cardinality(Reads(k0.task)) \in Nat
    <3>1. IsFiniteSet(Reads(k0.task))
      BY <1>3, <1>4, FS_AddElement
    <3> QED BY <3>1, FS_CardinalityType
  <2> QED BY <2>1, <1>1, <1>4, <1>5, <1>6
<1> QED BY <1>3, <1>7 DEF k0

\* sysread keeps the invariant: what was typed ahead ends reads only if none
\* but the new one waits, or no EOF was typed.
LEMMA ReadKeeps ==
    ASSUME KInv, StaleReadsQuiet, Syscall("READ"), Open(currproc) # {},
           NEW buflen \in ReadLens, kbd_read(buflen), DevInv'
    PROVE  KInv'
<1>1. /\ IInv /\ SignalTypes /\ DevInv /\ DescInv /\ ReadInv /\ currproc \in Slots
      /\ UNCHANGED <<blocking_proc, blocking_queue, signalVars, stopped, sleeping>>
  BY QuietCall, IInvTypes DEF KInv, kbd_read
<1> DEFINE k0 == Reading(buflen)
           k == keyboard_flush_buffer(k0)
           over == Len(k.task[currproc].buf) = buflen \/ k.done
<1>2. /\ Becomes(k)
      /\ \/ /\ over /\ UNCHANGED currproc
            /\ ready' = unblocked_ready(k) /\ curr_state' = unblocked_state(k)
            /\ blocking_queue_name' = unblocked_name(k)
         \/ /\ ~over
            /\ get_next_proc(unblocked_ready(k), [unblocked_state(k) EXCEPT ![currproc] = BLOCKED])
            /\ blocking_queue_name' = [unblocked_name(k) EXCEPT ![currproc] = DEVICE]
  BY DEF kbd_read, Reading
<1>3. /\ k0 \in Boards /\ k0.unblocked = <<>> /\ k0.done = g_kbd_done /\ k0.enabled = enabled
      /\ k0.buffer = g_keyboard_buffer /\ k0.refcount = g_kbd_task_refcount + 1
      /\ enabled => ~g_kbd_done
      /\ Roomy(k0.task)
      /\ k0.task = [task EXCEPT ![currproc] =
                      [waiting_on_read |-> TRUE, buflen |-> buflen, buf |-> <<>>]]
  BY <1>1, ReadingIsBoard, KeyboardIsBoard
<1>4. /\ Reads(k0.task) = Reads(task) \cup {currproc}
      /\ k0.refcount \in Nat /\ Cardinality(Reads(k0.task)) <= k0.refcount
  BY <1>1, ReadingReads
<1> HIDE DEF k0
<1>5. k0.buffer = <<>> => k = k0
  BY <1>3, FlushFacts
<1>6. Flushed(k0, k)
  BY <1>3, FlushFacts
<1>7. k.buffer # <<>> => k.refcount <= 0
  BY <1>3, FlushFacts
<1> HIDE DEF k
<1>8. curr_state[currproc] = RUNNING
  BY <1>1, IInvTypes
<1>9. \A p \in Reads(k0.task) \ Reads(k.task) :
          curr_state[p] = BLOCKED => blocking_queue_name[p] = DEVICE
  <2>1. CASE ~g_kbd_done
    BY <2>1, <1>4, <1>8 DEF StaleReadsQuiet, Reads
  <2>2. CASE g_keyboard_buffer = <<>>
    BY <2>2, <1>3, <1>5
  <2>3. CASE g_keyboard_buffer # <<>>
    <3>1. Cardinality(Reads(task)) <= 0
      BY <2>3, <1>1 DEF ReadInv, TypedAheadOnlyIfUnread, Reads
    <3>2. IsFiniteSet(Reads(task))
      <4>1. IsFiniteSet(Slots) /\ Reads(task) \in SUBSET Slots
        BY <1>1, DescriptorFacts DEF DescInv, Reads
      <4> QED BY <4>1, FS_Subset
    <3>3. Reads(task) = {}
      <4>1. Cardinality(Reads(task)) \in Nat
        BY <3>2, FS_CardinalityType
      <4>2. Cardinality(Reads(task)) = 0
        BY <3>1, <4>1
      <4> QED BY <3>2, <4>2, FS_EmptySet
    <3> QED BY <3>3, <1>4, <1>8
  <2> QED BY <2>1, <2>2, <2>3
<1>10. PICK blocks \in SUBSET {currproc} :
         /\ blocks \subseteq Slots
         /\ blocks # {} => ~k.done /\ Len(k.task[currproc].buf) # buflen
         /\ blocking_queue_name' = woken_name(k, blocks)
         /\ \/ /\ blocks = {} /\ UNCHANGED currproc
               /\ ready' = unblocked_ready(k) /\ curr_state' = woken_state(k, blocks)
            \/ /\ blocks = {currproc}
               /\ get_next_proc(unblocked_ready(k), woken_state(k, blocks))
  <2>1. CASE over
    <3> WITNESS {} \in SUBSET {currproc}
    <3> QED BY <2>1, <1>2, WokenOnly
  <2>2. CASE ~over
    <3> WITNESS {currproc} \in SUBSET {currproc}
    <3> QED BY <2>2, <1>1, <1>2, WokenAndBlocked
  <2> QED BY <2>1, <2>2
<1> HIDE DEF over
<1>11. IInv'
  BY <1>1, <1>6, <1>9, <1>10, WokenKeeps
<1>12. SignalTypes'
  BY <1>1 DEF signalVars, SignalTypes
<1>16. \A p \in Procs : curr_state'[p] = woken_state(k, blocks)[p] \/ curr_state'[p] = RUNNING
  <2>1. DOMAIN woken_state(k, blocks) = Procs
    BY DEF woken_state
  <2> QED BY <2>1, <1>10, Scheduled
<1>13. \A p \in Slots : curr_state'[p] = STOPPED => curr_state[p] = STOPPED
  BY <1>1, <1>10, <1>16, WokenStates
<1>14. DescInv'
  <2>1. /\ UNCHANGED <<fd_table, g_kbd_refcount, g_kbd_current_type>>
        /\ \A p \in Slots : Open(p)' = Open(p)
    BY <1>2 DEF Becomes, Open
  <2>2. \A p \in Slots : Open(p) # {} => curr_state'[p] # STOPPED
    BY <1>1, <1>13 DEF DescInv, OpenCount
  <2>3. OpenCount'
    BY <1>1, <2>1, <2>2, CountSame DEF DescInv
  <2> QED BY <1>1, <2>1, <2>3 DEF DescInv
<1>15. ReadInv'
  <2>1. \A p \in Reads(k0.task) : Open(p) # {}
    BY <1>1, <1>4 DEF ReadInv, OnlyHoldersWait, Reads
  <2>2. /\ \A p \in Slots : p # currproc => k0.task[p] = task[p]
        /\ k0.task[currproc].buflen = buflen
    BY <1>1, <1>3 DEF DevInv, DevTypes
  <2>3. k.task[currproc].buflen = buflen
    BY <1>1, <1>6, <2>2 DEF Flushed, Told
  <2>4. ReadersAfter(k0, k)
    <3>1. \A p \in Slots : curr_state[p] = BLOCKED => k0.task[p] = task[p]
      BY <1>8, <2>2
    <3>2. \A p \in blocks : /\ p \in Reads(k0.task) /\ ~k.done
                            /\ Len(k.task[p].buf) # k.task[p].buflen
      BY <1>4, <1>10, <2>3
    <3> QED BY <1>1, <1>6, <1>10, <1>16, <3>1, <3>2, WokenReaders
  <2> QED BY <1>1, <1>2, <1>3, <1>4, <1>6, <1>7, <2>1, <2>4, ReadsFlushed
<1> QED BY <1>11, <1>12, <1>14, <1>15 DEF KInv

\* Initially nothing is open and nobody reads.
LEMMA InitKInv == KbdInit => KInv
<1> SUFFICES ASSUME KbdInit PROVE KInv
  OBVIOUS
<1>1. IInv /\ DevInv
  BY InitIInv, InitDevInv DEF KbdInit
<1>2. SignalTypes
  <2>1. Init
    BY DEF KbdInit
  <2> QED BY <2>1, InitSigInv DEF SigInv
<1>3. /\ fd_table = [p \in Slots |-> NoFds] /\ g_kbd_refcount = 0 /\ g_kbd_task_refcount = 0
      /\ task = [p \in Slots |-> [waiting_on_read |-> FALSE, buflen |-> 0, buf |-> <<>>]]
      /\ g_keyboard_buffer = <<>> /\ g_kbd_done = FALSE
  BY DEF KbdInit
<1>4. \A p \in Slots : Open(p) = {} /\ ~task[p].waiting_on_read
  BY <1>3 DEF Open, NoFds
<1>5. DescInv
  <2>1. {e \in Slots \X Fds : e[2] \in Open(e[1])} = {}
    BY <1>4
  <2>2. fd_table \in [Slots -> [Fds -> DevValues]]
    BY <1>3 DEF NoFds, DevValues
  <2> QED BY <1>3, <1>4, <2>1, <2>2, FS_EmptySet DEF DescInv, OpenCount
<1>6. ReadInv
  <2>1. {p \in Slots : task[p].waiting_on_read} = {}
    BY <1>4
  <2>2. Cardinality({p \in Slots : task[p].waiting_on_read}) = 0
    BY <2>1, FS_EmptySet
  <2>3. ReadersHear
    <3>1. \A p \in Slots : curr_state[p] # BLOCKED
      BY SlotFacts DEF KbdInit, Init
    <3> QED BY <3>1 DEF ReadersHear
  <2> QED BY <1>3, <1>4, <2>2, <2>3 DEF ReadInv, OnlyHoldersWait, TypedAheadOnlyIfUnread
<1> QED BY <1>1, <1>2, <1>5, <1>6 DEF KInv

\* Every step from a state in which stale reads are quiet.
LEMMA NextKInv == KInv /\ StaleReadsQuiet /\ [KbdNext]_allVars => KInv'
<1> SUFFICES ASSUME KInv, StaleReadsQuiet, [KbdNext]_allVars PROVE KInv'
  OBVIOUS
<1>1. CASE kernel_step
  BY <1>1, KernelKeeps
<1>2. CASE keyboard_handler
  BY <1>2, InterruptKeeps
<1>3. CASE dispatch_syscall_open
  BY <1>3, OpenKeeps
<1>4. CASE dispatch_syscall_close
  BY <1>4, CloseHandlerKeeps
<1>5. CASE dispatch_syscall_read
  <2>1. CASE Return(SYSERR) /\ UNCHANGED devVars
    <3>1. UNCHANGED <<structVars, signalVars>>
      BY <1>5, <2>1, QuietCall DEF dispatch_syscall_read
    <3> QED BY <2>1, <3>1, QuietKeeps DEF devVars, kbdVars
  <2>2. ASSUME NEW buflen \in ReadLens, NEW fd \in Open(currproc), kbd_read(buflen)
        PROVE  KInv'
    <3>1. DevInv'
      BY <1>5, NextDevInv DEF KInv, KbdNext
    <3>2. Syscall("READ")
      BY <1>5 DEF dispatch_syscall_read
    <3> QED BY <2>2, <3>1, <3>2, ReadKeeps
  <2> QED BY <1>5, <2>1, <2>2 DEF dispatch_syscall_read, di_read
<1>6. CASE dispatch_syscall_write
  <2>1. UNCHANGED <<structVars, signalVars, devVars>>
    <3>1. UNCHANGED <<pcbVars, signalVars, listVars, devVars>> /\ Syscall("WRITE")
      BY <1>6 DEF dispatch_syscall_write, di_write, Asserting
    <3> QED BY <3>1, QuietCall
  <2> QED BY <2>1, QuietKeeps DEF devVars, kbdVars
<1>7. CASE dispatch_syscall_ioctl
  <2>1. /\ UNCHANGED <<fd_table, g_kbd_refcount, g_kbd_current_type, g_kbd_done, enabled, task,
                       g_kbd_task_refcount, g_keyboard_buffer>>
        /\ Syscall("IOCTL") /\ \E code : Return(code)
    BY <1>7 DEF dispatch_syscall_ioctl, di_ioctl, kbd_ioctl, devVars, kbdVars
  <2>2. UNCHANGED <<structVars, signalVars>>
    BY <2>1, QuietCall
  <2> QED BY <2>1, <2>2, QuietKeeps
<1>8. CASE UNCHANGED allVars
  BY <1>8, QuietKeeps DEF allVars, vars, pcbVars, listVars, structVars, devVars, kbdVars
<1> QED BY <1>1, <1>2, <1>3, <1>4, <1>5, <1>6, <1>7, <1>8 DEF KbdNext

\* In a run in which no process blocks elsewhere while a read of its waits,
\* the process table, the driver, the descriptors and the reads stay right.
THEOREM DevicesStayRight == KbdSpec /\ []StaleReadsQuiet => []KInv
<1>1. KbdInit => KInv
  BY InitKInv
<1>2. KInv /\ StaleReadsQuiet /\ [KbdNext]_allVars => KInv'
  BY NextKInv
<1> QED BY <1>1, <1>2, PTL DEF KbdSpec

-----------------------------------------------------------------------------
(* When stale reads are quiet *)

\* The other calls that block.
BlockingCalls == {"SEND", "RECV", "WAIT", "SLEEP"}

\* How a step of the rest of the kernel may change what p is blocked on: it
\* unblocks p, from the device with a signal only; it takes or returns the pcb
\* of a dead process; or p is the running process and makes a call that blocks.
Changes(p) ==
    \/ blocking_queue_name'[p] = blocking_queue_name[p]
    \/ curr_state[p] = STOPPED
    \/ /\ blocking_queue_name'[p] = NO_BLOCKER
       /\ blocking_queue_name[p] = DEVICE => "KILL" \in Syscalls
    \/ p = currproc /\ BlockingCalls \cap Syscalls # {}
BlockersChange == \A p \in Slots : Changes(p)

\* One process gets another blocker.
LEMMA ChangesOne ==
    ASSUME IInv, NEW x, NEW name,
           blocking_queue_name' = [blocking_queue_name EXCEPT ![x] = name],
           \/ curr_state[x] = STOPPED
           \/ /\ name = NO_BLOCKER
              /\ blocking_queue_name[x] = DEVICE => "KILL" \in Syscalls
           \/ x = currproc /\ BlockingCalls \cap Syscalls # {}
    PROVE  BlockersChange
BY IInvTypes, SlotFacts DEF Changes, BlockersChange

\* A set of processes that are blocked on something else is unblocked.
LEMMA ChangesMany ==
    ASSUME IInv, NEW set, \A p \in set : blocking_queue_name[p] # DEVICE,
           blocking_queue_name' = [p \in Procs |-> IF p \in set THEN NO_BLOCKER
                                                   ELSE blocking_queue_name[p]]
    PROVE  BlockersChange
BY SlotFacts DEF Changes, BlockersChange

\* The clock wakes sleepers only, and a process that dies those in its queues.
LEMMA OthersReleased ==
    ASSUME IInv
    PROVE  /\ \A p \in ToSet(SubSeq(sleeping, 1, expired)) : blocking_queue_name[p] # DEVICE
           /\ currproc \in Slots =>
                \A p \in UNION {ToSet(blocking_queue[currproc][q]) : q \in Queues} :
                    blocking_queue_name[p] # DEVICE
<1>1. ToSet(SubSeq(sleeping, 1, expired)) \subseteq Asleep
  <2>1. sleeping \in Seq(Slots) /\ Lists(sleeping, Asleep) /\ expired \in 0..Len(sleeping)
    BY IInvTypes, IInvLists, ExpiredRange
  <2> QED BY <2>1, CutLists
<1>2. ASSUME currproc \in Slots, NEW q \in Queues, NEW p \in ToSet(blocking_queue[currproc][q])
      PROVE  blocking_queue_name[p] # DEVICE
  <2>1. Lists(blocking_queue[currproc][q], BlockedOn(currproc, q))
    BY <1>2, IInvLists
  <2>2. p \in BlockedOn(currproc, q)
    BY <1>2, <2>1 DEF Lists
  <2> QED BY <2>2 DEF BlockedOn, Queues
<1> QED BY <1>1, <1>2 DEF Asleep

\* Every step of the rest of the kernel.
LEMMA NextChanges == ASSUME IInv, Next PROVE BlockersChange
<1> USE SlotFacts
<1>0. ASSUME UNCHANGED blocking_queue_name PROVE BlockersChange
  BY <1>0 DEF Changes, BlockersChange
<1>a. ASSUME NEW code, Return(code) PROVE BlockersChange
  BY <1>a, <1>0 DEF Return, pcbVars
<1>b. ASSUME NEW owner, NEW queue, NEW code, block_on(owner, queue, code),
             BlockingCalls \cap Syscalls # {}
      PROVE  BlockersChange
  BY <1>b, ChangesOne DEF block_on
<1>c. ASSUME cleanup_proc, currproc \in Slots PROVE BlockersChange
  <2>1. CASE UNCHANGED blocking_queue_name
    BY <2>1, <1>0
  <2> DEFINE notified == UNION {ToSet(blocking_queue[currproc][q]) : q \in Queues}
  <2>2. CASE blocking_queue_name' = [w \in Procs |-> IF w \in notified THEN NO_BLOCKER
                                                     ELSE blocking_queue_name[w]]
    <3>1. \A p \in notified : blocking_queue_name[p] # DEVICE
      BY <1>c, OthersReleased
    <3> HIDE DEF notified
    <3> QED BY <2>2, <3>1, ChangesMany
  <2> QED BY <1>c, <2>1, <2>2 DEF cleanup_proc, Asserting, pcbVars
<1>d. ASSUME NEW src, NEW len, recv_now(src, len), blocked_in(src, currproc, SENDER) PROVE BlockersChange
  <2>1. \/ UNCHANGED blocking_queue_name
        \/ blocking_queue_name' = [blocking_queue_name EXCEPT ![src] = NO_BLOCKER]
    BY <1>d DEF recv_now, Asserting, pcbVars
  <2>2. blocking_queue_name[src] # DEVICE
    BY <1>d DEF blocked_in
  <2> QED BY <2>1, <2>2, <1>0, ChangesOne
<1>e. ASSUME NEW name, Syscall(name)
      PROVE  currproc \in Slots /\ (name \in BlockingCalls => BlockingCalls \cap Syscalls # {})
  BY <1>e, IInvTypes DEF Syscall
<1>1. CASE ctsw_contextswitch
  BY <1>1, <1>0 DEF ctsw_contextswitch, pcbVars
<1>2. CASE timer_handler
  <2>1. CASE UNCHANGED blocking_queue_name
    BY <2>1, <1>0
  <2> DEFINE woken == SubSeq(sleeping, 1, expired)
  <2>2. CASE blocking_queue_name' = [p \in Procs |-> IF p \in ToSet(woken) THEN NO_BLOCKER
                                                     ELSE blocking_queue_name[p]]
    <3>1. \A p \in ToSet(woken) : blocking_queue_name[p] # DEVICE
      BY OthersReleased
    <3> HIDE DEF woken
    <3> QED BY <2>2, <3>1, ChangesMany
  <2> QED BY <1>2, <2>1, <2>2 DEF timer_handler, Asserting, pcbVars
<1>3. CASE dispatch_syscall_create
  <2>1. ASSUME create PROVE BlockersChange
    <3>1. /\ stopped # <<>>
          /\ \/ UNCHANGED blocking_queue_name
             \/ blocking_queue_name' = [blocking_queue_name EXCEPT ![Head(stopped)] = NO_BLOCKER]
      BY <2>1 DEF create, Asserting, pcbVars
    <3>2. curr_state[Head(stopped)] = STOPPED
      BY <3>1, NextFree
    <3> QED BY <3>1, <3>2, <1>0, ChangesOne
  <2>2. ASSUME create_without_table PROVE BlockersChange
    <3>1. /\ stopped # <<>>
          /\ blocking_queue_name' = [blocking_queue_name EXCEPT ![Head(stopped)] = SENDER]
      BY <2>2 DEF create_without_table
    <3>2. curr_state[Head(stopped)] = STOPPED
      BY <3>1, NextFree
    <3> QED BY <3>1, <3>2, ChangesOne
  <2> QED BY <1>3, <1>a, <1>0, <2>1, <2>2 DEF dispatch_syscall_create
<1>4. CASE syscall_yield
  BY <1>4, <1>0 DEF syscall_yield
<1>5. CASE syscall_stop \/ dispatch_syscall_sigreturn
  BY <1>5, <1>c, <1>e, <1>0 DEF syscall_stop, dispatch_syscall_sigreturn, sigreturn, pcbVars
<1>6. CASE syscall_getpid
  BY <1>6, <1>a DEF syscall_getpid
<1>7. CASE dispatch_syscall_kill
  <2>1. "KILL" \in Syscalls
    BY <1>7 DEF dispatch_syscall_kill, Syscall
  <2>2. ASSUME NEW proc, NEW signal, set_proc_signal(proc, signal) PROVE BlockersChange
    <3>1. \/ UNCHANGED blocking_queue_name
          \/ blocking_queue_name' = [blocking_queue_name EXCEPT ![proc] = NO_BLOCKER]
      BY <2>2 DEF set_proc_signal, resolve_blocking, Asserting, pcbVars
    <3> QED BY <2>1, <3>1, <1>0, ChangesOne
  <2> QED BY <1>7, <1>a, <2>2 DEF dispatch_syscall_kill
<1>8. CASE dispatch_syscall_wait
  BY <1>8, <1>a, <1>b, <1>e DEF dispatch_syscall_wait, BlockingCalls
<1>9. CASE dispatch_syscall_puts
  BY <1>9, <1>0 DEF dispatch_syscall_puts, Ignore, pcbVars
<1>10. CASE dispatch_syscall_send
  <2>1. ASSUME NEW dest, NEW message, send_now(dest, message) PROVE BlockersChange
    <3>1. \/ UNCHANGED blocking_queue_name
          \/ blocking_queue_name' = [blocking_queue_name EXCEPT ![dest] = NO_BLOCKER]
      BY <2>1 DEF send_now, Asserting, pcbVars
    <3>2. blocking_queue_name[dest] # DEVICE
      BY <2>1 DEF send_now, receiver_waits, blocked_in
    <3> QED BY <3>1, <3>2, <1>0, ChangesOne
  <2>2. ASSUME NEW dest, NEW message, send_blocks(dest, message) PROVE BlockersChange
    <3>1. BlockingCalls \cap Syscalls # {}
      BY <1>10, <1>e DEF dispatch_syscall_send, BlockingCalls
    <3> QED BY <2>2, <3>1, <1>b DEF send_blocks
  <2> QED BY <1>10, <1>a, <2>1, <2>2 DEF dispatch_syscall_send
<1>11. CASE dispatch_syscall_recv
  <2>0. BlockingCalls \cap Syscalls # {}
    BY <1>11, <1>e DEF dispatch_syscall_recv, BlockingCalls
  <2>1. ASSUME NEW src, NEW len, recv(src, len) PROVE BlockersChange
    BY <2>0, <2>1, <1>b, <1>d DEF recv
  <2>2. ASSUME NEW len, recv_any(len) PROVE BlockersChange
    <3>1. CASE blocking_queue_name' = [blocking_queue_name EXCEPT ![currproc] = RECEIVE_ANY]
      BY <2>0, <3>1, ChangesOne
    <3> QED BY <2>2, <3>1, <1>a, <1>d DEF recv_any
  <2> QED BY <1>11, <1>a, <2>1, <2>2 DEF dispatch_syscall_recv
<1>12. CASE dispatch_syscall_sleep
  <2>0. BlockingCalls \cap Syscalls # {}
    BY <1>12, <1>e DEF dispatch_syscall_sleep, BlockingCalls
  <2>1. \/ UNCHANGED blocking_queue_name
        \/ blocking_queue_name' = [blocking_queue_name EXCEPT ![currproc] = SLEEP]
    BY <1>12 DEF dispatch_syscall_sleep, sleep, Ignore, pcbVars
  <2> QED BY <2>0, <2>1, <1>0, ChangesOne
<1>13. CASE dispatch_syscall_getcputimes
  BY <1>13, <1>a, <1>0 DEF dispatch_syscall_getcputimes, Asserting, pcbVars
<1>14. CASE dispatch_syscall_sighandler
  BY <1>14, <1>a, <1>0 DEF dispatch_syscall_sighandler, pcbVars
<1> QED BY <1>1, <1>2, <1>3, <1>4, <1>5, <1>6, <1>7, <1>8, <1>9, <1>10, <1>11, <1>12, <1>13,
           <1>14 DEF Next

\* Either no process sends signals or none makes another call that blocks.
Quiet == "KILL" \notin Syscalls \/ BlockingCalls \cap Syscalls = {}

\* Without signals a read that waits, before an EOF, is one that its process
\* is blocked in; without other blocking calls a blocked process is reading.
ReadersOnDevice ==
    "KILL" \notin Syscalls =>
        (~g_kbd_done => \A p \in Slots : task[p].waiting_on_read => blocking_queue_name[p] = DEVICE)
BlockedOnDevice ==
    BlockingCalls \cap Syscalls = {} =>
        \A p \in Slots : curr_state[p] = BLOCKED => blocking_queue_name[p] = DEVICE

\* In either case stale reads are quiet.
LEMMA QuietReads == ASSUME Quiet, ReadersOnDevice, BlockedOnDevice PROVE StaleReadsQuiet
BY DEF Quiet, ReadersOnDevice, BlockedOnDevice, StaleReadsQuiet

\* In the rest of the kernel.
LEMMA KernelQuiet ==
    ASSUME KInv, KInv', ReadersOnDevice, BlockedOnDevice, kernel_step
    PROVE  ReadersOnDevice' /\ BlockedOnDevice'
<1>1. /\ IInv /\ IInv' /\ SignalTypes /\ DevInv /\ OnlyHoldersWait /\ OpenCount /\ Next
  BY DEF KInv, DescInv, ReadInv, kernel_step
<1>2. BlockersChange /\ BlockedAfter
  BY <1>1, NextChanges, NextBlocked
<1>3. /\ g_kbd_done' = g_kbd_done
      /\ \A p \in Slots : task'[p].waiting_on_read => task[p].waiting_on_read
  <2>1. CASE kbd_close(currproc, closable(Open(currproc)))
    <3>1. /\ g_kbd_done' = g_kbd_done /\ task \in [Slots -> Task]
          /\ task' = [task EXCEPT ![currproc].waiting_on_read =
                          @ /\ closable(Open(currproc)) = {}]
      BY <1>1, <2>1 DEF kbd_close, task_after_close, DevInv, DevTypes
    <3> QED BY <3>1 DEF Task
  <2>2. CASE UNCHANGED kbdVars
    BY <2>2 DEF kbdVars
  <2> QED BY <2>1, <2>2 DEF kernel_step
<1>4. currproc \in Procs /\ \A p \in Slots : p = currproc => curr_state[p] = RUNNING
  BY <1>1, IInvTypes
<1>5. ASSUME "KILL" \notin Syscalls, ~g_kbd_done', NEW p \in Slots, task'[p].waiting_on_read
      PROVE  blocking_queue_name'[p] = DEVICE
  <2>1. blocking_queue_name[p] = DEVICE /\ task[p].waiting_on_read
    BY <1>3, <1>5 DEF ReadersOnDevice
  <2>2. curr_state[p] # STOPPED
    BY <1>1, <2>1 DEF OnlyHoldersWait, OpenCount
  <2>3. p # currproc
    BY <1>1, <1>4, <2>1 DEF IInv, BlockersMatchStates
  <2> QED BY <1>2, <1>5, <2>1, <2>2, <2>3 DEF BlockersChange, Changes
<1>6. ASSUME BlockingCalls \cap Syscalls = {}, NEW p \in Slots, curr_state'[p] = BLOCKED
      PROVE  blocking_queue_name'[p] = DEVICE
  <2>1. blocking_queue_name'[p] # NO_BLOCKER
    BY <1>1, <1>6 DEF IInv, BlockersMatchStates
  <2>2. CASE p = currproc
    <3>1. curr_state[p] = RUNNING /\ blocking_queue_name[p] = NO_BLOCKER
      BY <1>1, <1>4, <2>2 DEF IInv, BlockersMatchStates
    <3> QED BY <3>1, <2>1, <1>2, <1>6 DEF BlockersChange, Changes
  <2>3. CASE StaysBlocked(p)
    BY <2>3, <1>6 DEF StaysBlocked, BlockedOnDevice
  <2> QED BY <1>2, <1>6, <2>2, <2>3 DEF BlockedAfter
<1> QED BY <1>5, <1>6 DEF ReadersOnDevice, BlockedOnDevice

\* After characters: a read that goes on is one that went on before, or the one
\* that the running process begins and blocks in.
LEMMA WakeQuiet ==
    ASSUME IInv, ReadersOnDevice, BlockedOnDevice, NEW k0, NEW k, Flushed(k0, k),
           task' = k.task, g_kbd_done' = k.done, k0.done = g_kbd_done,
           NEW blocks, blocks \subseteq {currproc}, blocking_queue_name' = woken_name(k, blocks),
           \A p \in Reads(k.task) : p \in Reads(task) \/ p \in blocks \/ k.done,
           \A p \in Procs : curr_state'[p] = woken_state(k, blocks)[p] \/ curr_state'[p] = RUNNING
    PROVE  ReadersOnDevice' /\ BlockedOnDevice'
<1>1. \A p \in Procs : /\ woken_state(k, blocks)[p] = IF p \in blocks THEN BLOCKED
                                  ELSE IF p \in ToSet(unblocked_procs(k)) THEN READY ELSE curr_state[p]
                       /\ blocking_queue_name'[p] = IF p \in blocks THEN DEVICE
                                  ELSE IF p \in ToSet(unblocked_procs(k)) THEN NO_BLOCKER
                                  ELSE blocking_queue_name[p]
  BY DEF woken_state, woken_name, unblocked_state, unblocked_name
<1>2. ToSet(unblocked_procs(k)) \subseteq Reads(k0.task) \ Reads(k.task)
  BY WokenEnded
<1>3. k0.done => k.done
  BY DEF Flushed
<1>4. ASSUME "KILL" \notin Syscalls, ~g_kbd_done', NEW p \in Slots, task'[p].waiting_on_read
      PROVE  blocking_queue_name'[p] = DEVICE
  <2>1. p \in Reads(k.task) /\ ~k.done /\ ~g_kbd_done
    BY <1>3, <1>4 DEF Reads
  <2>2. p \notin ToSet(unblocked_procs(k))
    BY <1>2, <2>1
  <2>3. p \in blocks \/ blocking_queue_name[p] = DEVICE
    BY <2>1, <1>4 DEF ReadersOnDevice, Reads
  <2> QED BY <1>1, <2>2, <2>3, SlotFacts
<1>5. ASSUME BlockingCalls \cap Syscalls = {}, NEW p \in Slots, curr_state'[p] = BLOCKED
      PROVE  blocking_queue_name'[p] = DEVICE
  BY <1>1, <1>5, SlotFacts DEF BlockedOnDevice
<1> QED BY <1>4, <1>5 DEF ReadersOnDevice, BlockedOnDevice

\* sysread: a read that is over waits no more, unless an EOF was typed.
LEMMA ReadQuiet ==
    ASSUME KInv, ReadersOnDevice, BlockedOnDevice, currproc \in Slots, NEW buflen \in ReadLens,
           kbd_read(buflen)
    PROVE  ReadersOnDevice' /\ BlockedOnDevice'
<1>1. IInv /\ DevInv /\ DescInv /\ ReadInv
  BY DEF KInv
<1> DEFINE k0 == Reading(buflen)
           k == keyboard_flush_buffer(k0)
           over == Len(k.task[currproc].buf) = buflen \/ k.done
<1>2. /\ Becomes(k)
      /\ \/ /\ over /\ UNCHANGED currproc
            /\ ready' = unblocked_ready(k) /\ curr_state' = unblocked_state(k)
            /\ blocking_queue_name' = unblocked_name(k)
         \/ /\ ~over
            /\ get_next_proc(unblocked_ready(k), [unblocked_state(k) EXCEPT ![currproc] = BLOCKED])
            /\ blocking_queue_name' = [unblocked_name(k) EXCEPT ![currproc] = DEVICE]
  BY DEF kbd_read, Reading
<1>3. /\ k0 \in Boards /\ k0.unblocked = <<>> /\ k0.done = g_kbd_done /\ k0.enabled = enabled
      /\ Roomy(k0.task)
      /\ k0.task[currproc].buflen = buflen
  <2>1. /\ k0 \in Boards /\ k0.unblocked = <<>> /\ k0.done = g_kbd_done /\ k0.enabled = enabled
        /\ Roomy(k0.task)
        /\ k0.task = [task EXCEPT ![currproc] =
                        [waiting_on_read |-> TRUE, buflen |-> buflen, buf |-> <<>>]]
    BY <1>1, ReadingIsBoard
  <2> HIDE DEF k0
  <2> QED BY <2>1, <1>1, KeyboardIsBoard DEF DevInv, DevTypes
<1>4. Reads(k0.task) = Reads(task) \cup {currproc}
  BY <1>1, ReadingReads
<1> HIDE DEF k0
<1>5. Flushed(k0, k)
  <2>1. k0.enabled => ~k0.done
    BY <1>1, <1>3, KeyboardIsBoard
  <2> QED BY <1>3, <2>1, FlushFacts
<1>6. k.task[currproc].buflen = buflen
  BY <1>1, <1>3, <1>5 DEF Flushed, Told
<1> HIDE DEF k
<1>7. over => currproc \notin Reads(k.task) \/ k.done
  <2>1. SUFFICES ASSUME over, currproc \in Reads(k.task), ~k.done PROVE FALSE
    OBVIOUS
  <2>2. Len(k.task[currproc].buf) = buflen
    BY <2>1
  <2>3. Roomy(k.task)
    BY <1>3, <1>5 DEF Flushed
  <2>4. Len(k.task[currproc].buf) < buflen
    BY <2>1, <2>3, <1>6 DEF Roomy, Reads
  <2>5. buflen \in Nat
    BY KeyAssumption
  <2> QED BY <2>2, <2>4, <2>5
<1>8. Reads(k.task) \subseteq Reads(task) \cup {currproc}
  BY <1>4, <1>5 DEF Flushed
<1>9. task' = k.task /\ g_kbd_done' = k.done
  BY <1>2 DEF Becomes
<1>10. CASE over
  <2>1. /\ blocking_queue_name' = woken_name(k, {}) /\ curr_state' = woken_state(k, {})
    BY <1>2, <1>10, WokenOnly
  <2>2. \A p \in Reads(k.task) : p \in Reads(task) \/ p \in {} \/ k.done
    BY <1>7, <1>8, <1>10
  <2>3. {} \subseteq {currproc}
    OBVIOUS
  <2> QED BY <1>1, <1>3, <1>5, <1>9, <2>1, <2>2, <2>3, WakeQuiet
<1>11. CASE ~over
  <2>1. /\ blocking_queue_name' = woken_name(k, {currproc})
        /\ get_next_proc(unblocked_ready(k), woken_state(k, {currproc}))
    BY <1>1, <1>2, <1>11, WokenAndBlocked
  <2>2. \A p \in Reads(k.task) : p \in Reads(task) \/ p \in {currproc} \/ k.done
    BY <1>8
  <2>3. \A p \in Procs : \/ curr_state'[p] = woken_state(k, {currproc})[p]
                         \/ curr_state'[p] = RUNNING
    <3>1. DOMAIN woken_state(k, {currproc}) = Procs
      BY DEF woken_state
    <3> QED BY <3>1, <2>1, Scheduled
  <2>4. {currproc} \subseteq {currproc}
    OBVIOUS
  <2> DEFINE blocks == {currproc}
  <2>5. /\ blocks \subseteq {currproc} /\ blocking_queue_name' = woken_name(k, blocks)
        /\ \A p \in Reads(k.task) : p \in Reads(task) \/ p \in blocks \/ k.done
        /\ \A p \in Procs : \/ curr_state'[p] = woken_state(k, blocks)[p]
                            \/ curr_state'[p] = RUNNING
    BY <2>1, <2>2, <2>3, <2>4
  <2> HIDE DEF blocks
  <2> QED BY <1>1, <1>3, <1>5, <1>9, <2>5, WakeQuiet
<1> QED BY <1>10, <1>11

\* Every step.
LEMMA NextQuiet ==
    KInv /\ KInv' /\ ReadersOnDevice /\ BlockedOnDevice /\ [KbdNext]_allVars
        => ReadersOnDevice' /\ BlockedOnDevice'
<1> SUFFICES ASSUME KInv, KInv', ReadersOnDevice, BlockedOnDevice, [KbdNext]_allVars
             PROVE  ReadersOnDevice' /\ BlockedOnDevice'
  OBVIOUS
<1>0. ASSUME UNCHANGED <<structVars, task, g_kbd_done>>
      PROVE  ReadersOnDevice' /\ BlockedOnDevice'
  BY <1>0 DEF structVars, ReadersOnDevice, BlockedOnDevice
<1>r. ASSUME NEW name, Syscall(name)
      PROVE  /\ currproc \in Slots
             /\ \A code : Return(code) => UNCHANGED structVars
             /\ UNCHANGED <<pcbVars, listVars>> => UNCHANGED structVars
  BY <1>r, QuietCall, IInvTypes DEF KInv, pcbVars, listVars, structVars
<1>1. CASE kernel_step
  BY <1>1, KernelQuiet
<1>2. CASE keyboard_handler
  <2>1. PICK c \in Keys : /\ Becomes(Typed(c))
                          /\ curr_state' = unblocked_state(Typed(c))
                          /\ blocking_queue_name' = unblocked_name(Typed(c))
    BY <1>2 DEF keyboard_handler, Typed
  <2> DEFINE k == Typed(c)
  <2>2. Flushed(Keyboard, k) /\ Keyboard.task = task /\ Keyboard.done = g_kbd_done
    BY TypedFacts, KeyboardIsBoard DEF KInv
  <2> HIDE DEF k
  <2>3. /\ task' = k.task /\ g_kbd_done' = k.done
        /\ curr_state' = woken_state(k, {}) /\ blocking_queue_name' = woken_name(k, {})
    BY <2>1, WokenOnly DEF Becomes, k
  <2>4. \A p \in Reads(k.task) : p \in Reads(task) \/ p \in {} \/ k.done
    BY <2>2 DEF Flushed
  <2>5. IInv /\ {} \subseteq {currproc}
    BY DEF KInv
  <2> QED BY <2>2, <2>3, <2>4, <2>5, WakeQuiet
<1>3. CASE dispatch_syscall_open
  <2>0. Syscall("OPEN")
    BY <1>3 DEF dispatch_syscall_open
  <2>1. CASE UNCHANGED devVars /\ Return(SYSERR)
    BY <2>0, <2>1, <1>r, <1>0 DEF devVars, kbdVars
  <2>2. CASE /\ UNCHANGED <<pcbVars, listVars, task>>
             /\ \/ g_kbd_done' = g_kbd_done
                \/ g_kbd_refcount = 0
    <3>1. UNCHANGED structVars
      BY <2>0, <2>2, <1>r
    <3>2. CASE g_kbd_done' = g_kbd_done
      BY <2>2, <3>1, <3>2, <1>0
    <3>3. CASE g_kbd_refcount = 0
      <4>1. \A p \in Slots : ~task[p].waiting_on_read
        BY <3>3, NothingOpen DEF KInv
      <4> QED BY <2>2, <3>1, <4>1 DEF structVars, ReadersOnDevice, BlockedOnDevice
    <3> QED BY <2>2, <3>2, <3>3
  <2> QED BY <1>3, <2>1, <2>2 DEF dispatch_syscall_open, di_open, kbd_open, Asserting
<1>4. CASE dispatch_syscall_close
  <2>1. PICK fds : kbd_close(currproc, fds) /\ Syscall("CLOSE") /\ \E code : Return(code)
    BY <1>4 DEF dispatch_syscall_close
  <2>2. UNCHANGED structVars /\ g_kbd_done' = g_kbd_done
    BY <2>1, <1>r DEF kbd_close
  <2>3. \A p \in Slots : task'[p].waiting_on_read => task[p].waiting_on_read
    <3>1. task \in [Slots -> Task] /\ task' = [task EXCEPT ![currproc].waiting_on_read =
                                                  @ /\ fds = {}]
      BY <2>1 DEF kbd_close, task_after_close, KInv, DevInv, DevTypes
    <3> QED BY <3>1 DEF Task
  <2> QED BY <2>2, <2>3 DEF structVars, ReadersOnDevice, BlockedOnDevice
<1>5. CASE dispatch_syscall_read
  <2>0. Syscall("READ")
    BY <1>5 DEF dispatch_syscall_read
  <2>1. CASE Return(SYSERR) /\ UNCHANGED devVars
    BY <2>0, <2>1, <1>r, <1>0 DEF devVars, kbdVars
  <2>2. ASSUME NEW buflen \in ReadLens, kbd_read(buflen)
        PROVE  ReadersOnDevice' /\ BlockedOnDevice'
    BY <2>0, <2>2, <1>r, ReadQuiet
  <2> QED BY <1>5, <2>1, <2>2 DEF dispatch_syscall_read, di_read
<1>6. CASE dispatch_syscall_write
  <2>1. UNCHANGED <<pcbVars, listVars, task, g_kbd_done>> /\ Syscall("WRITE")
    BY <1>6 DEF dispatch_syscall_write, di_write, Asserting, devVars, kbdVars
  <2> QED BY <2>1, <1>r, <1>0
<1>7. CASE dispatch_syscall_ioctl
  <2>1. UNCHANGED <<task, g_kbd_done>> /\ Syscall("IOCTL") /\ \E code : Return(code)
    BY <1>7 DEF dispatch_syscall_ioctl, di_ioctl, kbd_ioctl, devVars, kbdVars
  <2> QED BY <2>1, <1>r, <1>0
<1>8. CASE UNCHANGED allVars
  BY <1>8, <1>0 DEF allVars, vars, pcbVars, listVars, structVars, devVars, kbdVars
<1> QED BY <1>1, <1>2, <1>3, <1>4, <1>5, <1>6, <1>7, <1>8 DEF KbdNext

\* When no process sends signals, or none makes another call that blocks, all
\* of it stays right, in every run.
THEOREM QuietDevicesStayRight == ASSUME Quiet PROVE KbdSpec => []KInv
<1>1. KbdInit => KInv /\ ReadersOnDevice /\ BlockedOnDevice
  <2>1. KbdInit => KInv
    BY InitKInv
  <2>2. KbdInit => ReadersOnDevice
    BY DEF KbdInit, ReadersOnDevice
  <2>3. KbdInit => BlockedOnDevice
    BY SlotFacts DEF KbdInit, Init, BlockedOnDevice
  <2> QED BY <2>1, <2>2, <2>3
<1>2. KInv /\ ReadersOnDevice /\ BlockedOnDevice /\ [KbdNext]_allVars
          => KInv' /\ ReadersOnDevice' /\ BlockedOnDevice'
  BY NextKInv, NextQuiet, QuietReads
<1> QED BY <1>1, <1>2, PTL DEF KbdSpec

\* The driver counts the descriptors that are open, all of one device.
THEOREM DescriptorsCounted == ASSUME Quiet PROVE KbdSpec => []OpenCount
<1>1. KInv => OpenCount
  BY DEF KInv, DescInv
<1> QED BY <1>1, QuietDevicesStayRight, PTL

\* Only processes that have the keyboard open have a read that waits.
THEOREM HoldersWait == ASSUME Quiet PROVE KbdSpec => []OnlyHoldersWait
<1>1. KInv => OnlyHoldersWait
  BY DEF KInv, ReadInv
<1> QED BY <1>1, QuietDevicesStayRight, PTL

\* Nothing is typed ahead while a read waits, and all that wait are counted.
THEOREM ReadsGetWhatIsTyped == ASSUME Quiet PROVE KbdSpec => []TypedAheadOnlyIfUnread
<1>1. KInv => TypedAheadOnlyIfUnread
  BY DEF KInv, ReadInv
<1> QED BY <1>1, QuietDevicesStayRight, PTL

\* Whoever is blocked in a read can be woken by a key, or had its line before
\* it blocked.
THEOREM BlockedReadersAreHeard == ASSUME Quiet PROVE KbdSpec => []BlockedReadersListen
<1>1. ASSUME KInv PROVE BlockedReadersListen
  <2> SUFFICES ASSUME NEW p \in Slots, curr_state[p] = BLOCKED, blocking_queue_name[p] = DEVICE,
                      ~LineTypedAhead(p)
               PROVE  /\ task[p].waiting_on_read /\ ~g_kbd_done
                      /\ g_kbd_task_refcount > 0 /\ enabled /\ Open(p) # {}
    BY DEF BlockedReadersListen
  <2>1. IInv /\ DevInv /\ DescInv /\ ReadInv /\ OpenCount
    BY <1>1 DEF KInv, DescInv
  <2>2. task[p].waiting_on_read /\ ~g_kbd_done /\ Open(p) # {}
    BY <2>1 DEF ReadInv, ReadersHear, OnlyHoldersWait
  <2>3. enabled
    <3>1. g_kbd_refcount # 0 /\ g_kbd_refcount \in Nat
      BY <2>1, <2>2, NothingOpen DEF DevInv, DevTypes
    <3> QED BY <2>1, <2>2, <3>1 DEF DevInv, EnabledWhileOpen
  <2>4. g_kbd_task_refcount > 0
    <3>1. IsFiniteSet(Reads(task)) /\ Cardinality(Reads(task)) \in Nat /\ Reads(task) # {}
      <4>1. IsFiniteSet(Slots) /\ Reads(task) \in SUBSET Slots /\ p \in Reads(task)
        BY <2>1, <2>2, DescriptorFacts DEF Reads
      <4> QED BY <4>1, FS_Subset, FS_CardinalityType
    <3>2. Cardinality(Reads(task)) # 0
      BY <3>1, FS_EmptySet
    <3>3. Cardinality(Reads(task)) <= g_kbd_task_refcount /\ g_kbd_task_refcount \in Nat
      BY <2>1 DEF ReadInv, TypedAheadOnlyIfUnread, Reads
    <3> QED BY <3>1, <3>2, <3>3
  <2> QED BY <2>2, <2>3, <2>4
<1> QED BY <1>1, QuietDevicesStayRight, PTL

\* The lists of the process table stay intact with the devices in use.
THEOREM QueuesSurviveDevices == ASSUME Quiet PROVE KbdSpec => []QueueIntegrity
<1>1. KInv => QueueIntegrity
  BY DEF KInv, IInv
<1> QED BY <1>1, QuietDevicesStayRight, PTL
=============================================================================
