------------------------------ MODULE DispProofs ------------------------------
(***************************************************************************)
(* Proofs about the process table, the dispatcher, signals and the         *)
(* kernel's assertions, for every table size, workload and number of       *)
(* signals.                                                                *)
(*                                                                         *)
(* First the lemmas about the queues of module Pcb: what each operation    *)
(* does to the set of processes a list holds; nothing after them opens a   *)
(* sequence of processes again.  Then the dispatcher: the inductive        *)
(* invariant is QueueIntegrity together with the three facts its proof     *)
(* needs: only currproc is RUNNING, the blocker fields match the states,   *)
(* and nobody is blocked on a STOPPED pcb.  Last the signals, which rest   *)
(* on that structure.                                                      *)
(***************************************************************************)
EXTENDS Disp, SequenceTheorems, WellFoundedInduction, FiniteSetTheorems, TLAPS


-----------------------------------------------------------------------------
(* Queues *)

\* The empty list holds nobody.
LEMMA ListsEmpty == Lists(<<>>, {})
BY DEF Lists, IsInjective, ToSet

\* A list that holds nobody is empty, and one that is empty holds nobody.
LEMMA EmptyLists ==
    ASSUME NEW A, NEW q \in Seq(A), NEW S, Lists(q, S)
    PROVE  q = <<>> <=> S = {}
<1>1. DOMAIN q = 1..Len(q) /\ Len(q) \in Nat
  BY LenProperties
<1>2. CASE q = <<>>
  BY <1>2 DEF Lists, ToSet
<1>3. CASE q # <<>>
  <2>1. Len(q) # 0
    BY <1>3, EmptySeq
  <2>2. 1 \in DOMAIN q
    BY <2>1, <1>1
  <2> QED BY <1>3, <2>2 DEF Lists, ToSet
<1> QED BY <1>2, <1>3

\* The processes of a list are of the type of its elements.
LEMMA ListsSubset ==
    ASSUME NEW A, NEW q \in Seq(A), NEW S, Lists(q, S)
    PROVE  S \subseteq A
BY ElementOfSeq DEF Lists, ToSet

\* add_proc_to_queue adds one process to a list that does not hold it.
LEMMA AddLists ==
    ASSUME NEW A, NEW q \in Seq(A), NEW S, Lists(q, S), NEW e \in A, e \notin S
    PROVE  /\ add_proc_to_queue(q, e) \in Seq(A)
           /\ Lists(add_proc_to_queue(q, e), S \cup {e})
<1> DEFINE r == Append(q, e)
<1>1. /\ r \in Seq(A)
      /\ DOMAIN q = 1..Len(q) /\ Len(q) \in Nat
      /\ DOMAIN r = 1..(Len(q) + 1)
      /\ \A i \in 1..Len(q) : r[i] = q[i]
      /\ r[Len(q) + 1] = e
  BY AppendProperties, LenProperties
<1>2. \A i \in 1..Len(q) : q[i] \in S
  BY <1>1 DEF Lists, ToSet
<1>3. IsInjective(r)
  <2> SUFFICES ASSUME NEW a \in DOMAIN r, NEW b \in DOMAIN r, r[a] = r[b]
               PROVE  a = b
    BY DEF IsInjective
  <2>1. CASE a = Len(q) + 1 \/ b = Len(q) + 1
    BY <2>1, <1>1, <1>2
  <2>2. CASE a \in 1..Len(q) /\ b \in 1..Len(q)
    BY <2>2, <1>1 DEF Lists, IsInjective
  <2> QED BY <2>1, <2>2, <1>1
<1>4. ToSet(r) = S \cup {e}
  <2>1. ToSet(r) \subseteq S \cup {e}
    BY <1>1, <1>2 DEF ToSet
  <2>2. e \in ToSet(r)
    BY <1>1 DEF ToSet
  <2>3. ASSUME NEW x \in S PROVE x \in ToSet(r)
    <3>1. PICK i \in 1..Len(q) : q[i] = x
      BY <1>1 DEF Lists, ToSet
    <3> QED BY <3>1, <1>1 DEF ToSet
  <2> QED BY <2>1, <2>2, <2>3
<1> QED BY <1>1, <1>3, <1>4 DEF Lists, add_proc_to_queue

\* Popping a list removes its head.
LEMMA PopLists ==
    ASSUME NEW A, NEW q \in Seq(A), NEW S, Lists(q, S), q # <<>>
    PROVE  /\ Head(q) \in S
           /\ Tail(q) \in Seq(A)
           /\ Lists(Tail(q), S \ {Head(q)})
<1> DEFINE r == Tail(q)
<1>1. /\ r \in Seq(A)
      /\ DOMAIN q = 1..Len(q) /\ Len(q) \in Nat \ {0}
      /\ DOMAIN r = 1..(Len(q) - 1)
      /\ \A i \in 1..(Len(q) - 1) : r[i] = q[i + 1]
      /\ Head(q) = q[1]
  BY HeadTailProperties, LenProperties, EmptySeq
<1>2. \A a, b \in 1..Len(q) : q[a] = q[b] => a = b
  BY <1>1 DEF Lists, IsInjective
<1>3. IsInjective(r)
  BY <1>1, <1>2 DEF IsInjective
<1>4. ToSet(r) \subseteq S \ {Head(q)}
  <2> SUFFICES ASSUME NEW i \in 1..(Len(q) - 1) PROVE q[i + 1] \in S \ {q[1]}
    BY <1>1 DEF ToSet
  <2> QED BY <1>1, <1>2 DEF Lists, ToSet
<1>5. ASSUME NEW x \in S \ {Head(q)} PROVE x \in ToSet(r)
  <2>1. PICK i \in 1..Len(q) : q[i] = x
    BY <1>1 DEF Lists, ToSet
  <2>2. i - 1 \in 1..(Len(q) - 1)
    BY <2>1, <1>1
  <2>3. r[i - 1] = q[(i - 1) + 1] /\ (i - 1) + 1 = i
    BY <2>2, <1>1
  <2>4. i - 1 \in DOMAIN r /\ r[i - 1] = x
    BY <2>1, <2>2, <2>3, <1>1
  <2> QED BY <2>4 DEF ToSet
<1>6. Head(q) \in S
  <2>1. 1 \in DOMAIN q
    BY <1>1
  <2> QED BY <2>1, <1>1 DEF Lists, ToSet
<1>7. ToSet(r) = S \ {Head(q)}
  BY <1>4, <1>5
<1> QED BY <1>1, <1>3, <1>6, <1>7 DEF Lists

\* notify_blocked_procs and tick append a whole list to another.
LEMMA ConcatLists ==
    ASSUME NEW A, NEW q \in Seq(A), NEW S, Lists(q, S),
                  NEW r \in Seq(A), NEW T, Lists(r, T), S \cap T = {}
    PROVE  q \o r \in Seq(A) /\ Lists(q \o r, S \cup T)
<1> DEFINE c == q \o r
<1>1. /\ c \in Seq(A)
      /\ DOMAIN q = 1..Len(q) /\ Len(q) \in Nat
      /\ DOMAIN r = 1..Len(r) /\ Len(r) \in Nat
      /\ DOMAIN c = 1..(Len(q) + Len(r))
      /\ \A i \in 1..(Len(q) + Len(r)) : c[i] = IF i <= Len(q) THEN q[i] ELSE r[i - Len(q)]
  BY ConcatProperties, LenProperties
<1>2. /\ \A i \in 1..Len(q) : q[i] \in S
      /\ \A i \in 1..Len(r) : r[i] \in T
  BY <1>1 DEF Lists, ToSet
<1>3. IsInjective(c)
  <2> SUFFICES ASSUME NEW a \in DOMAIN c, NEW b \in DOMAIN c, c[a] = c[b]
               PROVE  a = b
    BY DEF IsInjective
  <2>1. CASE a <= Len(q) /\ b <= Len(q)
    BY <2>1, <1>1 DEF Lists, IsInjective
  <2>2. CASE a > Len(q) /\ b > Len(q)
    <3>1. a - Len(q) \in 1..Len(r) /\ b - Len(q) \in 1..Len(r)
      BY <2>2, <1>1
    <3>2. r[a - Len(q)] = r[b - Len(q)]
      BY <2>2, <1>1
    <3>3. a - Len(q) = b - Len(q)
      BY <3>1, <3>2, <1>1 DEF Lists, IsInjective
    <3> QED BY <3>3, <1>1
  <2>3. CASE a <= Len(q) /\ b > Len(q)
    BY <2>3, <1>1, <1>2
  <2>4. CASE a > Len(q) /\ b <= Len(q)
    BY <2>4, <1>1, <1>2
  <2> QED BY <2>1, <2>2, <2>3, <2>4, <1>1
<1>4. ToSet(c) \subseteq S \cup T
  BY <1>1, <1>2 DEF ToSet
<1>5. ASSUME NEW x \in S PROVE x \in ToSet(c)
  <2>1. PICK i \in 1..Len(q) : q[i] = x
    BY <1>1 DEF Lists, ToSet
  <2> QED BY <2>1, <1>1 DEF ToSet
<1>6. ASSUME NEW x \in T PROVE x \in ToSet(c)
  <2>1. PICK i \in 1..Len(r) : r[i] = x
    BY <1>1 DEF Lists, ToSet
  <2>2. i + Len(q) \in 1..(Len(q) + Len(r)) /\ c[i + Len(q)] = x
    BY <2>1, <1>1
  <2> QED BY <2>2, <1>1 DEF ToSet
<1> QED BY <1>1, <1>3, <1>4, <1>5, <1>6 DEF Lists

\* A list cut in two after k processes: the parts hold disjoint sets.
LEMMA CutLists ==
    ASSUME NEW A, NEW q \in Seq(A), NEW S, Lists(q, S), NEW k \in 0..Len(q)
    PROVE  LET front == SubSeq(q, 1, k)
               back  == SubSeq(q, k + 1, Len(q))
           IN  /\ front \in Seq(A) /\ back \in Seq(A)
               /\ ToSet(front) \subseteq S
               /\ Lists(front, ToSet(front))
               /\ Lists(back, S \ ToSet(front))
<1> DEFINE front == SubSeq(q, 1, k)
           back  == SubSeq(q, k + 1, Len(q))
<1>1. /\ DOMAIN q = 1..Len(q) /\ Len(q) \in Nat /\ k \in Nat /\ k <= Len(q)
      /\ \A i \in 1..Len(q) : q[i] \in A
  BY LenProperties, ElementOfSeq
<1>2. /\ front \in Seq(A) /\ DOMAIN front = 1..k
      /\ \A i \in 1..k : front[i] = q[i]
  BY <1>1, SubSeqProperties
<1>3. /\ back \in Seq(A) /\ DOMAIN back = 1..(Len(q) - k)
      /\ \A i \in 1..(Len(q) - k) : back[i] = q[i + k]
  BY <1>1, SubSeqProperties
<1>4. \A a, b \in 1..Len(q) : q[a] = q[b] => a = b
  BY <1>1 DEF Lists, IsInjective
<1>5. /\ ToSet(front) \subseteq S
      /\ \A x \in ToSet(front) : \E i \in 1..k : q[i] = x
      /\ \A i \in 1..k : q[i] \in ToSet(front)
  BY <1>1, <1>2 DEF Lists, ToSet
<1>6. IsInjective(front) /\ IsInjective(back)
  <2> HIDE DEF front, back
  <2>1. IsInjective(front)
    <3>1. ASSUME NEW a \in 1..k, NEW b \in 1..k, front[a] = front[b] PROVE a = b
      <4>1. a \in 1..Len(q) /\ b \in 1..Len(q)
        BY <1>1
      <4> QED BY <4>1, <3>1, <1>2, <1>4
    <3> QED BY <3>1, <1>2 DEF IsInjective
  <2>2. IsInjective(back)
    <3>1. ASSUME NEW a \in 1..(Len(q) - k), NEW b \in 1..(Len(q) - k), back[a] = back[b]
          PROVE  a = b
      <4>1. a + k \in 1..Len(q) /\ b + k \in 1..Len(q)
        BY <1>1
      <4>2. a + k = b + k
        BY <4>1, <3>1, <1>3, <1>4
      <4> QED BY <4>2, <1>1
    <3> QED BY <3>1, <1>3 DEF IsInjective
  <2> QED BY <2>1, <2>2
<1>7. ASSUME NEW i \in 1..(Len(q) - k) PROVE q[i + k] \in S \ ToSet(front)
  <2>1. i + k \in 1..Len(q) /\ ~(i + k \in 1..k)
    BY <1>1
  <2>2. q[i + k] \in S
    BY <2>1, <1>1 DEF Lists, ToSet
  <2>3. q[i + k] \notin ToSet(front)
    BY <2>1, <1>1, <1>4, <1>5
  <2> QED BY <2>2, <2>3
<1>8. ToSet(back) \subseteq S \ ToSet(front)
  BY <1>3, <1>7 DEF ToSet
<1>9. ASSUME NEW x \in S \ ToSet(front) PROVE x \in ToSet(back)
  <2>1. PICK i \in 1..Len(q) : q[i] = x
    BY <1>1 DEF Lists, ToSet
  <2>2. i > k
    BY <2>1, <1>1, <1>5
  <2>3. i - k \in 1..(Len(q) - k) /\ back[i - k] = x
    BY <2>1, <2>2, <1>1, <1>3
  <2> QED BY <2>3, <1>3 DEF ToSet
<1> QED BY <1>2, <1>3, <1>5, <1>6, <1>8, <1>9 DEF Lists

\* remove_proc_from_queue removes one process from a list that holds it.
LEMMA RemoveLists ==
    ASSUME NEW A, NEW q \in Seq(A), NEW S, Lists(q, S), NEW e \in S
    PROVE  /\ remove_proc_from_queue(q, e) \in Seq(A)
           /\ Lists(remove_proc_from_queue(q, e), S \ {e})
<1> DEFINE i == CHOOSE j \in DOMAIN q : q[j] = e
           front == SubSeq(q, 1, i - 1)
           upto  == SubSeq(q, 1, i)
           back  == SubSeq(q, i + 1, Len(q))
<1>1. /\ DOMAIN q = 1..Len(q) /\ Len(q) \in Nat
      /\ i \in 1..Len(q) /\ q[i] = e
  <2>1. \E j \in DOMAIN q : q[j] = e
    BY DEF Lists, ToSet
  <2> QED BY <2>1, LenProperties
<1> HIDE DEF i
<1>2. i - 1 \in 0..Len(q) /\ i \in 0..Len(q)
  BY <1>1
<1>3. /\ front \in Seq(A) /\ Lists(front, ToSet(front)) /\ ToSet(front) \subseteq S
  BY <1>2, CutLists
<1>4. /\ back \in Seq(A) /\ Lists(back, S \ ToSet(upto))
  BY <1>2, CutLists
<1>5. /\ DOMAIN front = 1..(i - 1) /\ \A j \in 1..(i - 1) : front[j] = q[j]
      /\ DOMAIN upto = 1..i /\ \A j \in 1..i : upto[j] = q[j]
  <2>1. \A j \in 1..Len(q) : q[j] \in A
    BY ElementOfSeq
  <2> QED BY <1>1, <1>2, SubSeqProperties
<1>6. \A a, b \in 1..Len(q) : q[a] = q[b] => a = b
  BY <1>1 DEF Lists, IsInjective
<1>7. ToSet(upto) = ToSet(front) \cup {e}
  <2>1. ASSUME NEW x \in ToSet(upto) PROVE x \in ToSet(front) \cup {e}
    <3>1. PICK j \in 1..i : x = q[j]
      BY <1>5 DEF ToSet
    <3>2. CASE j = i
      BY <3>1, <3>2, <1>1
    <3>3. CASE j # i
      <4>1. j \in 1..(i - 1)
        BY <3>1, <3>3, <1>1
      <4> QED BY <3>1, <4>1, <1>5 DEF ToSet
    <3> QED BY <3>2, <3>3
  <2>2. e \in ToSet(upto)
    <3>1. i \in 1..i /\ upto[i] = e
      BY <1>1, <1>5
    <3> QED BY <3>1, <1>5 DEF ToSet
  <2>3. ASSUME NEW x \in ToSet(front) PROVE x \in ToSet(upto)
    <3>1. PICK j \in 1..(i - 1) : x = q[j]
      BY <1>5 DEF ToSet
    <3>2. j \in 1..i
      BY <3>1, <1>1
    <3> QED BY <3>1, <3>2, <1>5 DEF ToSet
  <2> QED BY <2>1, <2>2, <2>3
<1>8. e \notin ToSet(front)
  <2> SUFFICES ASSUME NEW j \in 1..(i - 1) PROVE q[j] # e
    BY <1>5 DEF ToSet
  <2>1. j \in 1..Len(q) /\ j # i
    BY <1>1
  <2> QED BY <2>1, <1>1, <1>6
<1>9. front \o back \in Seq(A) /\ Lists(front \o back, ToSet(front) \cup (S \ ToSet(upto)))
  <2>1. ToSet(front) \cap (S \ ToSet(upto)) = {}
    BY <1>7
  <2> HIDE DEF front, back, upto
  <2> QED BY <1>3, <1>4, <2>1, ConcatLists
<1>10. ToSet(front) \cup (S \ ToSet(upto)) = S \ {e}
  BY <1>3, <1>7, <1>8
<1>11. remove_proc_from_queue(q, e) = front \o back
  BY DEF remove_proc_from_queue, RemoveAt, i
<1> QED BY <1>9, <1>10, <1>11

\* add_to_sleeping_list puts one process at any place of a list.
LEMMA InsertLists ==
    ASSUME NEW A, NEW q \in Seq(A), NEW S, Lists(q, S),
           NEW e \in A, e \notin S, NEW i \in 1..(Len(q) + 1)
    PROVE  /\ InsertAt(q, i, e) \in Seq(A)
           /\ Lists(InsertAt(q, i, e), S \cup {e})
<1> DEFINE front == SubSeq(q, 1, i - 1)
           back  == SubSeq(q, i, Len(q))
<1>1. Len(q) \in Nat
  BY LenProperties
<1>2. i - 1 \in 0..Len(q) /\ (i - 1) + 1 = i
  BY <1>1
<1>3. /\ front \in Seq(A) /\ back \in Seq(A)
      /\ ToSet(front) \subseteq S
      /\ Lists(front, ToSet(front)) /\ Lists(back, S \ ToSet(front))
  <2>1. back = SubSeq(q, (i - 1) + 1, Len(q))
    BY <1>2
  <2> QED BY <1>2, <2>1, CutLists
<1> HIDE DEF front, back
<1>4. <<e>> \in Seq(A) /\ Lists(<<e>>, {e})
  BY DEF Lists, IsInjective, ToSet
<1>5. front \o <<e>> \in Seq(A) /\ Lists(front \o <<e>>, ToSet(front) \cup {e})
  BY <1>3, <1>4, ConcatLists
<1>6. /\ (front \o <<e>>) \o back \in Seq(A)
      /\ Lists((front \o <<e>>) \o back, (ToSet(front) \cup {e}) \cup (S \ ToSet(front)))
  <2>1. (ToSet(front) \cup {e}) \cap (S \ ToSet(front)) = {}
    OBVIOUS
  <2> QED BY <1>3, <1>5, <2>1, ConcatLists
<1>7. (ToSet(front) \cup {e}) \cup (S \ ToSet(front)) = S \cup {e}
  BY <1>3
<1> QED BY <1>6, <1>7 DEF InsertAt, front, back

\* A set of natural numbers that is not empty has a least element.
LEMMA MinInSet ==
    ASSUME NEW T, T \subseteq Nat, T # {}
    PROVE  Min(T) \in T /\ \A y \in T : Min(T) <= y
<1>1. PICK x \in T : \A y \in T : ~(<<y, x>> \in OpToRel(<, Nat))
  BY NatLessThanWellFounded, WFMin
<1>2. \A y \in T : ~(y < x)
  BY <1>1 DEF OpToRel
<1>3. \A y \in T : x =< y
  BY <1>2
<1> QED BY <1>3 DEF Min

\* Induction over the natural numbers, for a set of them: what the provers can
\* use of it, since they cannot instantiate a predicate.
LEMMA NatInduct ==
    ASSUME NEW T, 0 \in T, \A n \in Nat : n \in T => n + 1 \in T
    PROVE  \A n \in Nat : n \in T
<1> DEFINE U == {n \in Nat : n \notin T}
<1>1. CASE U # {}
  <2>1. PICK x \in U : \A y \in U : ~(<<y, x>> \in OpToRel(<, Nat))
    BY <1>1, NatLessThanWellFounded, WFMin
  <2>2. x \in Nat /\ x # 0 /\ x - 1 \in Nat /\ (x - 1) + 1 = x
    OBVIOUS
  <2>3. x - 1 < x
    BY <2>2
  <2>4. <<x - 1, x>> \in OpToRel(<, Nat)
    BY <2>2, <2>3 DEF OpToRel
  <2>5. x - 1 \notin U
    BY <2>1, <2>4
  <2>6. x - 1 \in T
    BY <2>2, <2>5
  <2> QED BY <2>2, <2>6
<1> QED BY <1>1

-----------------------------------------------------------------------------
(* The process table and the dispatcher *)

StructTypes ==
    /\ QueueTypes
    /\ curr_state \in [Procs -> ProcStates]
    /\ blocking_proc \in [Procs -> Slots \cup {NULL}]
    /\ blocking_queue_name \in [Procs -> Blockers]
    /\ currproc \in Procs

IInv == StructTypes /\ OneRunning /\ QueueIntegrity /\ BlockersMatchStates /\ NoOrphans

structVars == <<curr_state, blocking_proc, blocking_queue_name, blocking_queue,
                ready, stopped, sleeping, currproc>>

USE DEF READY, STOPPED, RUNNING, BLOCKED, SENDER, RECEIVER, WAITING, RECEIVE_ANY, SLEEP,
        DEVICE, NO_BLOCKER, NULL

\* Slots are positive, so NULL is none of them; the idle process is no slot.
LEMMA SlotFacts ==
    /\ Slots \subseteq Procs /\ IdleProc \in Procs /\ IdleProc \notin Slots
    /\ Procs = Slots \cup {IdleProc}
    /\ NULL \notin Slots
    /\ 1 \in Slots
BY TableAssumption DEF Slots, Procs, IdleProc

\* pid_to_proc finds a slot of the table that is not STOPPED, or NULL.
LEMMA PidToProc ==
    ASSUME NEW p \in Int
    PROVE  \/ pid_to_proc(p) = NULL
           \/ pid_to_proc(p) \in Slots /\ curr_state[pid_to_proc(p)] # STOPPED
<1> DEFINE s == ((p - 1) % PCB_TABLE_SIZE) + 1
<1>1. s \in Slots
  BY TableAssumption DEF Slots
<1> QED BY <1>1 DEF pid_to_proc

-----------------------------------------------------------------------------
\* The structural invariant of a state that a handler has prepared but not
\* yet scheduled: the same sets, with the values as parameters.
Prepared(st, bp, bn, bq, r, stp, slp) ==
    /\ st \in [Procs -> ProcStates]
    /\ bp \in [Procs -> Slots \cup {NULL}]
    /\ bn \in [Procs -> Blockers]
    /\ bq \in [Procs -> [Queues -> Seq(Slots)]]
    /\ r \in Seq(Slots) /\ stp \in Seq(Slots) /\ slp \in Seq(Slots)
    /\ Lists(r, {p \in Slots : st[p] = READY})
    /\ Lists(stp, {p \in Slots : st[p] = STOPPED})
    /\ Lists(slp, {p \in Slots : st[p] = BLOCKED /\ bn[p] = SLEEP})
    /\ \A o \in Slots, q \in Queues :
         Lists(bq[o][q], {p \in Slots : st[p] = BLOCKED /\ bn[p] = q /\ bp[p] = o})
    /\ \A p \in Slots :
         /\ st[p] # BLOCKED => bp[p] = NULL
         /\ st[p] \in {READY, RUNNING} => bn[p] = NO_BLOCKER
         /\ st[p] = BLOCKED => bn[p] # NO_BLOCKER /\ (bp[p] # NULL <=> bn[p] \in Queues)
    /\ \A p \in Slots : bp[p] # NULL => st[bp[p]] # STOPPED

\* IInv is Prepared of the current values, with currproc the one RUNNING.
LEMMA IInvIsPrepared ==
    IInv <=> /\ Prepared(curr_state, blocking_proc, blocking_queue_name, blocking_queue,
                         ready, stopped, sleeping)
             /\ currproc \in Procs /\ OneRunning
BY DEF IInv, Prepared, StructTypes, QueueTypes, QueueIntegrity, BlockersMatchStates, NoOrphans,
       InState, Asleep, BlockedOn

\* The same of the next state.
LEMMA IInvIsPreparedNext ==
    IInv' <=> /\ Prepared(curr_state', blocking_proc', blocking_queue_name', blocking_queue',
                          ready', stopped', sleeping')
              /\ currproc' \in Procs /\ OneRunning'
BY DEF IInv, Prepared, StructTypes, QueueTypes, QueueIntegrity, BlockersMatchStates, NoOrphans,
       InState, Asleep, BlockedOn

\* get_next_proc makes the invariant true again from any prepared state in
\* which nobody runs.
LEMMA GetNextProc ==
    ASSUME NEW st, NEW r,
           Prepared(st, blocking_proc', blocking_queue_name', blocking_queue', r,
                    stopped', sleeping'),
           \A p \in Procs : st[p] # RUNNING,
           get_next_proc(r, st)
    PROVE  IInv'
<1> USE SlotFacts
<1> DEFINE next == IF r = <<>> THEN IdleProc ELSE Head(r)
<1>1. /\ ready' = (IF r = <<>> THEN <<>> ELSE Tail(r))
      /\ currproc' = next
      /\ curr_state' = [st EXCEPT ![next] = RUNNING]
  BY DEF get_next_proc
<1>2. /\ st \in [Procs -> ProcStates] /\ r \in Seq(Slots)
      /\ Lists(r, {p \in Slots : st[p] = READY})
  BY DEF Prepared
<1>3. CASE r = <<>>
  <2>1. currproc' = IdleProc /\ ready' = r
    BY <1>1, <1>3
  <2>2. /\ curr_state' \in [Procs -> ProcStates]
        /\ \A p \in Slots : curr_state'[p] = st[p]
        /\ curr_state'[IdleProc] = RUNNING
    BY <1>1, <1>2, <2>1, <1>3 DEF ProcStates
  <2>3. \A S : {p \in Slots : curr_state'[p] = S} = {p \in Slots : st[p] = S}
    BY <2>2
  <2>4. /\ {p \in Slots : curr_state'[p] = BLOCKED /\ blocking_queue_name'[p] = SLEEP}
             = {p \in Slots : st[p] = BLOCKED /\ blocking_queue_name'[p] = SLEEP}
        /\ \A o, q : {p \in Slots : curr_state'[p] = BLOCKED /\ blocking_queue_name'[p] = q
                                       /\ blocking_proc'[p] = o}
             = {p \in Slots : st[p] = BLOCKED /\ blocking_queue_name'[p] = q
                                       /\ blocking_proc'[p] = o}
    BY <2>2
  <2>5. Prepared(curr_state', blocking_proc', blocking_queue_name', blocking_queue',
                 ready', stopped', sleeping')
    <3>1. /\ ready' \in Seq(Slots) /\ Lists(ready', {p \in Slots : curr_state'[p] = READY})
          /\ Lists(stopped', {p \in Slots : curr_state'[p] = STOPPED})
      BY <2>1, <2>3, <1>2 DEF Prepared
    <3>2. Lists(sleeping', {p \in Slots : curr_state'[p] = BLOCKED
                                            /\ blocking_queue_name'[p] = SLEEP})
      BY <2>4 DEF Prepared
    <3>3. ASSUME NEW o \in Slots, NEW q \in Queues
          PROVE  Lists(blocking_queue'[o][q],
                       {p \in Slots : curr_state'[p] = BLOCKED /\ blocking_queue_name'[p] = q
                                        /\ blocking_proc'[p] = o})
      <4>1. Lists(blocking_queue'[o][q],
                  {p \in Slots : st[p] = BLOCKED /\ blocking_queue_name'[p] = q
                                   /\ blocking_proc'[p] = o})
        BY DEF Prepared
      <4> QED BY <4>1, <2>4
    <3>4. \A p \in Slots :
            /\ curr_state'[p] # BLOCKED => blocking_proc'[p] = NULL
            /\ curr_state'[p] \in {READY, RUNNING} => blocking_queue_name'[p] = NO_BLOCKER
            /\ curr_state'[p] = BLOCKED =>
                  /\ blocking_queue_name'[p] # NO_BLOCKER
                  /\ blocking_proc'[p] # NULL <=> blocking_queue_name'[p] \in Queues
      BY <2>2 DEF Prepared
    <3>5. \A p \in Slots : blocking_proc'[p] # NULL => curr_state'[blocking_proc'[p]] # STOPPED
      BY <2>2 DEF Prepared
    <3> QED BY <3>1, <3>2, <3>3, <3>4, <3>5, <2>2 DEF Prepared
  <2>6. OneRunning'
    BY <2>1, <2>2 DEF OneRunning
  <2> QED BY <2>1, <2>5, <2>6, IInvIsPreparedNext
<1>4. CASE r # <<>>
  <2>1. /\ Head(r) \in {p \in Slots : st[p] = READY}
        /\ Tail(r) \in Seq(Slots)
        /\ Lists(Tail(r), {p \in Slots : st[p] = READY} \ {Head(r)})
    BY <1>2, <1>4, PopLists
  <2>2. currproc' \in Slots /\ st[currproc'] = READY /\ ready' = Tail(r)
    BY <1>1, <1>4, <2>1
  <2>3. /\ curr_state' \in [Procs -> ProcStates]
        /\ \A p \in Procs : curr_state'[p] = IF p = currproc' THEN RUNNING ELSE st[p]
    BY <1>1, <1>2, <2>2 DEF ProcStates
  <2>4. /\ {p \in Slots : curr_state'[p] = READY} = {p \in Slots : st[p] = READY} \ {Head(r)}
        /\ {p \in Slots : curr_state'[p] = STOPPED} = {p \in Slots : st[p] = STOPPED}
    BY <2>2, <2>3, <1>1, <1>4
  <2>5. /\ {p \in Slots : curr_state'[p] = BLOCKED /\ blocking_queue_name'[p] = SLEEP}
             = {p \in Slots : st[p] = BLOCKED /\ blocking_queue_name'[p] = SLEEP}
        /\ \A o, q : {p \in Slots : curr_state'[p] = BLOCKED /\ blocking_queue_name'[p] = q
                                       /\ blocking_proc'[p] = o}
             = {p \in Slots : st[p] = BLOCKED /\ blocking_queue_name'[p] = q
                                       /\ blocking_proc'[p] = o}
    BY <2>2, <2>3
  <2>6. \A p \in Slots :
          /\ curr_state'[p] # BLOCKED => blocking_proc'[p] = NULL
          /\ curr_state'[p] \in {READY, RUNNING} => blocking_queue_name'[p] = NO_BLOCKER
          /\ curr_state'[p] = BLOCKED =>
                /\ blocking_queue_name'[p] # NO_BLOCKER
                /\ blocking_proc'[p] # NULL <=> blocking_queue_name'[p] \in Queues
    BY <2>2, <2>3 DEF Prepared
  <2>7. \A p \in Slots : blocking_proc'[p] # NULL => curr_state'[blocking_proc'[p]] # STOPPED
    BY <2>2, <2>3, ZenonT(40) DEF Prepared
  <2>8. Prepared(curr_state', blocking_proc', blocking_queue_name', blocking_queue',
                 ready', stopped', sleeping')
    <3>1. ready' \in Seq(Slots) /\ Lists(ready', {p \in Slots : curr_state'[p] = READY})
      BY <2>1, <2>2, <2>4
    <3>2. Lists(stopped', {p \in Slots : curr_state'[p] = STOPPED})
      BY <2>4 DEF Prepared
    <3>3. Lists(sleeping', {p \in Slots : curr_state'[p] = BLOCKED
                                            /\ blocking_queue_name'[p] = SLEEP})
      BY <2>5 DEF Prepared
    <3>4. ASSUME NEW o \in Slots, NEW q \in Queues
          PROVE  Lists(blocking_queue'[o][q],
                       {p \in Slots : curr_state'[p] = BLOCKED /\ blocking_queue_name'[p] = q
                                        /\ blocking_proc'[p] = o})
      <4>1. Lists(blocking_queue'[o][q],
                  {p \in Slots : st[p] = BLOCKED /\ blocking_queue_name'[p] = q
                                   /\ blocking_proc'[p] = o})
        BY DEF Prepared
      <4> QED BY <4>1, <2>5
    <3> QED BY <3>1, <3>2, <3>3, <3>4, <2>3, <2>6, <2>7 DEF Prepared
  <2>9. OneRunning'
    BY <2>2, <2>3 DEF OneRunning
  <2> QED BY <2>2, <2>8, <2>9, IInvIsPreparedNext
<1> QED BY <1>3, <1>4

-----------------------------------------------------------------------------
\* A step that leaves the process structure alone keeps the invariant.
LEMMA StructUnchanged ==
    IInv /\ UNCHANGED structVars => IInv'
BY IInvIsPrepared, IInvIsPreparedNext DEF structVars, OneRunning

\* The running process blocks in a queue of a process that is not STOPPED
\* (possibly itself: syswait does not exclude it).
LEMMA BlockOn ==
    ASSUME IInv, NEW owner \in Slots, curr_state[owner] # STOPPED, NEW queue \in Queues,
           NEW code, currproc # IdleProc, block_on(owner, queue, code),
           UNCHANGED <<stopped, sleeping>>
    PROVE  IInv'
<1> USE SlotFacts
<1> DEFINE me == currproc
           st == [curr_state EXCEPT ![me] = BLOCKED]
<1>1. /\ me \in Slots /\ curr_state[me] = RUNNING
      /\ \A p \in Procs : curr_state[p] = RUNNING => p = me
  BY DEF IInv, StructTypes, OneRunning
<1>2. /\ curr_state \in [Procs -> ProcStates]
      /\ blocking_proc \in [Procs -> Slots \cup {NULL}]
      /\ blocking_queue_name \in [Procs -> Blockers]
      /\ blocking_queue \in [Procs -> [Queues -> Seq(Slots)]]
  BY DEF IInv, StructTypes, QueueTypes
<1>3. /\ blocking_proc' = [blocking_proc EXCEPT ![me] = owner]
      /\ blocking_queue_name' = [blocking_queue_name EXCEPT ![me] = queue]
      /\ blocking_queue' = [blocking_queue EXCEPT ![owner][queue] = add_proc_to_queue(@, me)]
      /\ get_next_proc(ready, st)
  BY DEF block_on
<1>4. /\ st \in [Procs -> ProcStates]
      /\ \A p \in Procs : st[p] = IF p = me THEN BLOCKED ELSE curr_state[p]
      /\ blocking_proc' \in [Procs -> Slots \cup {NULL}]
      /\ \A p \in Procs : blocking_proc'[p] = IF p = me THEN owner ELSE blocking_proc[p]
      /\ blocking_queue_name' \in [Procs -> Blockers]
      /\ \A p \in Procs : blocking_queue_name'[p] = IF p = me THEN queue
                                                    ELSE blocking_queue_name[p]
  BY <1>1, <1>2, <1>3 DEF ProcStates, Blockers
<1> HIDE DEF st
<1>5. /\ {p \in Slots : st[p] = READY} = InState(READY)
      /\ {p \in Slots : st[p] = STOPPED} = InState(STOPPED)
      /\ {p \in Slots : st[p] = BLOCKED /\ blocking_queue_name'[p] = SLEEP} = Asleep
  BY <1>1, <1>4 DEF InState, Asleep, Queues
<1>6. /\ me \notin BlockedOn(owner, queue)
      /\ add_proc_to_queue(blocking_queue[owner][queue], me) \in Seq(Slots)
      /\ Lists(add_proc_to_queue(blocking_queue[owner][queue], me),
               BlockedOn(owner, queue) \cup {me})
  <2>1. me \notin BlockedOn(owner, queue)
    BY <1>1 DEF BlockedOn
  <2>2. Lists(blocking_queue[owner][queue], BlockedOn(owner, queue))
    BY DEF IInv, QueueIntegrity
  <2>3. blocking_queue[owner][queue] \in Seq(Slots)
    BY <1>2
  <2> QED BY <2>1, <2>2, <2>3, <1>1, AddLists
<1>7. /\ blocking_queue' \in [Procs -> [Queues -> Seq(Slots)]]
      /\ \A o \in Procs, q \in Queues :
           blocking_queue'[o][q] = IF o = owner /\ q = queue
                                   THEN add_proc_to_queue(blocking_queue[owner][queue], me)
                                   ELSE blocking_queue[o][q]
  BY <1>2, <1>3, <1>6
<1>8. ASSUME NEW o \in Slots, NEW q \in Queues
      PROVE  Lists(blocking_queue'[o][q],
                   {p \in Slots : st[p] = BLOCKED /\ blocking_queue_name'[p] = q
                                    /\ blocking_proc'[p] = o})
  <2> DEFINE S == {p \in Slots : st[p] = BLOCKED /\ blocking_queue_name'[p] = q
                                    /\ blocking_proc'[p] = o}
  <2>1. CASE o = owner /\ q = queue
    <3>1. S = BlockedOn(owner, queue) \cup {me}
      BY <2>1, <1>1, <1>4 DEF BlockedOn
    <3> QED BY <3>1, <2>1, <1>6, <1>7
  <2>2. CASE ~(o = owner /\ q = queue)
    <3>1. S = BlockedOn(o, q)
      BY <2>2, <1>1, <1>4 DEF BlockedOn
    <3>2. Lists(blocking_queue[o][q], BlockedOn(o, q))
      BY DEF IInv, QueueIntegrity
    <3> QED BY <3>1, <3>2, <2>2, <1>7
  <2> QED BY <2>1, <2>2
<1>9. \A p \in Slots :
         /\ st[p] # BLOCKED => blocking_proc'[p] = NULL
         /\ st[p] \in {READY, RUNNING} => blocking_queue_name'[p] = NO_BLOCKER
         /\ st[p] = BLOCKED => /\ blocking_queue_name'[p] # NO_BLOCKER
                               /\ blocking_proc'[p] # NULL <=> blocking_queue_name'[p] \in Queues
  BY <1>1, <1>4 DEF IInv, BlockersMatchStates, Queues
<1>10. \A p \in Slots : blocking_proc'[p] # NULL => st[blocking_proc'[p]] # STOPPED
  <2> SUFFICES ASSUME NEW p \in Slots, blocking_proc'[p] # NULL
               PROVE  st[blocking_proc'[p]] # STOPPED
    OBVIOUS
  <2>1. CASE p = me
    BY <2>1, <1>4
  <2>2. CASE p # me
    <3>1. blocking_proc'[p] = blocking_proc[p] /\ blocking_proc[p] \in Slots
      BY <2>2, <1>2, <1>4
    <3>2. curr_state[blocking_proc[p]] # STOPPED
      BY <3>1 DEF IInv, NoOrphans
    <3> QED BY <3>1, <3>2, <1>4
  <2> QED BY <2>1, <2>2
<1>11. Prepared(st, blocking_proc', blocking_queue_name', blocking_queue', ready,
                stopped', sleeping')
  <2>1. /\ ready \in Seq(Slots) /\ stopped' \in Seq(Slots) /\ sleeping' \in Seq(Slots)
        /\ Lists(ready, InState(READY)) /\ Lists(stopped', InState(STOPPED))
        /\ Lists(sleeping', Asleep)
    BY DEF IInv, StructTypes, QueueTypes, QueueIntegrity
  <2> QED BY <2>1, <1>4, <1>5, <1>7, <1>8, <1>9, <1>10 DEF Prepared
<1>12. \A p \in Procs : st[p] # RUNNING
  BY <1>1, <1>4
<1> QED BY <1>3, <1>11, <1>12, GetNextProc

\* What the invariant says of the values, spelled out once.
LEMMA IInvTypes ==
    ASSUME IInv
    PROVE  /\ curr_state \in [Procs -> ProcStates]
           /\ blocking_proc \in [Procs -> Slots \cup {NULL}]
           /\ blocking_queue_name \in [Procs -> Blockers]
           /\ blocking_queue \in [Procs -> [Queues -> Seq(Slots)]]
           /\ ready \in Seq(Slots) /\ stopped \in Seq(Slots) /\ sleeping \in Seq(Slots)
           /\ currproc \in Procs /\ curr_state[currproc] = RUNNING
           /\ \A x \in Procs : curr_state[x] = RUNNING => x = currproc
BY DEF IInv, StructTypes, QueueTypes, OneRunning

\* What the invariant says of the lists, spelled out once.
LEMMA IInvLists ==
    ASSUME IInv
    PROVE  /\ Lists(ready, InState(READY)) /\ Lists(stopped, InState(STOPPED))
           /\ Lists(sleeping, Asleep)
           /\ \A o \in Slots, q \in Queues : Lists(blocking_queue[o][q], BlockedOn(o, q))
BY DEF IInv, QueueIntegrity

\* A BLOCKED process leaves the list it is in and becomes READY: the effect
\* of a rendezvous on the partner, and of a signal on its target.
LEMMA Unblock ==
    ASSUME IInv, NEW p \in Slots, curr_state[p] = BLOCKED,
           curr_state' = [curr_state EXCEPT ![p] = READY],
           ready' = add_proc_to_queue(ready, p),
           blocking_proc' = [blocking_proc EXCEPT ![p] = NULL],
           blocking_queue_name' = [blocking_queue_name EXCEPT ![p] = NO_BLOCKER],
           sleeping' = IF blocking_queue_name[p] = SLEEP
                       THEN remove_proc_from_queue(sleeping, p) ELSE sleeping,
           blocking_queue' = IF blocking_queue_name[p] \in Queues
                             THEN [blocking_queue EXCEPT
                                     ![blocking_proc[p]][blocking_queue_name[p]] =
                                        remove_proc_from_queue(@, p)]
                             ELSE blocking_queue,
           UNCHANGED <<stopped, currproc>>
    PROVE  IInv'
<1> USE SlotFacts
<1> DEFINE o1 == blocking_proc[p]
           q1 == blocking_queue_name[p]
<1>1. /\ curr_state' \in [Procs -> ProcStates]
      /\ \A x \in Procs : curr_state'[x] = IF x = p THEN READY ELSE curr_state[x]
      /\ blocking_proc' \in [Procs -> Slots \cup {NULL}]
      /\ \A x \in Procs : blocking_proc'[x] = IF x = p THEN NULL ELSE blocking_proc[x]
      /\ blocking_queue_name' \in [Procs -> Blockers]
      /\ \A x \in Procs : blocking_queue_name'[x] = IF x = p THEN NO_BLOCKER
                                                    ELSE blocking_queue_name[x]
  BY IInvTypes DEF ProcStates, Blockers
<1>2. /\ ready' \in Seq(Slots)
      /\ Lists(ready', {x \in Slots : curr_state'[x] = READY})
  <2>1. p \notin InState(READY)
    BY DEF InState
  <2>2. ready \in Seq(Slots) /\ Lists(ready, InState(READY))
    BY IInvTypes, IInvLists
  <2>3. ready' \in Seq(Slots) /\ Lists(ready', InState(READY) \cup {p})
    BY <2>1, <2>2, AddLists
  <2>4. {x \in Slots : curr_state'[x] = READY} = InState(READY) \cup {p}
    BY <1>1 DEF InState
  <2> QED BY <2>3, <2>4
<1>3. stopped' \in Seq(Slots) /\ Lists(stopped', {x \in Slots : curr_state'[x] = STOPPED})
  <2>1. {x \in Slots : curr_state'[x] = STOPPED} = InState(STOPPED)
    BY <1>1 DEF InState
  <2> QED BY <2>1, IInvTypes, IInvLists
<1>4. /\ sleeping' \in Seq(Slots)
      /\ Lists(sleeping', {x \in Slots : curr_state'[x] = BLOCKED
                                           /\ blocking_queue_name'[x] = SLEEP})
  <2> DEFINE S == {x \in Slots : curr_state'[x] = BLOCKED /\ blocking_queue_name'[x] = SLEEP}
  <2>0. sleeping \in Seq(Slots) /\ Lists(sleeping, Asleep)
    BY IInvTypes, IInvLists
  <2>1. CASE q1 = SLEEP
    <3>1. p \in Asleep /\ S = Asleep \ {p}
      BY <2>1, <1>1 DEF Asleep
    <3>2. sleeping' = remove_proc_from_queue(sleeping, p)
      BY <2>1
    <3>3. /\ remove_proc_from_queue(sleeping, p) \in Seq(Slots)
          /\ Lists(remove_proc_from_queue(sleeping, p), Asleep \ {p})
      BY <2>0, <3>1, RemoveLists
    <3> QED BY <3>1, <3>2, <3>3
  <2>2. CASE q1 # SLEEP
    <3>1. S = Asleep
      BY <2>2, <1>1 DEF Asleep
    <3> QED BY <2>0, <2>2, <3>1
  <2> QED BY <2>1, <2>2
<1>5. q1 \in Queues => o1 \in Slots
  BY IInvTypes DEF IInv, BlockersMatchStates
<1>6. q1 \in Queues => /\ remove_proc_from_queue(blocking_queue[o1][q1], p) \in Seq(Slots)
                       /\ Lists(remove_proc_from_queue(blocking_queue[o1][q1], p),
                                BlockedOn(o1, q1) \ {p})
  <2> SUFFICES ASSUME q1 \in Queues
               PROVE  /\ remove_proc_from_queue(blocking_queue[o1][q1], p) \in Seq(Slots)
                      /\ Lists(remove_proc_from_queue(blocking_queue[o1][q1], p),
                               BlockedOn(o1, q1) \ {p})
    OBVIOUS
  <2>1. /\ o1 \in Slots /\ blocking_queue[o1][q1] \in Seq(Slots)
        /\ Lists(blocking_queue[o1][q1], BlockedOn(o1, q1))
    BY <1>5, IInvTypes, IInvLists
  <2>2. p \in BlockedOn(o1, q1)
    BY DEF BlockedOn
  <2> QED BY <2>1, <2>2, RemoveLists
<1>7. /\ blocking_queue' \in [Procs -> [Queues -> Seq(Slots)]]
      /\ \A o \in Procs, q \in Queues :
           blocking_queue'[o][q] = IF q1 \in Queues /\ o = o1 /\ q = q1
                                   THEN remove_proc_from_queue(blocking_queue[o1][q1], p)
                                   ELSE blocking_queue[o][q]
  <2>1. CASE q1 \in Queues
    <3>1. blocking_queue' = [blocking_queue EXCEPT ![o1][q1] =
                               remove_proc_from_queue(blocking_queue[o1][q1], p)]
      BY <2>1
    <3> QED BY <2>1, <3>1, <1>5, <1>6, IInvTypes
  <2>2. CASE q1 \notin Queues
    BY <2>2, IInvTypes
  <2> QED BY <2>1, <2>2
<1>8. ASSUME NEW o \in Slots, NEW q \in Queues
      PROVE  Lists(blocking_queue'[o][q],
                   {x \in Slots : curr_state'[x] = BLOCKED /\ blocking_queue_name'[x] = q
                                    /\ blocking_proc'[x] = o})
  <2> DEFINE S == {x \in Slots : curr_state'[x] = BLOCKED /\ blocking_queue_name'[x] = q
                                    /\ blocking_proc'[x] = o}
  <2>1. CASE q1 \in Queues /\ o = o1 /\ q = q1
    <3>1. S = BlockedOn(o1, q1) \ {p}
      BY <2>1, <1>1 DEF BlockedOn
    <3>2. Lists(blocking_queue'[o][q], BlockedOn(o1, q1) \ {p})
      BY <2>1, <1>6, <1>7
    <3> QED BY <3>1, <3>2
  <2>2. CASE ~(q1 \in Queues /\ o = o1 /\ q = q1)
    <3>1. S = BlockedOn(o, q)
      BY <2>2, <1>1 DEF BlockedOn
    <3>2. Lists(blocking_queue'[o][q], BlockedOn(o, q))
      BY <2>2, <1>7, IInvLists
    <3> QED BY <3>1, <3>2
  <2> QED BY <2>1, <2>2
<1>9. \A x \in Slots :
         /\ curr_state'[x] # BLOCKED => blocking_proc'[x] = NULL
         /\ curr_state'[x] \in {READY, RUNNING} => blocking_queue_name'[x] = NO_BLOCKER
         /\ curr_state'[x] = BLOCKED =>
               /\ blocking_queue_name'[x] # NO_BLOCKER
               /\ blocking_proc'[x] # NULL <=> blocking_queue_name'[x] \in Queues
  BY <1>1 DEF IInv, BlockersMatchStates
<1>10. \A x \in Slots : blocking_proc'[x] # NULL => curr_state'[blocking_proc'[x]] # STOPPED
  <2> SUFFICES ASSUME NEW x \in Slots, blocking_proc'[x] # NULL
               PROVE  curr_state'[blocking_proc'[x]] # STOPPED
    OBVIOUS
  <2>1. x # p /\ blocking_proc'[x] = blocking_proc[x] /\ blocking_proc[x] \in Slots
    BY <1>1, IInvTypes
  <2>2. curr_state[blocking_proc[x]] # STOPPED
    BY <2>1 DEF IInv, NoOrphans
  <2> QED BY <1>1, <2>1, <2>2
<1>11. Prepared(curr_state', blocking_proc', blocking_queue_name', blocking_queue',
                ready', stopped', sleeping')
  BY <1>1, <1>2, <1>3, <1>4, <1>7, <1>8, <1>9, <1>10 DEF Prepared
<1>12. currproc' \in Procs /\ OneRunning'
  BY <1>1, IInvTypes DEF OneRunning
<1> QED BY <1>11, <1>12, IInvIsPreparedNext

\* The running process blocks without joining a list that another process
\* can find it in through a queue: on a device, in a receive from anyone, or,
\* in the list slp, asleep.
LEMMA BlockAlone ==
    ASSUME IInv, currproc # IdleProc, NEW why \in {RECEIVE_ANY, DEVICE, SLEEP},
           blocking_queue_name' = [blocking_queue_name EXCEPT ![currproc] = why],
           blocking_proc' = blocking_proc, blocking_queue' = blocking_queue,
           stopped' = stopped,
           sleeping' \in Seq(Slots),
           Lists(sleeping', IF why = SLEEP THEN Asleep \cup {currproc} ELSE Asleep),
           get_next_proc(ready, [curr_state EXCEPT ![currproc] = BLOCKED])
    PROVE  IInv'
<1> USE SlotFacts
<1> DEFINE me == currproc
           st == [curr_state EXCEPT ![me] = BLOCKED]
<1>1. /\ me \in Slots /\ curr_state[me] = RUNNING /\ blocking_proc[me] = NULL
      /\ \A x \in Procs : curr_state[x] = RUNNING => x = me
  BY IInvTypes DEF IInv, BlockersMatchStates
<1>2. /\ st \in [Procs -> ProcStates]
      /\ \A p \in Procs : st[p] = IF p = me THEN BLOCKED ELSE curr_state[p]
      /\ blocking_queue_name' \in [Procs -> Blockers]
      /\ \A p \in Procs : blocking_queue_name'[p] = IF p = me THEN why ELSE blocking_queue_name[p]
  BY <1>1, IInvTypes DEF ProcStates, Blockers
<1> HIDE DEF st
<1>3. /\ Lists(ready, {p \in Slots : st[p] = READY})
      /\ Lists(stopped', {p \in Slots : st[p] = STOPPED})
  <2>1. /\ {p \in Slots : st[p] = READY} = InState(READY)
        /\ {p \in Slots : st[p] = STOPPED} = InState(STOPPED)
    BY <1>1, <1>2 DEF InState
  <2> QED BY <2>1, IInvLists
<1>4. Lists(sleeping', {p \in Slots : st[p] = BLOCKED /\ blocking_queue_name'[p] = SLEEP})
  <2>1. {p \in Slots : st[p] = BLOCKED /\ blocking_queue_name'[p] = SLEEP}
          = IF why = SLEEP THEN Asleep \cup {me} ELSE Asleep
    BY <1>1, <1>2 DEF Asleep
  <2> QED BY <2>1
<1>5. ASSUME NEW o \in Slots, NEW q \in Queues
      PROVE  Lists(blocking_queue'[o][q],
                   {p \in Slots : st[p] = BLOCKED /\ blocking_queue_name'[p] = q
                                    /\ blocking_proc'[p] = o})
  <2>1. {p \in Slots : st[p] = BLOCKED /\ blocking_queue_name'[p] = q /\ blocking_proc'[p] = o}
          = BlockedOn(o, q)
    BY <1>1, <1>2 DEF BlockedOn, Queues
  <2> QED BY <2>1, IInvLists
<1>6. \A p \in Slots :
         /\ st[p] # BLOCKED => blocking_proc'[p] = NULL
         /\ st[p] \in {READY, RUNNING} => blocking_queue_name'[p] = NO_BLOCKER
         /\ st[p] = BLOCKED => /\ blocking_queue_name'[p] # NO_BLOCKER
                               /\ blocking_proc'[p] # NULL <=> blocking_queue_name'[p] \in Queues
  BY <1>1, <1>2 DEF IInv, BlockersMatchStates, Queues
<1>7. \A p \in Slots : blocking_proc'[p] # NULL => st[blocking_proc'[p]] # STOPPED
  <2> SUFFICES ASSUME NEW p \in Slots, blocking_proc[p] # NULL
               PROVE  st[blocking_proc[p]] # STOPPED
    OBVIOUS
  <2>1. blocking_proc[p] \in Slots /\ curr_state[blocking_proc[p]] # STOPPED
    BY IInvTypes DEF IInv, NoOrphans
  <2> QED BY <2>1, <1>2
<1>8. Prepared(st, blocking_proc', blocking_queue_name', blocking_queue', ready,
               stopped', sleeping')
  <2>1. /\ ready \in Seq(Slots) /\ stopped' \in Seq(Slots)
        /\ blocking_proc' \in [Procs -> Slots \cup {NULL}]
        /\ blocking_queue' \in [Procs -> [Queues -> Seq(Slots)]]
    BY IInvTypes
  <2> QED BY <2>1, <1>2, <1>3, <1>4, <1>5, <1>6, <1>7 DEF Prepared
<1>9. \A p \in Procs : st[p] # RUNNING
  BY <1>1, <1>2
<1> QED BY <1>8, <1>9, GetNextProc DEF st
\* The running process goes to the end of the READY queue, after the sleepers
\* that the clock has just woken: a timer tick, or (nobody woken) a yield.
LEMMA Reschedule ==
    ASSUME IInv, NEW woken \in Seq(Slots), NEW W, Lists(woken, W), W \subseteq Asleep,
           sleeping' \in Seq(Slots), Lists(sleeping', Asleep \ W),
           NEW st \in [Procs -> ProcStates],
           \A p \in Procs : st[p] = IF p = currproc \/ p \in W THEN READY ELSE curr_state[p],
           blocking_queue_name' \in [Procs -> Blockers],
           \A p \in Procs : blocking_queue_name'[p] = IF p \in W THEN NO_BLOCKER
                                                      ELSE blocking_queue_name[p],
           blocking_proc' = blocking_proc, blocking_queue' = blocking_queue,
           stopped' = stopped,
           get_next_proc(enqueue_ready(ready \o woken, currproc), st)
    PROVE  IInv'
<1> USE SlotFacts
<1> DEFINE me == currproc
           r  == enqueue_ready(ready \o woken, me)
<1>1. /\ me \in Procs /\ curr_state[me] = RUNNING
      /\ me \in Slots => blocking_proc[me] = NULL /\ blocking_queue_name[me] = NO_BLOCKER
      /\ \A x \in Procs : curr_state[x] = RUNNING => x = me
  BY IInvTypes DEF IInv, BlockersMatchStates
<1>2. /\ W \subseteq Slots
      /\ \A x \in W : /\ curr_state[x] = BLOCKED /\ blocking_queue_name[x] = SLEEP
                      /\ blocking_proc[x] = NULL
  <2>1. \A x \in W : x \in Slots /\ curr_state[x] = BLOCKED /\ blocking_queue_name[x] = SLEEP
    BY DEF Asleep
  <2> QED BY <2>1 DEF IInv, BlockersMatchStates, Queues
<1>3. /\ r \in Seq(Slots)
      /\ Lists(r, {p \in Slots : st[p] = READY})
  <2>1. InState(READY) \cap W = {}
    BY <1>2 DEF InState
  <2>2. ready \in Seq(Slots) /\ Lists(ready, InState(READY))
    BY IInvTypes, IInvLists
  <2>3. ready \o woken \in Seq(Slots) /\ Lists(ready \o woken, InState(READY) \cup W)
    BY <2>1, <2>2, ConcatLists
  <2>4. CASE me = IdleProc
    <3>1. {p \in Slots : st[p] = READY} = InState(READY) \cup W
      BY <2>4, <1>1, <1>2 DEF InState
    <3>2. r = ready \o woken
      BY <2>4 DEF enqueue_ready
    <3> QED BY <3>1, <3>2, <2>3
  <2>5. CASE me # IdleProc
    <3>1. me \in Slots /\ me \notin InState(READY) \cup W
      BY <2>5, <1>1, <1>2 DEF InState
    <3>2. {p \in Slots : st[p] = READY} = (InState(READY) \cup W) \cup {me}
      BY <3>1, <1>1, <1>2 DEF InState
    <3>3. r = add_proc_to_queue(ready \o woken, me)
      BY <2>5 DEF enqueue_ready
    <3>4. /\ add_proc_to_queue(ready \o woken, me) \in Seq(Slots)
          /\ Lists(add_proc_to_queue(ready \o woken, me), (InState(READY) \cup W) \cup {me})
      BY <2>3, <3>1, AddLists
    <3> QED BY <3>2, <3>3, <3>4
  <2> QED BY <2>4, <2>5
<1>4. Lists(stopped', {p \in Slots : st[p] = STOPPED})
  <2>1. {p \in Slots : st[p] = STOPPED} = InState(STOPPED)
    BY <1>1, <1>2 DEF InState
  <2> QED BY <2>1, IInvLists
<1>5. Lists(sleeping', {p \in Slots : st[p] = BLOCKED /\ blocking_queue_name'[p] = SLEEP})
  <2>1. {p \in Slots : st[p] = BLOCKED /\ blocking_queue_name'[p] = SLEEP} = Asleep \ W
    BY <1>1, <1>2 DEF Asleep
  <2> QED BY <2>1
<1>6. ASSUME NEW o \in Slots, NEW q \in Queues
      PROVE  Lists(blocking_queue'[o][q],
                   {p \in Slots : st[p] = BLOCKED /\ blocking_queue_name'[p] = q
                                    /\ blocking_proc'[p] = o})
  <2>1. {p \in Slots : st[p] = BLOCKED /\ blocking_queue_name'[p] = q /\ blocking_proc'[p] = o}
          = BlockedOn(o, q)
    BY <1>1, <1>2 DEF BlockedOn, Queues
  <2> QED BY <2>1, IInvLists, ZenonT(40)
<1>7. \A p \in Slots :
         /\ st[p] # BLOCKED => blocking_proc'[p] = NULL
         /\ st[p] \in {READY, RUNNING} => blocking_queue_name'[p] = NO_BLOCKER
         /\ st[p] = BLOCKED => /\ blocking_queue_name'[p] # NO_BLOCKER
                               /\ blocking_proc'[p] # NULL <=> blocking_queue_name'[p] \in Queues
  BY <1>1, <1>2 DEF IInv, BlockersMatchStates
<1>8. \A p \in Slots : blocking_proc'[p] # NULL => st[blocking_proc'[p]] # STOPPED
  <2> SUFFICES ASSUME NEW p \in Slots, blocking_proc[p] # NULL
               PROVE  st[blocking_proc[p]] # STOPPED
    OBVIOUS
  <2>1. blocking_proc[p] \in Slots /\ curr_state[blocking_proc[p]] # STOPPED
    BY IInvTypes DEF IInv, NoOrphans
  <2> QED BY <2>1
<1>9. Prepared(st, blocking_proc', blocking_queue_name', blocking_queue', r,
               stopped', sleeping')
  <2>1. /\ stopped' \in Seq(Slots)
        /\ blocking_proc' \in [Procs -> Slots \cup {NULL}]
        /\ blocking_queue' \in [Procs -> [Queues -> Seq(Slots)]]
    BY IInvTypes
  <2> QED BY <2>1, <1>3, <1>4, <1>5, <1>6, <1>7, <1>8 DEF Prepared
<1>10. \A p \in Procs : st[p] # RUNNING
  BY <1>1
<1> QED BY <1>9, <1>10, GetNextProc

\* tick finds at most the sleepers there are.
LEMMA ExpiredRange == ASSUME IInv PROVE expired \in 0..Len(sleeping)
<1> DEFINE T == {i \in 1..Len(sleeping) : ticked(sleeping[i]) > 0} \cup {Len(sleeping) + 1}
<1>1. Len(sleeping) \in Nat
  BY IInvTypes
<1>2. T \subseteq 1..(Len(sleeping) + 1) /\ T # {}
  BY <1>1
<1>3. Min(T) \in T
  BY <1>2, MinInSet
<1> QED BY <1>1, <1>2, <1>3 DEF expired

\* The clock: tick() wakes a prefix of the delta list.
LEMMA TimerStep ==
    IInv /\ timer_handler => IInv'
<1> SUFFICES ASSUME IInv, timer_handler PROVE IInv'
  OBVIOUS
<1> USE SlotFacts
<1> DEFINE woken == SubSeq(sleeping, 1, expired)
           rest  == SubSeq(sleeping, expired + 1, Len(sleeping))
           st    == [p \in Procs |-> IF p = currproc \/ p \in ToSet(woken) THEN READY
                                     ELSE curr_state[p]]
<1>1. sleeping \in Seq(Slots) /\ Len(sleeping) \in Nat /\ Lists(sleeping, Asleep)
  BY IInvTypes, IInvLists
<1>2. expired \in 0..Len(sleeping)
  BY ExpiredRange
<1>3. /\ woken \in Seq(Slots) /\ ToSet(woken) \subseteq Asleep /\ Lists(woken, ToSet(woken))
      /\ rest \in Seq(Slots) /\ Lists(rest, Asleep \ ToSet(woken))
  BY <1>1, <1>2, CutLists
<1>4. CASE halted' = TRUE /\ UNCHANGED <<pcbVars, listVars>>
  BY <1>4, StructUnchanged DEF pcbVars, listVars, structVars
<1>5. CASE /\ sleeping' = rest
           /\ blocking_queue_name' = [p \in Procs |-> IF p \in ToSet(woken) THEN NO_BLOCKER
                                                      ELSE blocking_queue_name[p]]
           /\ get_next_proc(enqueue_ready(ready \o woken, currproc), st)
           /\ UNCHANGED <<blocking_proc, blocking_queue, stopped>>
  <2>1. /\ blocking_queue_name' \in [Procs -> Blockers]
        /\ \A p \in Procs : blocking_queue_name'[p] = IF p \in ToSet(woken) THEN NO_BLOCKER
                                                      ELSE blocking_queue_name[p]
    BY <1>5, IInvTypes DEF Blockers
  <2>2. /\ st \in [Procs -> ProcStates]
        /\ \A p \in Procs : st[p] = IF p = currproc \/ p \in ToSet(woken) THEN READY
                                    ELSE curr_state[p]
    BY IInvTypes DEF ProcStates
  <2> HIDE DEF woken, rest, st
  <2>3. /\ sleeping' \in Seq(Slots) /\ Lists(sleeping', Asleep \ ToSet(woken))
        /\ blocking_proc' = blocking_proc /\ blocking_queue' = blocking_queue
        /\ stopped' = stopped
        /\ get_next_proc(enqueue_ready(ready \o woken, currproc), st)
    BY <1>3, <1>5
  <2> QED BY <1>3, <2>1, <2>2, <2>3, Reschedule
<1> QED BY <1>4, <1>5 DEF timer_handler, Asserting

\* sysyield
LEMMA YieldStep ==
    IInv /\ syscall_yield => IInv'
<1> SUFFICES ASSUME IInv, syscall_yield PROVE IInv'
  OBVIOUS
<1> USE SlotFacts
<1> DEFINE st    == [curr_state EXCEPT ![currproc] = READY]
           woken == <<>>
           none  == {}
<1>1. /\ currproc # IdleProc
      /\ get_next_proc(add_proc_to_queue(ready, currproc), st)
      /\ blocking_proc' = blocking_proc /\ blocking_queue' = blocking_queue
      /\ blocking_queue_name' = blocking_queue_name
      /\ stopped' = stopped /\ sleeping' = sleeping
  BY DEF syscall_yield, Syscall
<1>2. /\ st \in [Procs -> ProcStates]
      /\ \A p \in Procs : st[p] = IF p = currproc \/ p \in none THEN READY ELSE curr_state[p]
  BY IInvTypes DEF ProcStates
<1>3. /\ woken \in Seq(Slots) /\ Lists(woken, none) /\ none \subseteq Asleep
      /\ sleeping' \in Seq(Slots) /\ Lists(sleeping', Asleep \ none)
  <2>1. Asleep \ none = Asleep
    OBVIOUS
  <2> QED BY <1>1, <2>1, ListsEmpty, IInvTypes, IInvLists
<1>4. get_next_proc(enqueue_ready(ready \o woken, currproc), st)
  <2>1. ready \o woken = ready
    BY IInvTypes
  <2> QED BY <1>1, <2>1 DEF enqueue_ready
<1>5. /\ blocking_queue_name' \in [Procs -> Blockers]
      /\ \A p \in Procs : blocking_queue_name'[p] = IF p \in none THEN NO_BLOCKER
                                                    ELSE blocking_queue_name[p]
  BY <1>1, IInvTypes
<1> HIDE DEF st, woken, none
<1> QED BY <1>1, <1>2, <1>3, <1>4, <1>5, Reschedule

\* The place found for a sleeper is in the delta list or just after it.
LEMMA InsertRange ==
    ASSUME IInv, NEW time
    PROVE  insert_position(time) \in 1..(Len(sleeping) + 1)
<1> DEFINE T == {k \in 1..Len(sleeping) : time <= ticks_until[k]} \cup {Len(sleeping) + 1}
<1>1. T \subseteq 1..(Len(sleeping) + 1) /\ T # {}
  BY IInvTypes
<1>2. Min(T) \in T
  BY <1>1, MinInSet
<1> QED BY <1>1, <1>2 DEF insert_position

\* syssleep: the running process is inserted somewhere in the delta list.
LEMMA SleepStep ==
    ASSUME IInv, currproc # IdleProc, NEW milliseconds, sleep(milliseconds)
    PROVE  IInv'
<1> USE SlotFacts
<1> DEFINE i == insert_position(ticks(milliseconds))
<1>1. /\ sleeping \in Seq(Slots) /\ Len(sleeping) \in Nat /\ Lists(sleeping, Asleep)
      /\ currproc \in Slots /\ currproc \notin Asleep /\ blocking_proc[currproc] = NULL
  BY IInvTypes, IInvLists DEF Asleep, IInv, BlockersMatchStates
<1>2. i \in 1..(Len(sleeping) + 1)
  BY InsertRange
<1>3. /\ sleeping' = InsertAt(sleeping, i, currproc)
      /\ blocking_queue_name' = [blocking_queue_name EXCEPT ![currproc] = SLEEP]
      /\ blocking_proc' = [blocking_proc EXCEPT ![currproc] = NULL]
      /\ get_next_proc(ready, [curr_state EXCEPT ![currproc] = BLOCKED])
      /\ blocking_queue' = blocking_queue /\ stopped' = stopped
  BY DEF sleep
<1> HIDE DEF i
<1>4. /\ InsertAt(sleeping, i, currproc) \in Seq(Slots)
      /\ Lists(InsertAt(sleeping, i, currproc), Asleep \cup {currproc})
  BY <1>1, <1>2, InsertLists
<1>5. blocking_proc' = blocking_proc
  BY <1>1, <1>3, IInvTypes
<1>6. /\ sleeping' \in Seq(Slots)
      /\ Lists(sleeping', IF SLEEP = SLEEP THEN Asleep \cup {currproc} ELSE Asleep)
  BY <1>3, <1>4
<1>7. SLEEP \in {RECEIVE_ANY, DEVICE, SLEEP}
  OBVIOUS
<1> HIDE DEF SLEEP
<1> QED BY <1>3, <1>5, <1>6, <1>7, BlockAlone

-----------------------------------------------------------------------------
\* syscreate: the first STOPPED pcb becomes a READY process.  Nobody is in
\* the queues it still owns from its last life, because nobody is blocked on
\* a STOPPED pcb.
LEMMA CreateStep ==
    ASSUME IInv, create
    PROVE  IInv'
<1> USE SlotFacts
<1> DEFINE proc == Head(stopped)
<1>1. CASE UNCHANGED <<pcbVars, listVars>>
  BY <1>1, StructUnchanged DEF pcbVars, listVars, structVars
<1>2. CASE /\ stopped' = Tail(stopped)
           /\ ready' = add_proc_to_queue(ready, proc)
           /\ curr_state' = [curr_state EXCEPT ![proc] = READY]
           /\ blocking_proc' = [blocking_proc EXCEPT ![proc] = NULL]
           /\ blocking_queue_name' = [blocking_queue_name EXCEPT ![proc] = NO_BLOCKER]
           /\ blocking_queue' = [blocking_queue EXCEPT ![proc] = EmptyQueues]
           /\ UNCHANGED <<sleeping, currproc>>
  <2>1. /\ proc \in InState(STOPPED) /\ Tail(stopped) \in Seq(Slots)
        /\ Lists(Tail(stopped), InState(STOPPED) \ {proc})
    BY IInvTypes, IInvLists, PopLists DEF create
  <2>2. proc \in Slots /\ curr_state[proc] = STOPPED
    BY <2>1 DEF InState
  <2> HIDE DEF proc
  <2>3. /\ curr_state' \in [Procs -> ProcStates]
        /\ \A x \in Procs : curr_state'[x] = IF x = proc THEN READY ELSE curr_state[x]
        /\ blocking_proc' \in [Procs -> Slots \cup {NULL}]
        /\ \A x \in Procs : blocking_proc'[x] = IF x = proc THEN NULL ELSE blocking_proc[x]
        /\ blocking_queue_name' \in [Procs -> Blockers]
        /\ \A x \in Procs : blocking_queue_name'[x] = IF x = proc THEN NO_BLOCKER
                                                      ELSE blocking_queue_name[x]
    BY <1>2, <2>2, IInvTypes DEF ProcStates, Blockers
  <2>4. /\ blocking_queue' \in [Procs -> [Queues -> Seq(Slots)]]
        /\ \A o \in Procs, q \in Queues :
             blocking_queue'[o][q] = IF o = proc THEN <<>> ELSE blocking_queue[o][q]
    <3>1. EmptyQueues \in [Queues -> Seq(Slots)] /\ \A q \in Queues : EmptyQueues[q] = <<>>
      BY DEF EmptyQueues
    <3> QED BY <1>2, <2>2, <3>1, IInvTypes
  <2>5. /\ ready' \in Seq(Slots) /\ Lists(ready', {x \in Slots : curr_state'[x] = READY})
    <3>1. {x \in Slots : curr_state'[x] = READY} = InState(READY) \cup {proc}
      BY <2>2, <2>3 DEF InState
    <3>2. proc \notin InState(READY)
      BY <2>2 DEF InState
    <3>3. /\ add_proc_to_queue(ready, proc) \in Seq(Slots)
          /\ Lists(add_proc_to_queue(ready, proc), InState(READY) \cup {proc})
      BY <2>2, <3>2, IInvTypes, IInvLists, AddLists
    <3> QED BY <1>2, <3>1, <3>3
  <2>6. stopped' \in Seq(Slots) /\ Lists(stopped', {x \in Slots : curr_state'[x] = STOPPED})
    <3>1. {x \in Slots : curr_state'[x] = STOPPED} = InState(STOPPED) \ {proc}
      BY <2>2, <2>3 DEF InState
    <3> QED BY <1>2, <2>1, <3>1
  <2>7. Lists(sleeping', {x \in Slots : curr_state'[x] = BLOCKED
                                          /\ blocking_queue_name'[x] = SLEEP})
    <3>1. {x \in Slots : curr_state'[x] = BLOCKED /\ blocking_queue_name'[x] = SLEEP} = Asleep
      BY <2>2, <2>3 DEF Asleep
    <3> QED BY <1>2, <3>1, IInvLists
  <2>8. ASSUME NEW o \in Slots, NEW q \in Queues
        PROVE  Lists(blocking_queue'[o][q],
                     {x \in Slots : curr_state'[x] = BLOCKED /\ blocking_queue_name'[x] = q
                                      /\ blocking_proc'[x] = o})
    <3> DEFINE S == {x \in Slots : curr_state'[x] = BLOCKED /\ blocking_queue_name'[x] = q
                                      /\ blocking_proc'[x] = o}
    <3>1. CASE o = proc
      <4>1. S = {}
        BY <3>1, <2>2, <2>3 DEF IInv, NoOrphans
      <4> QED BY <4>1, <3>1, <2>4, ListsEmpty
    <3>2. CASE o # proc
      <4>1. S = BlockedOn(o, q)
        BY <2>2, <2>3 DEF BlockedOn
      <4>2. Lists(blocking_queue'[o][q], BlockedOn(o, q))
        BY <3>2, <2>4, IInvLists
      <4> QED BY <4>1, <4>2
    <3> QED BY <3>1, <3>2
  <2>9. \A x \in Slots :
           /\ curr_state'[x] # BLOCKED => blocking_proc'[x] = NULL
           /\ curr_state'[x] \in {READY, RUNNING} => blocking_queue_name'[x] = NO_BLOCKER
           /\ curr_state'[x] = BLOCKED =>
                 /\ blocking_queue_name'[x] # NO_BLOCKER
                 /\ blocking_proc'[x] # NULL <=> blocking_queue_name'[x] \in Queues
    BY <2>3 DEF IInv, BlockersMatchStates
  <2>10. \A x \in Slots : blocking_proc'[x] # NULL => curr_state'[blocking_proc'[x]] # STOPPED
    <3> SUFFICES ASSUME NEW x \in Slots, blocking_proc'[x] # NULL
                 PROVE  curr_state'[blocking_proc'[x]] # STOPPED
      OBVIOUS
    <3>1. blocking_proc'[x] = blocking_proc[x] /\ blocking_proc[x] \in Slots
      BY <2>3, IInvTypes
    <3>2. curr_state[blocking_proc[x]] # STOPPED
      BY <3>1 DEF IInv, NoOrphans
    <3> QED BY <2>3, <3>1, <3>2
  <2>11. Prepared(curr_state', blocking_proc', blocking_queue_name', blocking_queue',
                  ready', stopped', sleeping')
    <3>1. sleeping' \in Seq(Slots)
      BY <1>2, IInvTypes
    <3> QED BY <3>1, <2>3, <2>4, <2>5, <2>6, <2>7, <2>8, <2>9, <2>10 DEF Prepared
  <2>12. currproc' \in Procs /\ OneRunning'
    BY <1>2, <2>2, <2>3, IInvTypes DEF OneRunning
  <2> QED BY <2>11, <2>12, IInvIsPreparedNext
<1> QED BY <1>1, <1>2 DEF create, Asserting

\* syscreate without memory for the signal table: the pcb goes to the end of
\* the STOPPED queue, cleared.
LEMMA CreateFailsStep ==
    ASSUME IInv, create_without_table
    PROVE  IInv'
<1> USE SlotFacts
<1> DEFINE proc == Head(stopped)
<1>0. /\ stopped # <<>>
      /\ stopped' = add_proc_to_queue(Tail(stopped), proc)
      /\ blocking_proc' = [blocking_proc EXCEPT ![proc] = NULL]
      /\ blocking_queue_name' = [blocking_queue_name EXCEPT ![proc] = SENDER]
      /\ blocking_queue' = [blocking_queue EXCEPT ![proc] = EmptyQueues]
      /\ curr_state' = curr_state /\ ready' = ready /\ sleeping' = sleeping
      /\ currproc' = currproc
  BY DEF create_without_table
<1>1. /\ proc \in InState(STOPPED) /\ Tail(stopped) \in Seq(Slots)
      /\ Lists(Tail(stopped), InState(STOPPED) \ {proc})
  BY <1>0, IInvTypes, IInvLists, PopLists
<1>2. proc \in Slots /\ curr_state[proc] = STOPPED /\ blocking_proc[proc] = NULL
  BY <1>1 DEF InState, IInv, BlockersMatchStates
<1> HIDE DEF proc
<1>3. blocking_proc' = blocking_proc
  BY <1>0, <1>2, IInvTypes
<1>4. /\ blocking_queue_name' \in [Procs -> Blockers]
      /\ \A x \in Procs : x # proc => blocking_queue_name'[x] = blocking_queue_name[x]
  BY <1>0, <1>2, IInvTypes DEF Blockers, Queues
<1>5. \A o \in Slots, q \in Queues : o = proc => blocking_queue[o][q] = <<>>
  <2> SUFFICES ASSUME NEW q \in Queues PROVE blocking_queue[proc][q] = <<>>
    OBVIOUS
  <2>1. BlockedOn(proc, q) = {}
    BY <1>2 DEF BlockedOn, IInv, NoOrphans
  <2>2. /\ blocking_queue[proc][q] \in Seq(Slots)
        /\ Lists(blocking_queue[proc][q], BlockedOn(proc, q))
    BY <1>2, IInvTypes, IInvLists
  <2> QED BY <2>1, <2>2, EmptyLists
<1>6. /\ blocking_queue' \in [Procs -> [Queues -> Seq(Slots)]]
      /\ \A o \in Slots, q \in Queues : blocking_queue'[o][q] = blocking_queue[o][q]
  <2>1. EmptyQueues \in [Queues -> Seq(Slots)] /\ \A q \in Queues : EmptyQueues[q] = <<>>
    BY DEF EmptyQueues
  <2> QED BY <1>0, <1>2, <1>5, <2>1, IInvTypes
<1>7. stopped' \in Seq(Slots) /\ Lists(stopped', InState(STOPPED))
  <2>1. (InState(STOPPED) \ {proc}) \cup {proc} = InState(STOPPED)
    BY <1>1
  <2>2. proc \notin InState(STOPPED) \ {proc}
    OBVIOUS
  <2>3. /\ add_proc_to_queue(Tail(stopped), proc) \in Seq(Slots)
        /\ Lists(add_proc_to_queue(Tail(stopped), proc), (InState(STOPPED) \ {proc}) \cup {proc})
    BY <1>1, <1>2, <2>2, AddLists
  <2> QED BY <1>0, <2>1, <2>3
<1>8. /\ {x \in Slots : curr_state'[x] = BLOCKED /\ blocking_queue_name'[x] = SLEEP} = Asleep
      /\ \A o \in Slots, q \in Queues :
           {x \in Slots : curr_state'[x] = BLOCKED /\ blocking_queue_name'[x] = q
                            /\ blocking_proc'[x] = o} = BlockedOn(o, q)
      /\ {x \in Slots : curr_state'[x] = READY} = InState(READY)
      /\ {x \in Slots : curr_state'[x] = STOPPED} = InState(STOPPED)
  BY <1>0, <1>2, <1>3, <1>4 DEF Asleep, BlockedOn, InState
<1>9. \A x \in Slots :
         /\ curr_state'[x] # BLOCKED => blocking_proc'[x] = NULL
         /\ curr_state'[x] \in {READY, RUNNING} => blocking_queue_name'[x] = NO_BLOCKER
         /\ curr_state'[x] = BLOCKED =>
               /\ blocking_queue_name'[x] # NO_BLOCKER
               /\ blocking_proc'[x] # NULL <=> blocking_queue_name'[x] \in Queues
  BY <1>0, <1>2, <1>3, <1>4 DEF IInv, BlockersMatchStates
<1>10. \A x \in Slots : blocking_proc'[x] # NULL => curr_state'[blocking_proc'[x]] # STOPPED
  BY <1>0, <1>3 DEF IInv, NoOrphans
<1>11. ASSUME NEW o \in Slots, NEW q \in Queues
       PROVE  Lists(blocking_queue'[o][q],
                   {x \in Slots : curr_state'[x] = BLOCKED /\ blocking_queue_name'[x] = q
                                    /\ blocking_proc'[x] = o})
  <2>1. /\ {x \in Slots : curr_state'[x] = BLOCKED /\ blocking_queue_name'[x] = q
                            /\ blocking_proc'[x] = o} = BlockedOn(o, q)
        /\ blocking_queue'[o][q] = blocking_queue[o][q]
    BY <1>6, <1>8
  <2>2. Lists(blocking_queue[o][q], BlockedOn(o, q))
    BY IInvLists
  <2> QED BY <2>1, <2>2
<1>12. Prepared(curr_state', blocking_proc', blocking_queue_name', blocking_queue',
                ready', stopped', sleeping')
  <2>1. /\ Lists(ready', {x \in Slots : curr_state'[x] = READY})
        /\ Lists(stopped', {x \in Slots : curr_state'[x] = STOPPED})
        /\ Lists(sleeping', {x \in Slots : curr_state'[x] = BLOCKED
                                             /\ blocking_queue_name'[x] = SLEEP})
    BY <1>0, <1>7, <1>8, IInvLists
  <2>2. /\ curr_state' \in [Procs -> ProcStates]
        /\ blocking_proc' \in [Procs -> Slots \cup {NULL}]
        /\ ready' \in Seq(Slots) /\ sleeping' \in Seq(Slots)
    BY <1>0, <1>3, IInvTypes
  <2> QED BY <2>1, <2>2, <1>4, <1>6, <1>7, <1>9, <1>10, <1>11 DEF Prepared
<1>13. currproc' \in Procs /\ OneRunning'
  BY <1>0, IInvTypes DEF OneRunning
<1> QED BY <1>12, <1>13, IInvIsPreparedNext
-----------------------------------------------------------------------------
\* cleanup_proc: everyone blocked on the dying process becomes READY, and the
\* pcb joins the STOPPED queue with nobody blocked on it.
LEMMA CleanupStep ==
    ASSUME IInv, currproc # IdleProc, cleanup_proc
    PROVE  IInv'
<1> USE SlotFacts
<1> DEFINE me == currproc
           notified == UNION {ToSet(blocking_queue[me][q]) : q \in Queues}
           r == ((ready \o blocking_queue[me][SENDER]) \o blocking_queue[me][RECEIVER])
                  \o blocking_queue[me][WAITING]
           st == [w \in Procs |-> IF w = me THEN STOPPED
                                  ELSE IF w \in notified THEN READY ELSE curr_state[w]]
<1>1. CASE UNCHANGED <<pcbVars, listVars>>
  BY <1>1, StructUnchanged DEF pcbVars, listVars, structVars
<1>2. CASE /\ get_next_proc(r, st)
           /\ stopped' = add_proc_to_queue(stopped, me)
           /\ blocking_proc' = [w \in Procs |-> IF w \in notified THEN NULL
                                                ELSE blocking_proc[w]]
           /\ blocking_queue_name' = [w \in Procs |-> IF w \in notified THEN NO_BLOCKER
                                                      ELSE blocking_queue_name[w]]
           /\ blocking_queue' = [blocking_queue EXCEPT ![me] = EmptyQueues]
           /\ sleeping' = sleeping
  <2>1. /\ me \in Slots /\ curr_state[me] = RUNNING /\ blocking_proc[me] = NULL
        /\ \A x \in Procs : curr_state[x] = RUNNING => x = me
    BY IInvTypes DEF IInv, BlockersMatchStates
  <2>2. \A q \in Queues : /\ blocking_queue[me][q] \in Seq(Slots)
                          /\ Lists(blocking_queue[me][q], BlockedOn(me, q))
                          /\ ToSet(blocking_queue[me][q]) = BlockedOn(me, q)
    BY <2>1, IInvTypes, IInvLists DEF Lists
  <2>3. notified = {p \in Slots : curr_state[p] = BLOCKED /\ blocking_proc[p] = me}
    <3>1. ASSUME NEW p \in notified
          PROVE  p \in Slots /\ curr_state[p] = BLOCKED /\ blocking_proc[p] = me
      <4>1. PICK q \in Queues : p \in ToSet(blocking_queue[me][q])
        OBVIOUS
      <4> QED BY <4>1, <2>2 DEF BlockedOn
    <3>2. ASSUME NEW p \in Slots, curr_state[p] = BLOCKED, blocking_proc[p] = me
          PROVE  p \in notified
      <4>1. blocking_queue_name[p] \in Queues
        BY <2>1, <3>2 DEF IInv, BlockersMatchStates
      <4>2. p \in ToSet(blocking_queue[me][blocking_queue_name[p]])
        BY <4>1, <2>2, <3>2 DEF BlockedOn
      <4> QED BY <4>1, <4>2
    <3> QED BY <3>1, <3>2
  <2>4. InState(READY) \cup BlockedOn(me, SENDER) \cup BlockedOn(me, RECEIVER)
            \cup BlockedOn(me, WAITING) = InState(READY) \cup notified
    <3>1. notified = BlockedOn(me, SENDER) \cup BlockedOn(me, RECEIVER) \cup BlockedOn(me, WAITING)
      <4>1. ASSUME NEW p \in notified
            PROVE  p \in BlockedOn(me, SENDER) \cup BlockedOn(me, RECEIVER)
                           \cup BlockedOn(me, WAITING)
        <5>1. /\ p \in Slots /\ curr_state[p] = BLOCKED /\ blocking_proc[p] = me
          BY <2>3
        <5>2. blocking_queue_name[p] \in Queues
          BY <2>1, <5>1 DEF IInv, BlockersMatchStates
        <5> QED BY <5>1, <5>2 DEF BlockedOn, Queues
      <4>2. BlockedOn(me, SENDER) \cup BlockedOn(me, RECEIVER) \cup BlockedOn(me, WAITING)
              \subseteq notified
        BY <2>3 DEF BlockedOn
      <4> QED BY <4>1, <4>2
    <3> QED BY <3>1
  <2> HIDE DEF notified
  <2>5. r \in Seq(Slots) /\ Lists(r, InState(READY) \cup notified)
    <3>0. SENDER \in Queues /\ RECEIVER \in Queues /\ WAITING \in Queues
      BY DEF Queues
    <3>1. /\ ready \o blocking_queue[me][SENDER] \in Seq(Slots)
          /\ Lists(ready \o blocking_queue[me][SENDER], InState(READY) \cup BlockedOn(me, SENDER))
      <4>1. InState(READY) \cap BlockedOn(me, SENDER) = {}
        BY DEF InState, BlockedOn
      <4>2. /\ ready \in Seq(Slots) /\ Lists(ready, InState(READY))
            /\ blocking_queue[me][SENDER] \in Seq(Slots)
            /\ Lists(blocking_queue[me][SENDER], BlockedOn(me, SENDER))
        BY <3>0, <2>2, IInvTypes, IInvLists
      <4> QED BY <4>1, <4>2, ConcatLists
    <3>2. /\ (ready \o blocking_queue[me][SENDER]) \o blocking_queue[me][RECEIVER] \in Seq(Slots)
          /\ Lists((ready \o blocking_queue[me][SENDER]) \o blocking_queue[me][RECEIVER],
                   (InState(READY) \cup BlockedOn(me, SENDER)) \cup BlockedOn(me, RECEIVER))
      <4>1. (InState(READY) \cup BlockedOn(me, SENDER)) \cap BlockedOn(me, RECEIVER) = {}
        BY DEF InState, BlockedOn
      <4>2. /\ blocking_queue[me][RECEIVER] \in Seq(Slots)
            /\ Lists(blocking_queue[me][RECEIVER], BlockedOn(me, RECEIVER))
        BY <3>0, <2>2
      <4> QED BY <3>1, <4>1, <4>2, ConcatLists
    <3>3. /\ r \in Seq(Slots)
          /\ Lists(r, ((InState(READY) \cup BlockedOn(me, SENDER)) \cup BlockedOn(me, RECEIVER))
                        \cup BlockedOn(me, WAITING))
      <4>1. ((InState(READY) \cup BlockedOn(me, SENDER)) \cup BlockedOn(me, RECEIVER))
               \cap BlockedOn(me, WAITING) = {}
        BY DEF InState, BlockedOn
      <4>2. /\ blocking_queue[me][WAITING] \in Seq(Slots)
            /\ Lists(blocking_queue[me][WAITING], BlockedOn(me, WAITING))
        BY <3>0, <2>2
      <4> QED BY <3>2, <4>1, <4>2, ConcatLists
    <3> QED BY <3>3, <2>4
  <2>6. /\ st \in [Procs -> ProcStates]
        /\ \A w \in Procs : st[w] = IF w = me THEN STOPPED
                                    ELSE IF w \in notified THEN READY ELSE curr_state[w]
        /\ blocking_proc' \in [Procs -> Slots \cup {NULL}]
        /\ \A w \in Procs : blocking_proc'[w] = IF w \in notified THEN NULL ELSE blocking_proc[w]
        /\ blocking_queue_name' \in [Procs -> Blockers]
        /\ \A w \in Procs : blocking_queue_name'[w] = IF w \in notified THEN NO_BLOCKER
                                                      ELSE blocking_queue_name[w]
    BY <1>2, IInvTypes DEF ProcStates, Blockers
  <2> HIDE DEF st, r
  <2>7. me \notin notified /\ notified \subseteq Slots
    BY <2>1, <2>3
  <2>8. Lists(r, {p \in Slots : st[p] = READY})
    <3>1. {p \in Slots : st[p] = READY} = InState(READY) \cup notified
      BY <2>1, <2>6, <2>7 DEF InState
    <3> QED BY <3>1, <2>5
  <2>9. stopped' \in Seq(Slots) /\ Lists(stopped', {p \in Slots : st[p] = STOPPED})
    <3>1. {p \in Slots : st[p] = STOPPED} = InState(STOPPED) \cup {me}
      BY <2>1, <2>3, <2>6 DEF InState
    <3>2. me \notin InState(STOPPED)
      BY <2>1 DEF InState
    <3>3. /\ add_proc_to_queue(stopped, me) \in Seq(Slots)
          /\ Lists(add_proc_to_queue(stopped, me), InState(STOPPED) \cup {me})
      BY <2>1, <3>2, IInvTypes, IInvLists, AddLists
    <3> QED BY <1>2, <3>1, <3>3
  <2>10. Lists(sleeping', {p \in Slots : st[p] = BLOCKED /\ blocking_queue_name'[p] = SLEEP})
    <3>1. \A p \in Slots : curr_state[p] = BLOCKED /\ blocking_queue_name[p] = SLEEP
                             => p \notin notified
      BY <2>1, <2>3 DEF IInv, BlockersMatchStates, Queues
    <3>2. {p \in Slots : st[p] = BLOCKED /\ blocking_queue_name'[p] = SLEEP} = Asleep
      BY <2>1, <2>6, <3>1 DEF Asleep
    <3> QED BY <1>2, <3>2, IInvLists
  <2>11. /\ blocking_queue' \in [Procs -> [Queues -> Seq(Slots)]]
         /\ \A o \in Procs, q \in Queues :
              blocking_queue'[o][q] = IF o = me THEN <<>> ELSE blocking_queue[o][q]
    <3>1. EmptyQueues \in [Queues -> Seq(Slots)] /\ \A q \in Queues : EmptyQueues[q] = <<>>
      BY DEF EmptyQueues
    <3> QED BY <1>2, <2>1, <3>1, IInvTypes
  <2>12. ASSUME NEW o \in Slots, NEW q \in Queues
         PROVE  Lists(blocking_queue'[o][q],
                      {p \in Slots : st[p] = BLOCKED /\ blocking_queue_name'[p] = q
                                       /\ blocking_proc'[p] = o})
    <3> DEFINE S == {p \in Slots : st[p] = BLOCKED /\ blocking_queue_name'[p] = q
                                       /\ blocking_proc'[p] = o}
    <3>1. CASE o = me
      <4>1. S = {}
        BY <3>1, <2>1, <2>3, <2>6
      <4> QED BY <3>1, <4>1, <2>11, ListsEmpty
    <3>2. CASE o # me
      <4>1. S = BlockedOn(o, q)
        BY <3>2, <2>1, <2>3, <2>6 DEF BlockedOn
      <4>2. Lists(blocking_queue'[o][q], BlockedOn(o, q))
        BY <3>2, <2>11, IInvLists
      <4> QED BY <4>1, <4>2
    <3> QED BY <3>1, <3>2
  <2>13. \A p \in Slots :
            /\ st[p] # BLOCKED => blocking_proc'[p] = NULL
            /\ st[p] \in {READY, RUNNING} => blocking_queue_name'[p] = NO_BLOCKER
            /\ st[p] = BLOCKED =>
                  /\ blocking_queue_name'[p] # NO_BLOCKER
                  /\ blocking_proc'[p] # NULL <=> blocking_queue_name'[p] \in Queues
    BY <2>1, <2>6 DEF IInv, BlockersMatchStates
  <2>14. \A p \in Slots : blocking_proc'[p] # NULL => st[blocking_proc'[p]] # STOPPED
    <3> SUFFICES ASSUME NEW p \in Slots, blocking_proc'[p] # NULL
                 PROVE  st[blocking_proc'[p]] # STOPPED
      OBVIOUS
    <3>1. /\ p \notin notified /\ blocking_proc'[p] = blocking_proc[p]
          /\ blocking_proc[p] \in Slots
      BY <2>6, IInvTypes
    <3>2. curr_state[p] = BLOCKED
      BY <3>1 DEF IInv, BlockersMatchStates
    <3>3. blocking_proc[p] # me
      BY <3>1, <3>2, <2>3
    <3>4. curr_state[blocking_proc[p]] # STOPPED
      BY <3>1 DEF IInv, NoOrphans
    <3> QED BY <3>1, <3>3, <3>4, <2>6
  <2>15. Prepared(st, blocking_proc', blocking_queue_name', blocking_queue', r,
                  stopped', sleeping')
    <3>1. sleeping' \in Seq(Slots)
      BY <1>2, IInvTypes
    <3> QED BY <3>1, <2>5, <2>6, <2>8, <2>9, <2>10, <2>11, <2>12, <2>13, <2>14 DEF Prepared
  <2>16. \A p \in Procs : st[p] # RUNNING
    BY <2>1, <2>6
  <2> QED BY <1>2, <2>15, <2>16, GetNextProc
<1> QED BY <1>1, <1>2 DEF cleanup_proc, Asserting, notify_blocked_procs

-----------------------------------------------------------------------------
\* A rendezvous makes the partner READY.
LEMMA SendStep ==
    ASSUME IInv, NEW dest \in Slots, curr_state[dest] # STOPPED, currproc # IdleProc,
           NEW message, send_now(dest, message) \/ send_blocks(dest, message)
    PROVE  IInv'
<1> USE SlotFacts
<1>1. CASE send_blocks(dest, message)
  <2>1. block_on(dest, SENDER, SYSPID_DNE) /\ UNCHANGED <<stopped, sleeping>>
    BY <1>1 DEF send_blocks
  <2>2. SENDER \in Queues
    BY DEF Queues
  <2> HIDE DEF SENDER
  <2> QED BY <2>1, <2>2, BlockOn
<1>2. CASE send_now(dest, message)
  <2>1. CASE UNCHANGED <<pcbVars, listVars>>
    BY <2>1, StructUnchanged DEF pcbVars, listVars, structVars
  <2> DEFINE any == blocking_queue_name[dest] = RECEIVE_ANY
  <2>2. CASE /\ curr_state[dest] = BLOCKED
             /\ blocking_queue' = IF any THEN blocking_queue
                                  ELSE [blocking_queue EXCEPT ![currproc][RECEIVER] =
                                            remove_proc_from_queue(@, dest)]
             /\ blocking_proc' = [blocking_proc EXCEPT ![dest] = IF any THEN @ ELSE NULL]
             /\ blocking_queue_name' = [blocking_queue_name EXCEPT ![dest] = NO_BLOCKER]
             /\ curr_state' = [curr_state EXCEPT ![dest] = READY]
             /\ ready' = add_proc_to_queue(ready, dest)
             /\ stopped' = stopped /\ sleeping' = sleeping /\ currproc' = currproc
    <3>1. any \/ (blocking_proc[dest] = currproc /\ blocking_queue_name[dest] = RECEIVER)
      BY <1>2 DEF send_now, receiver_waits, blocked_in
    <3>2. blocking_proc' = [blocking_proc EXCEPT ![dest] = NULL]
      <4>1. any => blocking_proc[dest] = NULL
        BY <2>2 DEF IInv, BlockersMatchStates, Queues
      <4> QED BY <2>2, <4>1, IInvTypes
    <3>3. sleeping' = IF blocking_queue_name[dest] = SLEEP
                      THEN remove_proc_from_queue(sleeping, dest) ELSE sleeping
      BY <2>2, <3>1
    <3>4. blocking_queue' = IF blocking_queue_name[dest] \in Queues
                            THEN [blocking_queue EXCEPT
                                    ![blocking_proc[dest]][blocking_queue_name[dest]] =
                                       remove_proc_from_queue(@, dest)]
                            ELSE blocking_queue
      BY <2>2, <3>1 DEF Queues
    <3>5. UNCHANGED <<stopped, currproc>>
      BY <2>2
    <3> QED BY <2>2, <3>2, <3>3, <3>4, <3>5, Unblock
  <2> QED BY <1>2, <2>1, <2>2 DEF send_now, Asserting
<1> QED BY <1>1, <1>2

\* The same from the receiver's side.
LEMMA RecvNowStep ==
    ASSUME IInv, NEW src \in Slots, NEW len, blocked_in(src, currproc, SENDER),
           recv_now(src, len)
    PROVE  IInv'
<1> USE SlotFacts
<1>1. CASE UNCHANGED <<pcbVars, listVars>>
  BY <1>1, StructUnchanged DEF pcbVars, listVars, structVars
<1>2. CASE /\ curr_state[src] = BLOCKED
           /\ blocking_queue' = [blocking_queue EXCEPT ![currproc][SENDER] =
                                     remove_proc_from_queue(@, src)]
           /\ blocking_proc' = [blocking_proc EXCEPT ![src] = NULL]
           /\ blocking_queue_name' = [blocking_queue_name EXCEPT ![src] = NO_BLOCKER]
           /\ curr_state' = [curr_state EXCEPT ![src] = READY]
           /\ ready' = add_proc_to_queue(ready, src)
           /\ stopped' = stopped /\ sleeping' = sleeping /\ currproc' = currproc
  <2>1. blocking_proc[src] = currproc /\ blocking_queue_name[src] = SENDER
    BY DEF blocked_in
  <2>2. sleeping' = IF blocking_queue_name[src] = SLEEP
                    THEN remove_proc_from_queue(sleeping, src) ELSE sleeping
    BY <1>2, <2>1
  <2>3. blocking_queue' = IF blocking_queue_name[src] \in Queues
                          THEN [blocking_queue EXCEPT
                                  ![blocking_proc[src]][blocking_queue_name[src]] =
                                     remove_proc_from_queue(@, src)]
                          ELSE blocking_queue
    BY <1>2, <2>1 DEF Queues
  <2>4. UNCHANGED <<stopped, currproc>>
    BY <1>2
  <2> QED BY <1>2, <2>2, <2>3, <2>4, Unblock
<1> QED BY <1>1, <1>2 DEF recv_now, Asserting
\* sysrecv from one process, or from any.
LEMMA RecvStep ==
    ASSUME IInv, currproc # IdleProc, NEW src \in Slots, curr_state[src] # STOPPED,
           NEW len, recv(src, len)
    PROVE  IInv'
<1>1. CASE blocked_in(src, currproc, SENDER) /\ recv_now(src, len)
  BY <1>1, RecvNowStep
<1>2. CASE block_on(src, RECEIVER, SYSPID_DNE) /\ UNCHANGED <<stopped, sleeping>>
  <2>1. RECEIVER \in Queues
    BY DEF Queues
  <2> HIDE DEF RECEIVER
  <2> QED BY <1>2, <2>1, BlockOn
<1> QED BY <1>1, <1>2 DEF recv

\* sysrecv from any process: from whoever has waited longest, or block.
LEMMA RecvAnyStep ==
    ASSUME IInv, currproc # IdleProc, NEW len, recv_any(len)
    PROVE  IInv'
<1> USE SlotFacts
<1> DEFINE senders == blocking_queue[currproc][SENDER]
<1>1. CASE senders # <<>> /\ blocked_in(Head(senders), currproc, SENDER)
             /\ recv_now(Head(senders), len)
  <2>1. senders \in Seq(Slots)
    BY IInvTypes DEF Queues
  <2>2. Head(senders) \in Slots
    BY <1>1, <2>1
  <2> QED BY <1>1, <2>2, RecvNowStep
<1>2. CASE Return(SYSERR_OTHER)
  BY <1>2, StructUnchanged DEF Return, pcbVars, listVars, structVars
<1>3. CASE /\ blocking_queue_name' = [blocking_queue_name EXCEPT ![currproc] = RECEIVE_ANY]
           /\ get_next_proc(ready, [curr_state EXCEPT ![currproc] = BLOCKED])
           /\ blocking_proc' = blocking_proc /\ blocking_queue' = blocking_queue
           /\ stopped' = stopped /\ sleeping' = sleeping
  <2>1. RECEIVE_ANY \in {RECEIVE_ANY, DEVICE, SLEEP}
    OBVIOUS
  <2>2. /\ sleeping' \in Seq(Slots)
        /\ Lists(sleeping', IF RECEIVE_ANY = SLEEP THEN Asleep \cup {currproc} ELSE Asleep)
    BY <1>3, IInvTypes, IInvLists
  <2> HIDE DEF RECEIVE_ANY
  <2> QED BY <1>3, <2>1, <2>2, BlockAlone
<1> QED BY <1>1, <1>2, <1>3 DEF recv_any

\* syskill: a signal with a handler ends whatever call its target is in.
LEMMA SignalStep ==
    ASSUME IInv, NEW proc \in Slots, NEW signal, set_proc_signal(proc, signal)
    PROVE  IInv'
<1>1. CASE UNCHANGED <<pcbVars, listVars>>
  BY <1>1, StructUnchanged DEF pcbVars, listVars, structVars
<1>2. CASE curr_state[proc] = BLOCKED /\ resolve_blocking(proc)
  <2>1. /\ curr_state' = [curr_state EXCEPT ![proc] = READY]
        /\ ready' = add_proc_to_queue(ready, proc)
        /\ blocking_proc' = [blocking_proc EXCEPT ![proc] = NULL]
        /\ blocking_queue_name' = [blocking_queue_name EXCEPT ![proc] = NO_BLOCKER]
        /\ sleeping' = IF blocking_queue_name[proc] = SLEEP
                       THEN remove_proc_from_queue(sleeping, proc) ELSE sleeping
        /\ blocking_queue' = IF blocking_queue_name[proc] \in Queues
                             THEN [blocking_queue EXCEPT
                                     ![blocking_proc[proc]][blocking_queue_name[proc]] =
                                        remove_proc_from_queue(@, proc)]
                             ELSE blocking_queue
        /\ UNCHANGED <<stopped, currproc>>
    BY <1>2 DEF resolve_blocking
  <2> QED BY <1>2, <2>1, Unblock
<1> QED BY <1>1, <1>2 DEF set_proc_signal, Asserting

-----------------------------------------------------------------------------
\* The kernel starts with the invariant.
LEMMA InitIInv == Init => IInv
<1> SUFFICES ASSUME Init PROVE IInv
  OBVIOUS
<1> USE SlotFacts
<1>1. /\ curr_state \in [Procs -> ProcStates]
      /\ \A p \in Procs : curr_state[p] = IF p = IdleProc THEN BLOCKED
                                          ELSE IF p = 1 THEN RUNNING ELSE STOPPED
  BY DEF Init, ProcStates
<1>2. /\ blocking_proc \in [Procs -> Slots \cup {NULL}] /\ \A p \in Procs : blocking_proc[p] = NULL
      /\ blocking_queue_name \in [Procs -> Blockers]
      /\ \A p \in Procs : blocking_queue_name[p] = IF p = 1 THEN NO_BLOCKER ELSE SENDER
  BY DEF Init, Blockers, Queues
<1>3. /\ blocking_queue \in [Procs -> [Queues -> Seq(Slots)]]
      /\ \A o \in Procs, q \in Queues : blocking_queue[o][q] = <<>>
  BY DEF Init, EmptyQueues
<1>4. stopped \in Seq(Slots) /\ Lists(stopped, {p \in Slots : curr_state[p] = STOPPED})
  <2>1. stopped = [i \in 1..(PCB_TABLE_SIZE - 1) |-> i + 1]
    BY DEF Init
  <2>2. PCB_TABLE_SIZE - 1 \in Nat /\ \A i \in 1..(PCB_TABLE_SIZE - 1) : i + 1 \in Slots
    BY TableAssumption DEF Slots
  <2>3. stopped \in Seq(Slots) /\ DOMAIN stopped = 1..(PCB_TABLE_SIZE - 1)
    BY <2>1, <2>2, SeqDef
  <2>4. {p \in Slots : curr_state[p] = STOPPED} = 2..PCB_TABLE_SIZE
    BY <1>1, TableAssumption DEF Slots
  <2>5. ToSet(stopped) = 2..PCB_TABLE_SIZE
    <3>1. ASSUME NEW x \in 2..PCB_TABLE_SIZE PROVE x \in ToSet(stopped)
      <4>1. x - 1 \in DOMAIN stopped /\ stopped[x - 1] = x
        BY <2>1, <2>3, TableAssumption
      <4> QED BY <4>1 DEF ToSet
    <3>2. ASSUME NEW x \in ToSet(stopped) PROVE x \in 2..PCB_TABLE_SIZE
      <4>1. PICK i \in DOMAIN stopped : x = stopped[i]
        BY DEF ToSet
      <4> QED BY <4>1, <2>1, <2>3, TableAssumption
    <3> QED BY <3>1, <3>2
  <2>6. IsInjective(stopped)
    BY <2>1, <2>3, TableAssumption DEF IsInjective
  <2> QED BY <2>3, <2>4, <2>5, <2>6 DEF Lists
<1>5. /\ ready = <<>> /\ sleeping = <<>> /\ ready \in Seq(Slots) /\ sleeping \in Seq(Slots)
      /\ currproc = 1 /\ currproc \in Procs
  BY DEF Init
<1>6. /\ Lists(ready, {p \in Slots : curr_state[p] = READY})
      /\ Lists(sleeping, {p \in Slots : curr_state[p] = BLOCKED /\ blocking_queue_name[p] = SLEEP})
  <2>1. /\ {p \in Slots : curr_state[p] = READY} = {}
        /\ {p \in Slots : curr_state[p] = BLOCKED /\ blocking_queue_name[p] = SLEEP} = {}
    BY <1>1
  <2> QED BY <1>5, <2>1, ListsEmpty
<1>7. ASSUME NEW o \in Slots, NEW q \in Queues
      PROVE  Lists(blocking_queue[o][q],
                   {p \in Slots : curr_state[p] = BLOCKED /\ blocking_queue_name[p] = q
                                    /\ blocking_proc[p] = o})
  <2>1. {p \in Slots : curr_state[p] = BLOCKED /\ blocking_queue_name[p] = q
                         /\ blocking_proc[p] = o} = {}
    BY <1>1
  <2> QED BY <1>3, <2>1, ListsEmpty
<1>8. Prepared(curr_state, blocking_proc, blocking_queue_name, blocking_queue,
               ready, stopped, sleeping)
  BY <1>1, <1>2, <1>3, <1>4, <1>5, <1>6, <1>7 DEF Prepared
<1>9. OneRunning
  BY <1>1, <1>5, TableAssumption DEF OneRunning, IdleProc
<1> QED BY <1>5, <1>8, <1>9, IInvIsPrepared

\* Every step of the dispatcher keeps it.
LEMMA NextIInv == IInv /\ [Next]_vars => IInv'
<1> SUFFICES ASSUME IInv, [Next]_vars PROVE IInv'
  OBVIOUS
<1> USE SlotFacts
<1>0. ASSUME UNCHANGED <<pcbVars, listVars>> PROVE IInv'
  BY <1>0, StructUnchanged DEF pcbVars, listVars, structVars
<1>1. CASE UNCHANGED vars
  BY <1>1, <1>0 DEF vars
<1>2. CASE ctsw_contextswitch
  BY <1>2, <1>0 DEF ctsw_contextswitch
<1>3. CASE timer_handler
  BY <1>3, TimerStep
<1>4. CASE dispatch_syscall_create
  <2>1. ASSUME NEW code, Return(code) PROVE IInv'
    BY <2>1, <1>0 DEF Return
  <2> QED BY <1>4, <2>1, CreateStep, CreateFailsStep DEF dispatch_syscall_create
<1>5. CASE syscall_yield
  BY <1>5, YieldStep
<1>6. CASE syscall_stop
  BY <1>6, CleanupStep DEF syscall_stop, Syscall
<1>7. CASE syscall_getpid
  BY <1>7, <1>0 DEF syscall_getpid, Return
<1>8. CASE dispatch_syscall_kill
  <2>1. PICK target \in PidArgs, signal \in SignalArgs :
          \/ \E code : Return(code)
          \/ pid_to_proc(target) # NULL /\ set_proc_signal(pid_to_proc(target), signal)
    BY <1>8 DEF dispatch_syscall_kill
  <2>2. CASE \E code : Return(code)
    BY <2>2, <1>0 DEF Return
  <2>3. CASE pid_to_proc(target) # NULL /\ set_proc_signal(pid_to_proc(target), signal)
    BY <2>3, PidToProc, PidAssumption, SignalStep
  <2> QED BY <2>1, <2>2, <2>3
<1>9. CASE dispatch_syscall_wait
  <2>1. currproc # IdleProc
    BY <1>9 DEF dispatch_syscall_wait, Syscall
  <2>2. PICK target \in PidArgs :
          \/ Return(SYSPID_DNE)
          \/ /\ pid_to_proc(target) # NULL /\ block_on(pid_to_proc(target), WAITING, 0)
             /\ UNCHANGED <<stopped, sleeping>>
    BY <1>9 DEF dispatch_syscall_wait
  <2>3. CASE Return(SYSPID_DNE)
    BY <2>3, <1>0 DEF Return
  <2>4. CASE /\ pid_to_proc(target) # NULL /\ block_on(pid_to_proc(target), WAITING, 0)
             /\ UNCHANGED <<stopped, sleeping>>
    <3>1. WAITING \in Queues
      BY DEF Queues
    <3>2. pid_to_proc(target) \in Slots /\ curr_state[pid_to_proc(target)] # STOPPED
      BY <2>4, PidToProc, PidAssumption
    <3> HIDE DEF WAITING
    <3> QED BY <2>1, <2>4, <3>1, <3>2, BlockOn
  <2> QED BY <2>2, <2>3, <2>4
<1>10. CASE dispatch_syscall_puts
  BY <1>10, <1>0 DEF dispatch_syscall_puts, Ignore
<1>11. CASE dispatch_syscall_send
  <2>1. currproc # IdleProc
    BY <1>11 DEF dispatch_syscall_send, Syscall
  <2>2. PICK dest_pid \in PidArgs :
          \/ \E code : Return(code)
          \/ /\ pid_to_proc(dest_pid) # NULL
             /\ \E message \in Messages : \/ send_now(pid_to_proc(dest_pid), message)
                                          \/ send_blocks(pid_to_proc(dest_pid), message)
    BY <1>11 DEF dispatch_syscall_send
  <2>3. CASE \E code : Return(code)
    BY <2>3, <1>0 DEF Return
  <2>4. CASE /\ pid_to_proc(dest_pid) # NULL
             /\ \E message \in Messages : \/ send_now(pid_to_proc(dest_pid), message)
                                          \/ send_blocks(pid_to_proc(dest_pid), message)
    BY <2>1, <2>4, PidToProc, PidAssumption, SendStep
  <2> QED BY <2>2, <2>3, <2>4
<1>12. CASE dispatch_syscall_recv
  <2>1. currproc # IdleProc
    BY <1>12 DEF dispatch_syscall_recv, Syscall
  <2>2. CASE \E code : Return(code)
    BY <2>2, <1>0 DEF Return
  <2>3. CASE \E len \in RecvLens : recv_any(len)
    BY <2>1, <2>3, RecvAnyStep
  <2>4. CASE \E from \in PidArgs \cup {0} : \E len \in RecvLens :
               pid_to_proc(from) # NULL /\ recv(pid_to_proc(from), len)
    <3>1. PICK from \in PidArgs \cup {0}, len \in RecvLens :
            pid_to_proc(from) # NULL /\ recv(pid_to_proc(from), len)
      BY <2>4
    <3>2. from \in Int
      BY PidAssumption
    <3>3. pid_to_proc(from) \in Slots /\ curr_state[pid_to_proc(from)] # STOPPED
      BY <3>1, <3>2, PidToProc
    <3> QED BY <2>1, <3>1, <3>3, RecvStep
  <2> QED BY <1>12, <2>2, <2>3, <2>4 DEF dispatch_syscall_recv
<1>13. CASE dispatch_syscall_sleep
  <2>1. CASE Ignore
    BY <2>1, <1>0 DEF Ignore
  <2>2. CASE currproc # IdleProc /\ \E milliseconds \in SleepTimes : sleep(milliseconds)
    BY <2>2, SleepStep
  <2> QED BY <1>13, <2>1, <2>2 DEF dispatch_syscall_sleep, Syscall
<1>14. CASE dispatch_syscall_getcputimes
  BY <1>14, <1>0 DEF dispatch_syscall_getcputimes, Return, Asserting
<1>15. CASE dispatch_syscall_sighandler
  <2>1. CASE \E code : Return(code)
    BY <2>1, <1>0 DEF Return
  <2> QED BY <1>15, <1>0, <2>1 DEF dispatch_syscall_sighandler
<1>16. CASE dispatch_syscall_sigreturn
  <2>1. CASE sigreturn
    BY <2>1, <1>0 DEF sigreturn
  <2> QED BY <1>16, <2>1, CleanupStep DEF dispatch_syscall_sigreturn, Syscall
<1> QED BY <1>1, <1>2, <1>3, <1>4, <1>5, <1>6, <1>7, <1>8, <1>9, <1>10, <1>11, <1>12,
           <1>13, <1>14, <1>15, <1>16 DEF Next

-----------------------------------------------------------------------------
\* The inductive invariant holds in every reachable state.
THEOREM Structure == Spec => []IInv
BY InitIInv, NextIInv, PTL DEF Spec

\* In every behaviour of the kernel, each pcb is in exactly the one list that
\* its state and its blocker fields name, so the links next_proc and
\* prev_proc shared by all lists never belong to two of them.
THEOREM QueuesStayIntact == Spec => []QueueIntegrity
<1>1. IInv => QueueIntegrity
  BY DEF IInv
<1> QED BY <1>1, Structure, PTL

\* In every behaviour, no process is blocked on a process that has stopped,
\* the fields that say what a pcb is blocked on agree with its state, and
\* exactly the dispatched process is RUNNING.
THEOREM NobodyIsOrphaned == Spec => []NoOrphans
<1>1. IInv => NoOrphans
  BY DEF IInv
<1> QED BY <1>1, Structure, PTL

\* What a pcb says it is blocked on agrees with its state, and one process runs.
THEOREM BlockersStayRight == Spec => [](BlockersMatchStates /\ OneRunning)
<1>1. IInv => BlockersMatchStates /\ OneRunning
  BY DEF IInv
<1> QED BY <1>1, Structure, PTL

-----------------------------------------------------------------------------
(* Signals *)

\* What every step does to the processes that are BLOCKED after it: nobody
\* but the running process blocks, what the others are blocked on stays, and
\* no signal comes to a process that is blocked when the step ends.
StaysBlocked(p) ==
    /\ curr_state[p] = BLOCKED
    /\ blocking_proc'[p] = blocking_proc[p]
    /\ blocking_queue_name'[p] = blocking_queue_name[p]
BlockedAfter ==
    \A p \in Slots : curr_state'[p] = BLOCKED =>
        /\ signals_fired'[p] = signals_fired[p]
        /\ signals_enabled'[p] = signals_enabled[p]
        /\ p = currproc \/ StaysBlocked(p)

\* The scheduler changes one state only, to RUNNING.
LEMMA Scheduled ==
    ASSUME NEW r, NEW st, DOMAIN st = Procs, get_next_proc(r, st)
    PROVE  \A p \in Procs : curr_state'[p] = st[p] \/ curr_state'[p] = RUNNING
BY DEF get_next_proc

\* A step that changes at most the signals of the running process.
LEMMA QuietBlocked ==
    ASSUME IInv, UNCHANGED <<curr_state, blocking_proc, blocking_queue_name>>,
           \A p \in Slots \ {currproc} : /\ signals_fired'[p] = signals_fired[p]
                                         /\ signals_enabled'[p] = signals_enabled[p]
    PROVE  BlockedAfter
BY IInvTypes, SlotFacts DEF BlockedAfter, StaysBlocked

\* The running process blocks, in somebody's queue or on its own.
LEMMA BlockOnBlocked ==
    ASSUME IInv, NEW owner, NEW queue, NEW code, block_on(owner, queue, code),
           UNCHANGED signalVars
    PROVE  BlockedAfter
<1> USE SlotFacts
<1> DEFINE st == [curr_state EXCEPT ![currproc] = BLOCKED]
<1>1. DOMAIN st = Procs /\ \A p \in Procs : st[p] = IF p = currproc THEN BLOCKED ELSE curr_state[p]
  BY IInvTypes
<1>2. get_next_proc(ready, st)
  BY DEF block_on
<1> HIDE DEF st
<1>3. \A p \in Procs : curr_state'[p] = BLOCKED => p = currproc \/ curr_state[p] = BLOCKED
  BY <1>1, <1>2, Scheduled
<1>4. \A p \in Procs \ {currproc} : /\ blocking_proc'[p] = blocking_proc[p]
                                    /\ blocking_queue_name'[p] = blocking_queue_name[p]
  BY IInvTypes DEF block_on
<1> QED BY <1>3, <1>4 DEF BlockedAfter, StaysBlocked, signalVars

\* A handler that leaves the blockers of the processes that stay BLOCKED
\* alone, blocks nobody but the running process, and schedules the next.
LEMMA RescheduleBlocked ==
    ASSUME IInv, NEW r, NEW st, DOMAIN st = Procs, get_next_proc(r, st),
           \A p \in Slots \ {currproc} : st[p] = BLOCKED => StaysBlocked(p),
           UNCHANGED <<signals_fired, signals_enabled>>
    PROVE  BlockedAfter
BY Scheduled, SlotFacts DEF BlockedAfter

\* One process leaves the BLOCKED state and nobody enters it.
LEMMA UnblockBlocked ==
    ASSUME IInv, NEW p \in Slots,
           curr_state' = [curr_state EXCEPT ![p] = READY],
           \A x \in Slots \ {p} : /\ blocking_proc'[x] = blocking_proc[x]
                                  /\ blocking_queue_name'[x] = blocking_queue_name[x]
                                  /\ signals_fired'[x] = signals_fired[x]
                                  /\ signals_enabled'[x] = signals_enabled[x]
    PROVE  BlockedAfter
BY IInvTypes, SlotFacts DEF BlockedAfter, StaysBlocked

\* The clock unblocks sleepers and blocks nobody.
LEMMA TimerBlocked == ASSUME IInv, timer_handler PROVE BlockedAfter
<1> USE SlotFacts
<1> DEFINE woken == SubSeq(sleeping, 1, expired)
           st == [p \in Procs |-> IF p = currproc \/ p \in ToSet(woken) THEN READY
                                  ELSE curr_state[p]]
<1>1. CASE UNCHANGED <<pcbVars, signalVars>>
  BY <1>1, QuietBlocked DEF pcbVars, signalVars
<1>2. CASE /\ blocking_queue_name' = [p \in Procs |-> IF p \in ToSet(woken) THEN NO_BLOCKER
                                                      ELSE blocking_queue_name[p]]
           /\ get_next_proc(enqueue_ready(ready \o woken, currproc), st)
           /\ UNCHANGED <<blocking_proc, signalVars>>
  <2>1. DOMAIN st = Procs /\ \A p \in Procs : st[p] = IF p = currproc \/ p \in ToSet(woken)
                                                      THEN READY ELSE curr_state[p]
    OBVIOUS
  <2>2. get_next_proc(enqueue_ready(ready \o woken, currproc), st)
    BY <1>2
  <2> HIDE DEF st
  <2>3. \A p \in Slots \ {currproc} : st[p] = BLOCKED => StaysBlocked(p)
    BY <1>2, <2>1 DEF StaysBlocked
  <2> QED BY <1>2, <2>1, <2>2, <2>3, RescheduleBlocked DEF signalVars
<1> QED BY <1>1, <1>2 DEF timer_handler, Asserting

\* A process that ends unblocks others and blocks nobody.
LEMMA CleanupBlocked == ASSUME IInv, cleanup_proc PROVE BlockedAfter
<1> USE SlotFacts
<1> DEFINE notified == UNION {ToSet(blocking_queue[currproc][q]) : q \in Queues}
           st == [w \in Procs |-> IF w = currproc THEN STOPPED
                                  ELSE IF w \in notified THEN READY ELSE curr_state[w]]
<1>1. CASE UNCHANGED <<pcbVars, signalVars>>
  BY <1>1, QuietBlocked DEF pcbVars, signalVars
<1>2. CASE /\ \E r : get_next_proc(r, st)
           /\ blocking_proc' = [w \in Procs |-> IF w \in notified THEN NULL
                                                ELSE blocking_proc[w]]
           /\ blocking_queue_name' = [w \in Procs |-> IF w \in notified THEN NO_BLOCKER
                                                      ELSE blocking_queue_name[w]]
           /\ UNCHANGED <<signals_fired, signals_enabled>>
  <2>1. DOMAIN st = Procs /\ \A w \in Procs : st[w] = IF w = currproc THEN STOPPED
                                  ELSE IF w \in notified THEN READY ELSE curr_state[w]
    OBVIOUS
  <2>2. PICK r : get_next_proc(r, st)
    BY <1>2
  <2> HIDE DEF st, notified
  <2>3. \A p \in Slots \ {currproc} : st[p] = BLOCKED => StaysBlocked(p)
    BY <1>2, <2>1 DEF StaysBlocked
  <2> QED BY <1>2, <2>1, <2>2, <2>3, RescheduleBlocked
<1> QED BY <1>1, <1>2 DEF cleanup_proc, Asserting

\* A send blocks the sender or nobody.
LEMMA SendBlocked ==
    ASSUME IInv, NEW dest \in Slots, NEW message,
           send_now(dest, message) \/ send_blocks(dest, message)
    PROVE  BlockedAfter
<1> USE SlotFacts
<1>1. CASE send_blocks(dest, message)
  BY <1>1, BlockOnBlocked DEF send_blocks
<1>2. CASE UNCHANGED <<pcbVars, signalVars>>
  BY <1>2, QuietBlocked DEF pcbVars, signalVars
<1>3. CASE /\ blocking_proc' = [blocking_proc EXCEPT ![dest] =
                                    IF blocking_queue_name[dest] = RECEIVE_ANY THEN @ ELSE NULL]
           /\ blocking_queue_name' = [blocking_queue_name EXCEPT ![dest] = NO_BLOCKER]
           /\ curr_state' = [curr_state EXCEPT ![dest] = READY]
           /\ UNCHANGED signalVars
  BY <1>3, IInvTypes, UnblockBlocked DEF signalVars
<1> QED BY <1>1, <1>2, <1>3 DEF send_now, Asserting

\* A receive that finds its sender blocks nobody.
LEMMA RecvNowBlocked ==
    ASSUME IInv, NEW src \in Slots, NEW len, recv_now(src, len)
    PROVE  BlockedAfter
<1> USE SlotFacts
<1>1. CASE UNCHANGED <<pcbVars, signalVars>>
  BY <1>1, QuietBlocked DEF pcbVars, signalVars
<1>2. CASE /\ blocking_proc' = [blocking_proc EXCEPT ![src] = NULL]
           /\ blocking_queue_name' = [blocking_queue_name EXCEPT ![src] = NO_BLOCKER]
           /\ curr_state' = [curr_state EXCEPT ![src] = READY]
           /\ UNCHANGED signalVars
  BY <1>2, IInvTypes, UnblockBlocked DEF signalVars
<1> QED BY <1>1, <1>2 DEF recv_now, Asserting

\* A receive from anyone blocks the receiver or nobody.
LEMMA RecvAnyBlocked == ASSUME IInv, NEW len, recv_any(len) PROVE BlockedAfter
<1> USE SlotFacts
<1> DEFINE senders == blocking_queue[currproc][SENDER]
           st == [curr_state EXCEPT ![currproc] = BLOCKED]
<1>1. CASE senders # <<>> /\ recv_now(Head(senders), len)
  <2>1. senders \in Seq(Slots)
    BY IInvTypes DEF Queues
  <2> QED BY <1>1, <2>1, RecvNowBlocked
<1>2. CASE Return(SYSERR_OTHER)
  BY <1>2, QuietBlocked DEF Return, pcbVars, signalVars
<1>3. CASE /\ blocking_queue_name' = [blocking_queue_name EXCEPT ![currproc] = RECEIVE_ANY]
           /\ get_next_proc(ready, st)
           /\ UNCHANGED <<blocking_proc, signalVars>>
  <2>1. DOMAIN st = Procs /\ \A p \in Procs : st[p] = IF p = currproc THEN BLOCKED
                                                      ELSE curr_state[p]
    BY IInvTypes
  <2>2. get_next_proc(ready, st)
    BY <1>3
  <2> HIDE DEF st
  <2>3. \A p \in Slots \ {currproc} : st[p] = BLOCKED => StaysBlocked(p)
    BY <1>3, <2>1, IInvTypes DEF StaysBlocked
  <2> QED BY <1>3, <2>1, <2>2, <2>3, RescheduleBlocked DEF signalVars
<1> QED BY <1>1, <1>2, <1>3 DEF recv_any

\* A sleep blocks the running process.
LEMMA SleepBlocked == ASSUME IInv, NEW milliseconds, sleep(milliseconds) PROVE BlockedAfter
<1> USE SlotFacts
<1> DEFINE st == [curr_state EXCEPT ![currproc] = BLOCKED]
<1>1. /\ blocking_queue_name' = [blocking_queue_name EXCEPT ![currproc] = SLEEP]
      /\ blocking_proc' = [blocking_proc EXCEPT ![currproc] = NULL]
      /\ get_next_proc(ready, st)
      /\ UNCHANGED signalVars
  BY DEF sleep
<1>2. DOMAIN st = Procs /\ \A p \in Procs : st[p] = IF p = currproc THEN BLOCKED
                                                    ELSE curr_state[p]
  BY IInvTypes
<1> HIDE DEF st
<1>3. \A p \in Slots \ {currproc} : st[p] = BLOCKED => StaysBlocked(p)
  BY <1>1, <1>2, IInvTypes DEF StaysBlocked
<1> QED BY <1>1, <1>2, <1>3, RescheduleBlocked DEF signalVars

\* A signal blocks nobody, and comes to no process that stays blocked.
LEMMA KillBlocked ==
    ASSUME IInv, SignalTypes, NEW proc \in Slots, NEW signal, set_proc_signal(proc, signal)
    PROVE  BlockedAfter
<1> USE SlotFacts
<1>0. ASSUME signals_fired' = [signals_fired EXCEPT ![proc] = @ \cup {signal}]
      PROVE  \A x \in Slots \ {proc} : signals_fired'[x] = signals_fired[x]
  BY <1>0, SlotFacts DEF SignalTypes
<1>1. CASE curr_state[proc] = BLOCKED /\ resolve_blocking(proc)
             /\ signals_fired' = [signals_fired EXCEPT ![proc] = @ \cup {signal}]
             /\ UNCHANGED signals_enabled
  <2>1. /\ curr_state' = [curr_state EXCEPT ![proc] = READY]
        /\ \A x \in Slots \ {proc} : /\ blocking_proc'[x] = blocking_proc[x]
                                     /\ blocking_queue_name'[x] = blocking_queue_name[x]
                                     /\ signals_fired'[x] = signals_fired[x]
                                     /\ signals_enabled'[x] = signals_enabled[x]
    BY <1>0, <1>1, IInvTypes DEF resolve_blocking
  <2> QED BY <2>1, UnblockBlocked
<1>2. CASE curr_state[proc] # BLOCKED /\ UNCHANGED <<pcbVars, signals_enabled>>
             /\ signals_fired' = [signals_fired EXCEPT ![proc] = @ \cup {signal}]
  BY <1>0, <1>2 DEF BlockedAfter, StaysBlocked, pcbVars
<1>3. CASE UNCHANGED <<pcbVars, signalVars>>
  BY <1>3, QuietBlocked DEF pcbVars, signalVars
<1> QED BY <1>1, <1>2, <1>3 DEF set_proc_signal, Asserting

\* The pcb that create takes is a STOPPED one of the table.
LEMMA NextFree ==
    ASSUME IInv, stopped # <<>>
    PROVE  /\ Head(stopped) \in Slots /\ curr_state[Head(stopped)] = STOPPED
           /\ Lists(Tail(stopped), InState(STOPPED) \ {Head(stopped)})
<1>1. stopped \in Seq(Slots) /\ Lists(stopped, InState(STOPPED))
  BY IInvTypes, IInvLists
<1>2. /\ Head(stopped) \in InState(STOPPED)
      /\ Lists(Tail(stopped), InState(STOPPED) \ {Head(stopped)})
  BY <1>1, PopLists
<1> QED BY <1>2 DEF InState

\* Every step of the dispatcher.
LEMMA NextBlocked == IInv /\ SignalTypes /\ Next => BlockedAfter
<1> SUFFICES ASSUME IInv, SignalTypes, Next PROVE BlockedAfter
  OBVIOUS
<1> USE SlotFacts
<1>0. ASSUME UNCHANGED <<pcbVars, signals_fired, signals_enabled>> PROVE BlockedAfter
  BY <1>0, QuietBlocked DEF pcbVars
<1>a. ASSUME NEW code, Return(code) PROVE BlockedAfter
  BY <1>a, <1>0 DEF Return, signalVars
<1>b. ASSUME NEW p \in Int PROVE pid_to_proc(p) # NULL => pid_to_proc(p) \in Slots
  BY <1>b, PidToProc
<1>1. CASE ctsw_contextswitch
  <2>1. UNCHANGED <<curr_state, blocking_proc, blocking_queue_name>>
    BY <1>1 DEF ctsw_contextswitch, pcbVars
  <2>2. \A p \in Slots \ {currproc} : /\ signals_fired'[p] = signals_fired[p]
                                      /\ signals_enabled'[p] = signals_enabled[p]
    BY <1>1 DEF ctsw_contextswitch, call_highest_priority_signal, signalVars,
                SignalTypes
  <2> QED BY <2>1, <2>2, QuietBlocked
<1>2. CASE timer_handler
  BY <1>2, TimerBlocked
<1>3. CASE dispatch_syscall_create
  <2>1. CASE create
    <3> DEFINE proc == Head(stopped)
    <3>1. CASE UNCHANGED <<pcbVars, signalVars>>
      BY <3>1, <1>0 DEF signalVars
    <3>2. CASE /\ curr_state' = [curr_state EXCEPT ![proc] = READY]
               /\ blocking_proc' = [blocking_proc EXCEPT ![proc] = NULL]
               /\ blocking_queue_name' = [blocking_queue_name EXCEPT ![proc] = NO_BLOCKER]
               /\ signals_fired' = [signals_fired EXCEPT ![proc] = {}]
               /\ signals_enabled' = [signals_enabled EXCEPT ![proc] = TRUE]
               /\ stopped # <<>>
      <4>1. proc \in Slots
        BY <3>2, IInvTypes
      <4>2. \A x \in Slots \ {proc} : /\ blocking_proc'[x] = blocking_proc[x]
                                       /\ blocking_queue_name'[x] = blocking_queue_name[x]
                                       /\ signals_fired'[x] = signals_fired[x]
                                       /\ signals_enabled'[x] = signals_enabled[x]
        BY <3>2, IInvTypes DEF SignalTypes
      <4> HIDE DEF proc
      <4> QED BY <3>2, <4>1, <4>2, UnblockBlocked
    <3> QED BY <2>1, <3>1, <3>2 DEF create, Asserting
  <2>2. CASE create_without_table
    <3> DEFINE proc == Head(stopped)
    <3>1. /\ blocking_proc' = [blocking_proc EXCEPT ![proc] = NULL]
          /\ blocking_queue_name' = [blocking_queue_name EXCEPT ![proc] = SENDER]
          /\ signals_fired' = [signals_fired EXCEPT ![proc] = {}]
          /\ signals_enabled' = [signals_enabled EXCEPT ![proc] = FALSE]
          /\ curr_state' = curr_state /\ stopped # <<>>
      BY <2>2 DEF create_without_table
    <3>2. proc \in Slots /\ curr_state[proc] = STOPPED
      BY <3>1, NextFree
    <3> HIDE DEF proc
    <3>3. \A p \in Slots \ {proc} : /\ signals_fired'[p] = signals_fired[p]
                                    /\ signals_enabled'[p] = signals_enabled[p]
                                    /\ blocking_proc'[p] = blocking_proc[p]
                                    /\ blocking_queue_name'[p] = blocking_queue_name[p]
      BY <3>1, IInvTypes DEF SignalTypes
    <3> QED BY <3>1, <3>2, <3>3 DEF BlockedAfter, StaysBlocked
  <2> QED BY <1>3, <1>a, <2>1, <2>2 DEF dispatch_syscall_create
<1>4. CASE syscall_yield
  <2> DEFINE st == [curr_state EXCEPT ![currproc] = READY]
  <2>1. /\ get_next_proc(add_proc_to_queue(ready, currproc), st)
        /\ UNCHANGED <<blocking_proc, blocking_queue_name, signals_fired, signals_enabled>>
    BY <1>4 DEF syscall_yield, signalVars
  <2>2. DOMAIN st = Procs /\ \A p \in Procs : st[p] = IF p = currproc THEN READY
                                                      ELSE curr_state[p]
    BY IInvTypes
  <2> HIDE DEF st
  <2> QED BY <2>1, <2>2, RescheduleBlocked DEF StaysBlocked
<1>5. CASE syscall_stop
  BY <1>5, CleanupBlocked DEF syscall_stop
<1>6. CASE syscall_getpid
  BY <1>6, <1>a DEF syscall_getpid
<1>7. CASE dispatch_syscall_kill
  <2>1. PICK target \in PidArgs, signal \in SignalArgs :
          \/ \E code : Return(code)
          \/ pid_to_proc(target) # NULL /\ set_proc_signal(pid_to_proc(target), signal)
    BY <1>7 DEF dispatch_syscall_kill
  <2> QED BY <2>1, <1>a, <1>b, PidAssumption, KillBlocked
<1>8. CASE dispatch_syscall_wait
  <2>1. PICK target \in PidArgs :
          \/ Return(SYSPID_DNE)
          \/ block_on(pid_to_proc(target), WAITING, 0) /\ UNCHANGED signalVars
    BY <1>8 DEF dispatch_syscall_wait
  <2> QED BY <2>1, <1>a, BlockOnBlocked
<1>9. CASE dispatch_syscall_puts
  BY <1>9, <1>0 DEF dispatch_syscall_puts, Ignore, signalVars
<1>10. CASE dispatch_syscall_send
  <2>1. PICK dest_pid \in PidArgs :
          \/ \E code : Return(code)
          \/ /\ pid_to_proc(dest_pid) # NULL
             /\ \E message \in Messages : \/ send_now(pid_to_proc(dest_pid), message)
                                          \/ send_blocks(pid_to_proc(dest_pid), message)
    BY <1>10 DEF dispatch_syscall_send
  <2> QED BY <2>1, <1>a, <1>b, PidAssumption, SendBlocked
<1>11. CASE dispatch_syscall_recv
  <2>1. CASE \E code : Return(code)
    BY <2>1, <1>a
  <2>2. CASE \E len \in RecvLens : recv_any(len)
    BY <2>2, RecvAnyBlocked
  <2>3. CASE \E from \in PidArgs \cup {0} : \E len \in RecvLens :
               pid_to_proc(from) # NULL /\ recv(pid_to_proc(from), len)
    <3>1. PICK from \in PidArgs \cup {0}, len \in RecvLens :
            pid_to_proc(from) # NULL /\ recv(pid_to_proc(from), len)
      BY <2>3
    <3>2. pid_to_proc(from) \in Slots
      BY <3>1, <1>b, PidAssumption
    <3>3. CASE recv_now(pid_to_proc(from), len)
      BY <3>2, <3>3, RecvNowBlocked
    <3>4. CASE block_on(pid_to_proc(from), RECEIVER, SYSPID_DNE) /\ UNCHANGED signalVars
      BY <3>4, BlockOnBlocked
    <3> QED BY <3>1, <3>3, <3>4 DEF recv
  <2> QED BY <1>11, <2>1, <2>2, <2>3 DEF dispatch_syscall_recv
<1>12. CASE dispatch_syscall_sleep
  <2>1. CASE Ignore
    BY <2>1, <1>0 DEF Ignore, signalVars
  <2> QED BY <1>12, <2>1, SleepBlocked DEF dispatch_syscall_sleep
<1>13. CASE dispatch_syscall_getcputimes
  BY <1>13, <1>0, <1>a DEF dispatch_syscall_getcputimes, Asserting, signalVars
<1>14. CASE dispatch_syscall_sighandler
  BY <1>14, <1>0, <1>a DEF dispatch_syscall_sighandler
<1>15. CASE dispatch_syscall_sigreturn
  <2>1. CASE sigreturn
    <3>1. UNCHANGED <<curr_state, blocking_proc, blocking_queue_name, signals_fired>>
      BY <2>1 DEF sigreturn, pcbVars
    <3>2. \A p \in Slots \ {currproc} : signals_enabled'[p] = signals_enabled[p]
      BY <2>1 DEF sigreturn, SignalTypes
    <3> QED BY <3>1, <3>2, QuietBlocked
  <2> QED BY <1>15, <2>1, CleanupBlocked DEF dispatch_syscall_sigreturn
<1> QED BY <1>1, <1>2, <1>3, <1>4, <1>5, <1>6, <1>7, <1>8, <1>9, <1>10, <1>11, <1>12,
           <1>13, <1>14, <1>15 DEF Next

-----------------------------------------------------------------------------
\* A process that is STOPPED has no saved context, one that is not has at most
\* one, and that exactly while its signals are disabled.
FrameMatches(p) ==
    \/ frames[p] = <<>> /\ (curr_state[p] # STOPPED => signals_enabled[p])
    \/ /\ curr_state[p] # STOPPED /\ ~signals_enabled[p]
       /\ Len(frames[p]) = 1 /\ frames[p] = <<frames[p][1]>>
FramesMatch == \A p \in Slots : FrameMatches(p)

\* The inductive invariant of the signals, on top of IInv.
SigInv ==
    /\ mode \in {"kernel", "user"}
    /\ SignalTypes
    /\ DOMAIN frames = Procs
    /\ FramesMatch
    /\ NoSignalLeftBehind

\* The STOPPED queue tells who is STOPPED.
LEMMA StoppedSame ==
    ASSUME IInv, IInv', UNCHANGED stopped
    PROVE  \A p \in Slots : curr_state'[p] = STOPPED <=> curr_state[p] = STOPPED
<1>1. ToSet(stopped) = InState(STOPPED) /\ ToSet(stopped') = InState(STOPPED)'
  BY DEF IInv, QueueIntegrity, Lists
<1> QED BY <1>1 DEF InState

\* What a step can do to the saved contexts and to the STOPPED queue.
LEMMA SignalEffects ==
    ASSUME Next
    PROVE  \/ ctsw_contextswitch
           \/ /\ mode = "user" /\ mode' = "kernel"
              /\ \/ UNCHANGED <<frames, signals_enabled, stopped>>
                 \/ create \/ create_without_table \/ cleanup_proc
                 \/ sigreturn
<1>1. CASE timer_handler
  BY <1>1 DEF timer_handler, Asserting, signalVars, listVars
<1>2. CASE dispatch_syscall_create
  BY <1>2 DEF dispatch_syscall_create, Syscall, Return, signalVars, listVars
<1>3. CASE syscall_yield
  BY <1>3 DEF syscall_yield, Syscall, signalVars
<1>4. CASE syscall_stop
  BY <1>4 DEF syscall_stop, Syscall
<1>5. CASE syscall_getpid \/ dispatch_syscall_puts \/ dispatch_syscall_getcputimes
  BY <1>5 DEF syscall_getpid, dispatch_syscall_puts, dispatch_syscall_getcputimes, Syscall, Return,
              Ignore, Asserting, signalVars, listVars
<1>6. CASE dispatch_syscall_kill
  BY <1>6 DEF dispatch_syscall_kill, set_proc_signal, resolve_blocking, Syscall, Return, Asserting,
              signalVars, listVars
<1>7. CASE dispatch_syscall_wait
  BY <1>7 DEF dispatch_syscall_wait, Syscall, Return, signalVars, listVars
<1>8. CASE dispatch_syscall_send
  BY <1>8 DEF dispatch_syscall_send, send_now, send_blocks, Syscall, Return, Asserting,
              signalVars, listVars
<1>9. CASE dispatch_syscall_recv
  BY SMTT(30), <1>9 DEF dispatch_syscall_recv, recv, recv_any, recv_now, Syscall, Return, Asserting,
              signalVars, listVars
<1>10. CASE dispatch_syscall_sleep
  BY <1>10 DEF dispatch_syscall_sleep, sleep, Syscall, Ignore, signalVars, listVars
<1>11. CASE dispatch_syscall_sighandler
  BY <1>11 DEF dispatch_syscall_sighandler, Syscall, Return, signalVars, listVars
<1>12. CASE dispatch_syscall_sigreturn
  BY <1>12 DEF dispatch_syscall_sigreturn, Syscall
<1> QED BY <1>1, <1>2, <1>3, <1>4, <1>5, <1>6, <1>7, <1>8, <1>9, <1>10, <1>11, <1>12 DEF Next

\* Only the running process stops.
LEMMA NextStopped ==
    ASSUME IInv, IInv', Next, NEW p \in Slots, curr_state'[p] = STOPPED
    PROVE  curr_state[p] = STOPPED \/ p = currproc
<1> USE SlotFacts
<1>0. ASSUME UNCHANGED stopped PROVE curr_state[p] = STOPPED
  BY <1>0, StoppedSame
<1>1. CASE ctsw_contextswitch
  BY <1>1, <1>0 DEF ctsw_contextswitch, listVars
<1>2. CASE create
  <2>1. CASE UNCHANGED listVars
    BY <2>1, <1>0 DEF listVars
  <2>2. CASE curr_state' = [curr_state EXCEPT ![Head(stopped)] = READY]
    BY <2>2, IInvTypes
  <2> QED BY <1>2, <2>1, <2>2 DEF create, Asserting
<1>3. CASE create_without_table
  BY <1>3 DEF create_without_table
<1>4. CASE cleanup_proc
  <2>1. CASE UNCHANGED listVars
    BY <2>1, <1>0 DEF listVars
  <2> DEFINE notified == UNION {ToSet(blocking_queue[currproc][q]) : q \in Queues}
             st == [w \in Procs |-> IF w = currproc THEN STOPPED
                                    ELSE IF w \in notified THEN READY ELSE curr_state[w]]
  <2>2. CASE \E r : get_next_proc(r, st)
    <3>1. DOMAIN st = Procs /\ \A w \in Procs : st[w] = STOPPED => w = currproc \/ curr_state[w] = STOPPED
      OBVIOUS
    <3> HIDE DEF st
    <3> QED BY <2>2, <3>1, Scheduled
  <2> QED BY <1>4, <2>1, <2>2 DEF cleanup_proc, Asserting
<1>5. CASE sigreturn
  BY <1>5 DEF sigreturn, pcbVars
<1> QED BY <1>0, <1>1, <1>2, <1>3, <1>4, <1>5, SignalEffects

\* Signals delivered, created, ended and returned from leave FramesMatch true.
LEMMA NextFrames ==
    ASSUME IInv, IInv', SigInv, Next
    PROVE  DOMAIN frames' = Procs /\ FramesMatch'
<1> USE SlotFacts
<1>0. ASSUME UNCHANGED <<frames, signals_enabled, stopped>>
      PROVE  DOMAIN frames' = Procs /\ FramesMatch'
  BY <1>0, StoppedSame DEF SigInv, FramesMatch, FrameMatches
<1>1. CASE ctsw_contextswitch
  <2>1. CASE UNCHANGED <<signalVars, listVars>>
    BY <2>1, <1>0 DEF signalVars, listVars
  <2>2. CASE /\ deliverable(currproc) /\ call_highest_priority_signal(currproc)
             /\ UNCHANGED listVars
    <3>1. PICK f : /\ signals_enabled' = [signals_enabled EXCEPT ![currproc] = FALSE]
                   /\ frames' = [frames EXCEPT ![currproc] = Append(@, f)]
      BY <2>2 DEF call_highest_priority_signal
    <3>2. UNCHANGED stopped
      BY <2>2 DEF listVars
    <3>3. ASSUME currproc \in Slots
          PROVE  /\ frames[currproc] = <<>> /\ curr_state[currproc] # STOPPED
                 /\ frames'[currproc] = <<f>> /\ ~signals_enabled'[currproc]
      <4>1. curr_state[currproc] = RUNNING
        BY IInvTypes
      <4>2. frames[currproc] = <<>>
        BY <4>1, <3>3, <2>2 DEF SigInv, FramesMatch, FrameMatches, deliverable
      <4>3. Append(<<>>, f) = <<f>>
        OBVIOUS
      <4> QED BY <3>1, <3>3, <4>1, <4>2, <4>3 DEF SigInv, SignalTypes
    <3>4. ASSUME NEW p \in Slots, p # currproc
          PROVE  frames'[p] = frames[p] /\ signals_enabled'[p] = signals_enabled[p]
      BY <3>1, <3>4 DEF SigInv, SignalTypes
    <3>5. \A p \in Slots : curr_state'[p] = STOPPED <=> curr_state[p] = STOPPED
      BY <3>2, StoppedSame
    <3>6. FramesMatch'
      <4> SUFFICES ASSUME NEW p \in Slots
                   PROVE  FrameMatches(p)'
        BY DEF FramesMatch
      <4>1. CASE p = currproc
        <5>1. curr_state'[p] # STOPPED /\ ~signals_enabled'[p] /\ frames'[p] = <<f>>
          BY <4>1, <3>3, <3>5
        <5>2. Len(<<f>>) = 1 /\ <<f>>[1] = f
          OBVIOUS
        <5> QED BY <5>1, <5>2 DEF FrameMatches
      <4>2. CASE p # currproc
        BY <4>2, <3>4, <3>5 DEF SigInv, FramesMatch, FrameMatches
      <4> QED BY <4>1, <4>2
    <3> QED BY <3>1, <3>6 DEF SigInv
  <2> QED BY <1>1, <2>1, <2>2 DEF ctsw_contextswitch
<1>2. CASE create
  <2> DEFINE proc == Head(stopped)
  <2>1. CASE UNCHANGED <<signalVars, listVars>>
    BY <2>1, <1>0 DEF signalVars, listVars
  <2>2. CASE /\ stopped # <<>>
             /\ curr_state' = [curr_state EXCEPT ![proc] = READY]
             /\ signals_enabled' = [signals_enabled EXCEPT ![proc] = TRUE]
             /\ UNCHANGED frames
    <3>1. proc \in Slots /\ curr_state[proc] = STOPPED
      BY <2>2, NextFree
    <3> HIDE DEF proc
    <3>2. frames[proc] = <<>>
      BY <3>1 DEF SigInv, FramesMatch, FrameMatches
    <3>3. \A p \in Slots : /\ signals_enabled'[p] = (IF p = proc THEN TRUE ELSE signals_enabled[p])
                           /\ p # proc => curr_state'[p] = curr_state[p]
      BY <2>2, IInvTypes DEF SigInv, SignalTypes
    <3> QED BY <2>2, <3>1, <3>2, <3>3 DEF SigInv, FramesMatch, FrameMatches
  <2> QED BY <1>2, <2>1, <2>2 DEF create, Asserting
<1>3. CASE create_without_table
  <2> DEFINE proc == Head(stopped)
  <2>1. /\ stopped # <<>>
        /\ UNCHANGED <<curr_state, frames>>
        /\ signals_enabled' = [signals_enabled EXCEPT ![proc] = FALSE]
    BY <1>3 DEF create_without_table
  <2>2. proc \in Slots /\ curr_state[proc] = STOPPED
    BY <2>1, NextFree
  <2> HIDE DEF proc
  <2>3. \A p \in Slots : p # proc => signals_enabled'[p] = signals_enabled[p]
    BY <2>1 DEF SigInv, SignalTypes
  <2> QED BY <2>1, <2>2, <2>3 DEF SigInv, FramesMatch, FrameMatches
<1>4. CASE cleanup_proc
  <2>1. CASE UNCHANGED <<signalVars, listVars>>
    BY <2>1, <1>0 DEF signalVars, listVars
  <2>2. CASE /\ stopped' = add_proc_to_queue(stopped, currproc)
             /\ frames' = [frames EXCEPT ![currproc] = <<>>]
             /\ UNCHANGED signals_enabled
    <3>1. currproc \in Procs /\ curr_state[currproc] = RUNNING
      BY IInvTypes
    <3>2. \A p \in Slots \ {currproc} : curr_state'[p] = STOPPED <=> curr_state[p] = STOPPED
      <4>1. ToSet(stopped) = InState(STOPPED) /\ ToSet(stopped') = InState(STOPPED)'
        BY DEF IInv, QueueIntegrity, Lists
      <4>2. stopped \in Seq(Slots) /\ stopped' \in Seq(Slots)
        BY IInvTypes DEF IInv, StructTypes, QueueTypes
      <4>3. \A x : x \in ToSet(Append(stopped, currproc)) <=> x = currproc \/ x \in ToSet(stopped)
        <5> DEFINE r == Append(stopped, currproc)
        <5>1. /\ Len(stopped) \in Nat /\ DOMAIN stopped = 1..Len(stopped)
              /\ DOMAIN r = 1..(Len(stopped) + 1)
              /\ \A i \in 1..Len(stopped) : r[i] = stopped[i]
              /\ r[Len(stopped) + 1] = currproc
          BY <4>2, <3>1, SlotFacts
        <5> HIDE DEF r
        <5> QED BY <5>1 DEF ToSet
      <4> QED BY <2>2, <4>1, <4>3 DEF InState, add_proc_to_queue
    <3>3. currproc \in Slots => frames'[currproc] = <<>> /\ curr_state'[currproc] = STOPPED
      <4>1. ASSUME currproc \in Slots PROVE currproc \in ToSet(stopped')
        <5>1. stopped \in Seq(Slots)
          BY IInvTypes
        <5>2. Append(stopped, currproc)[Len(stopped) + 1] = currproc
              /\ Len(stopped) + 1 \in DOMAIN Append(stopped, currproc)
          BY <5>1, <4>1
        <5> QED BY <5>2, <2>2 DEF ToSet, add_proc_to_queue
      <4>2. ToSet(stopped') = InState(STOPPED)'
        BY DEF IInv, QueueIntegrity, Lists
      <4> QED BY <4>1, <4>2, <2>2, <3>1 DEF SigInv, InState
    <3>4. \A p \in Slots \ {currproc} : frames'[p] = frames[p]
      BY <2>2 DEF SigInv
    <3> QED BY <2>2, <3>2, <3>3, <3>4 DEF SigInv, FramesMatch, FrameMatches
  <2> QED BY <1>4, <2>1, <2>2 DEF cleanup_proc, Asserting
<1>5. CASE sigreturn
  <2>1. /\ frames[currproc] # <<>>
        /\ frames' = [frames EXCEPT ![currproc] = Front(frames[currproc])]
        /\ signals_enabled' = [signals_enabled EXCEPT ![currproc] = TRUE]
        /\ UNCHANGED <<curr_state, stopped>>
    BY <1>5 DEF sigreturn, pcbVars, listVars
  <2>2. ASSUME currproc \in Slots
        PROVE  frames'[currproc] = <<>> /\ signals_enabled'[currproc]
    <3>1. PICK f : frames[currproc] = <<f>>
      BY <2>1, <2>2 DEF SigInv, FramesMatch, FrameMatches
    <3>2. Front(<<f>>) = <<>>
      BY DEF Front
    <3> QED BY <2>1, <2>2, <3>1, <3>2 DEF SigInv, SignalTypes
  <2>3. \A p \in Slots \ {currproc} : /\ frames'[p] = frames[p]
                                      /\ signals_enabled'[p] = signals_enabled[p]
    BY <2>1 DEF SigInv, SignalTypes
  <2> QED BY <2>1, <2>2, <2>3 DEF SigInv, FramesMatch, FrameMatches
<1> QED BY <1>0, <1>1, <1>2, <1>3, <1>4, <1>5, SignalEffects

\* Whatever the heap block of a new signal table held, its words are words.
LEMMA NewTables == \A t \in new_signal_tables : t \in [Signals -> Nat]
<1>1. HeapResidue \cup {NULL} \subseteq Nat
  BY WordAssumption
<1> SUFFICES ASSUME NEW t \in new_signal_tables PROVE t \in [Signals -> Nat]
  OBVIOUS
<1>2. t \in [Signals -> HeapResidue \cup {NULL}]
  BY DEF new_signal_tables
<1> QED BY <1>1, <1>2

\* Handlers and pending signals keep their types.
LEMMA NextSignalTypes == ASSUME IInv, SignalTypes, Next PROVE SignalTypes'
<1> USE SlotFacts
<1>0. ASSUME UNCHANGED <<signal_table, signals_fired, signals_enabled>> PROVE SignalTypes'
  BY <1>0 DEF SignalTypes
<1>r. ASSUME NEW code, Return(code) PROVE SignalTypes'
  BY <1>r, <1>0 DEF Return, signalVars
<1>1. CASE ctsw_contextswitch
  <2>1. CASE UNCHANGED signalVars
    BY <2>1, <1>0 DEF signalVars
  <2>2. CASE call_highest_priority_signal(currproc)
    <3>1. signals_fired' \in [Procs -> SUBSET Signals]
      BY <2>2 DEF call_highest_priority_signal, SignalTypes
    <3>2. signals_enabled' \in [Procs -> BOOLEAN]
      BY <2>2 DEF call_highest_priority_signal, SignalTypes
    <3> QED BY <2>2, <3>1, <3>2 DEF call_highest_priority_signal, SignalTypes
  <2> QED BY <1>1, <2>1, <2>2 DEF ctsw_contextswitch
<1>2. CASE timer_handler
  BY <1>2, <1>0 DEF timer_handler, Asserting, signalVars
<1>3. CASE dispatch_syscall_create
  <2> DEFINE proc == Head(stopped)
             Cleared ==
               /\ \E t \in [Signals -> Nat] : signal_table' = [signal_table EXCEPT ![proc] = t]
               /\ signals_fired' = [signals_fired EXCEPT ![proc] = {}]
               /\ \E b \in BOOLEAN : signals_enabled' = [signals_enabled EXCEPT ![proc] = b]
  <2>1. CASE UNCHANGED signalVars
    BY <2>1, <1>0 DEF signalVars
  <2>2. CASE Cleared
    <3>1. signal_table' \in [Procs -> [Signals -> Nat]]
      BY <2>2, ZenonT(40) DEF SignalTypes
    <3>2. signals_fired' \in [Procs -> SUBSET Signals]
      BY <2>2 DEF SignalTypes
    <3>3. signals_enabled' \in [Procs -> BOOLEAN]
      BY <2>2 DEF SignalTypes
    <3> QED BY <3>1, <3>2, <3>3 DEF SignalTypes
  <2>3. \A t \in new_signal_tables : t \in [Signals -> Nat]
    BY NewTables
  <2>4. [s \in Signals |-> NULL] \in [Signals -> Nat]
    OBVIOUS
  <2>5. create => UNCHANGED signalVars \/ Cleared
    BY <2>3 DEF create, Asserting
  <2>6. create_without_table => Cleared
    BY <2>4 DEF create_without_table
  <2> QED BY <1>3, <1>r, <2>1, <2>2, <2>5, <2>6 DEF dispatch_syscall_create
<1>4. CASE syscall_yield
  BY <1>4, <1>0 DEF syscall_yield, signalVars
<1>5. CASE syscall_getpid \/ dispatch_syscall_puts \/ dispatch_syscall_getcputimes
  BY <1>5, <1>0 DEF syscall_getpid, dispatch_syscall_puts, dispatch_syscall_getcputimes, Return,
              Ignore, Asserting, signalVars
<1>6. CASE dispatch_syscall_kill
  <2>1. PICK target \in PidArgs, signal \in SignalArgs :
          \/ \E code : Return(code)
          \/ signal \in Signals /\ set_proc_signal(pid_to_proc(target), signal)
    BY <1>6 DEF dispatch_syscall_kill
  <2>2. ASSUME set_proc_signal(pid_to_proc(target), signal), signal \in Signals
        PROVE  SignalTypes'
    BY <2>2 DEF set_proc_signal, Asserting, SignalTypes, signalVars
  <2> QED BY <2>1, <2>2, <1>r
<1>7. CASE dispatch_syscall_wait
  BY <1>7, <1>0, <1>r DEF dispatch_syscall_wait, signalVars
<1>8. CASE dispatch_syscall_send
  BY <1>8, <1>0, <1>r DEF dispatch_syscall_send, send_now, send_blocks, Asserting, signalVars
<1>9. CASE dispatch_syscall_recv
  BY <1>9, <1>0, <1>r DEF dispatch_syscall_recv, recv, recv_any, recv_now, Asserting, signalVars
<1>10. CASE dispatch_syscall_sleep
  BY <1>10, <1>0 DEF dispatch_syscall_sleep, sleep, Ignore, signalVars
<1>11. CASE dispatch_syscall_sighandler
  <2>1. CASE \E signal \in Signals, new_handler \in Handlers \cup {NULL} :
                /\ signal_table' = [signal_table EXCEPT ![currproc][signal] = new_handler]
                /\ UNCHANGED <<signals_fired, signals_enabled>>
    <3>1. Handlers \cup {NULL} \subseteq Nat
      BY WordAssumption
    <3>2. PICK signal \in Signals, new_handler \in Nat :
            signal_table' = [signal_table EXCEPT ![currproc][signal] = new_handler]
      BY <2>1, <3>1
    <3>3. signal_table' \in [Procs -> [Signals -> Nat]]
      BY <3>2 DEF SignalTypes
    <3> QED BY <2>1, <3>3 DEF SignalTypes
  <2> QED BY <1>11, <2>1, <1>r DEF dispatch_syscall_sighandler
<1>12. CASE sigreturn
  BY <1>12 DEF sigreturn, SignalTypes
<1>13. CASE cleanup_proc
  BY <1>13, <1>0 DEF cleanup_proc, Asserting, signalVars
<1> QED BY <1>1, <1>2, <1>3, <1>4, <1>5, <1>6, <1>7, <1>8, <1>9, <1>10, <1>11, <1>12, <1>13
           DEF Next, syscall_stop, dispatch_syscall_sigreturn

\* A deliverable signal stays with nobody who is blocked or about to run.
LEMMA NextSignalLeft == ASSUME IInv, SigInv, Next PROVE NoSignalLeftBehind'
<1> USE SlotFacts
<1>1. BlockedAfter
  BY NextBlocked DEF SigInv
<1>2. CASE ctsw_contextswitch
  <2>1. UNCHANGED <<curr_state, currproc>>
    BY <1>2 DEF ctsw_contextswitch, pcbVars, listVars
  <2>2. currproc \in Procs => ~deliverable(currproc)'
    BY <1>2, <2>1 DEF ctsw_contextswitch, call_highest_priority_signal, deliverable, signalVars,
                      SigInv, SignalTypes
  <2>3. \A p \in Slots : curr_state'[p] = BLOCKED => ~deliverable(p)'
    BY <1>1, <2>1, IInvTypes DEF BlockedAfter, StaysBlocked, deliverable, SigInv, NoSignalLeftBehind
  <2> QED BY <2>1, <2>2, <2>3 DEF NoSignalLeftBehind
<1>3. CASE mode = "user" /\ mode' = "kernel"
  <2> SUFFICES ASSUME NEW p \in Slots, curr_state'[p] = BLOCKED
               PROVE  ~deliverable(p)'
    BY <1>3 DEF NoSignalLeftBehind
  <2>1. ~deliverable(p)
    BY <1>1, <1>3 DEF BlockedAfter, StaysBlocked, SigInv, NoSignalLeftBehind
  <2> QED BY <1>1, <2>1 DEF BlockedAfter, deliverable
<1> QED BY <1>2, <1>3, SignalEffects

\* Initially no signal is pending and no handler runs.
LEMMA InitSigInv == Init => SigInv
<1> SUFFICES ASSUME Init PROVE SigInv
  OBVIOUS
<1> USE SlotFacts
<1>1. SignalTypes
  <2>1. \A t \in new_signal_tables : t \in [Signals -> Nat]
    BY NewTables
  <2>2. PICK t \in new_signal_tables :
          signal_table = [p \in Procs |-> IF p = 1 THEN t ELSE [s \in Signals |-> NULL]]
    BY DEF Init
  <2>3. signal_table \in [Procs -> [Signals -> Nat]]
    BY <2>1, <2>2
  <2> QED BY <2>3 DEF Init, SignalTypes
<1>2. FramesMatch
  BY TableAssumption DEF Init, FramesMatch, FrameMatches, IdleProc
<1>3. NoSignalLeftBehind
  BY DEF Init, NoSignalLeftBehind, deliverable
<1> QED BY <1>1, <1>2, <1>3 DEF SigInv, Init

\* Every step keeps the invariant of the signals.
LEMMA NextSigInv == IInv /\ IInv' /\ SigInv /\ [Next]_vars => SigInv'
<1> SUFFICES ASSUME IInv, IInv', SigInv, [Next]_vars PROVE SigInv'
  OBVIOUS
<1>1. CASE Next
  <2>1. mode' \in {"kernel", "user"}
    BY <1>1, SignalEffects DEF ctsw_contextswitch
  <2> QED BY <1>1, <2>1, NextFrames, NextSignalTypes, NextSignalLeft DEF SigInv
<1>2. CASE UNCHANGED vars
  BY <1>2 DEF vars, signalVars, pcbVars, listVars, SigInv, SignalTypes, FramesMatch, FrameMatches,
              NoSignalLeftBehind, deliverable
<1> QED BY <1>1, <1>2

-----------------------------------------------------------------------------
\* The signal invariant holds in every reachable state.
THEOREM SignalStructure == Spec => []SigInv
<1>1. Init => IInv /\ SigInv
  BY InitIInv, InitSigInv
<1>2. IInv /\ SigInv /\ [Next]_vars => (IInv /\ SigInv)'
  BY NextIInv, NextSigInv
<1> QED BY <1>1, <1>2, PTL DEF Spec

\* In every behaviour of the kernel, a signal that may be delivered is never
\* left behind a call that blocks, nor does a process run with one pending.
THEOREM SignalsEndCalls == Spec => []NoSignalLeftBehind
<1>1. SigInv => NoSignalLeftBehind
  BY DEF SigInv
<1> QED BY <1>1, SignalStructure, PTL

\* In every behaviour, signals are enabled exactly when no handler runs, so
\* that handlers do not nest and sigreturn has one context to go back to.
THEOREM HandlersStaySingle == Spec => []HandlersNeverNest
<1>1. SigInv => HandlersNeverNest
  <2> SUFFICES ASSUME SigInv, NEW p \in Slots, curr_state[p] # STOPPED
               PROVE  Len(frames[p]) <= 1 /\ (signals_enabled[p] <=> frames[p] = <<>>)
    BY DEF HandlersNeverNest
  <2>1. CASE frames[p] = <<>> /\ signals_enabled[p]
    BY <2>1
  <2>2. CASE ~signals_enabled[p] /\ Len(frames[p]) = 1
    BY <2>2
  <2> QED BY <2>1, <2>2 DEF SigInv, FramesMatch, FrameMatches
<1> QED BY <1>1, SignalStructure, PTL

-----------------------------------------------------------------------------
(* The assertions of the kernel *)

\* A table with a STOPPED pcb has room for everybody and the idle process.
LEMMA RoomForAll == ~TableFull => get_all_proc_info < PCB_TABLE_SIZE
<1> DEFINE S == {p \in Slots : curr_state[p] # STOPPED}
<1>1. IsFiniteSet(Slots) /\ Cardinality(Slots) = PCB_TABLE_SIZE
  BY FS_Interval, TableAssumption DEF Slots
<1>2. /\ IsFiniteSet(S) /\ Cardinality(S) <= Cardinality(Slots)
      /\ Cardinality(S) = Cardinality(Slots) => S = Slots
  BY <1>1, FS_Subset
<1>3. Cardinality(S) \in Nat
  BY <1>2, FS_CardinalityType
<1>4. ~TableFull => S # Slots
  BY DEF TableFull
<1> QED BY <1>1, <1>2, <1>3, <1>4, TableAssumption DEF get_all_proc_info

\* tick wakes only processes that are asleep.
LEMMA TimerAsserts == ASSUME IInv, timer_handler PROVE halted' = halted
<1> USE SlotFacts
<1> DEFINE woken == SubSeq(sleeping, 1, expired)
<1>1. expired \in 0..Len(sleeping)
  BY ExpiredRange
<1>2. ToSet(woken) \subseteq Asleep
  <2>1. sleeping \in Seq(Slots) /\ Lists(sleeping, Asleep)
    BY IInvTypes, IInvLists
  <2> QED BY <1>1, <2>1, CutLists
<1>3. \A p \in ToSet(woken) : /\ curr_state[p] = BLOCKED
                              /\ blocking_queue_name[p] = SLEEP /\ blocking_proc[p] = NULL
  BY <1>2 DEF Asleep, IInv, BlockersMatchStates, Queues
<1>4. curr_state[currproc] # READY
  BY IInvTypes
<1> QED BY <1>3, <1>4 DEF timer_handler, Asserting

\* Everybody in a queue of the process that dies is blocked there, and the
\* process itself is not.
LEMMA CleanupAsserts ==
    ASSUME IInv, currproc # IdleProc, cleanup_proc
    PROVE  halted' = halted
<1> USE SlotFacts
<1>1. /\ currproc \in Slots /\ curr_state[currproc] = RUNNING
  BY IInvTypes
<1>2. ASSUME NEW q \in Queues, NEW w \in ToSet(blocking_queue[currproc][q])
      PROVE  blocking_proc[w] = currproc /\ blocking_queue_name[w] = q /\ curr_state[w] = BLOCKED
  <2>1. w \in BlockedOn(currproc, q)
    BY <1>1, <1>2, IInvLists DEF Lists
  <2> QED BY <2>1 DEF BlockedOn
<1>3. blocking_queue_name[currproc] = NO_BLOCKER
  BY <1>1 DEF IInv, BlockersMatchStates
<1> QED BY <1>2, <1>3 DEF cleanup_proc, Asserting

\* A partner that send and recv find is BLOCKED, as ready_proc asserts, and
\* so is the target of a signal whose call is to be ended.
LEMMA PartnerAsserts ==
    ASSUME IInv, NEW p \in Slots
    PROVE  /\ curr_state[p] # STOPPED /\ blocking_queue_name[p] = RECEIVE_ANY
                => curr_state[p] = BLOCKED
           /\ \A o \in Slots : \A q : blocked_in(p, o, q) => curr_state[p] = BLOCKED
           /\ curr_state[p] = BLOCKED => resolvable(p)
BY IInvTypes, SlotFacts DEF IInv, BlockersMatchStates, blocked_in, resolvable, ProcStates

\* Pids are natural numbers, those of a pcb that was never used included.
PidsAreNat == pid \in [Procs -> Nat]

\* Only a pid that would pass INT_MAX, and is a multiple of the table size, is
\* followed by one that is not positive.
LEMMA NextPidIs ==
    ASSUME NEW old \in Nat
    PROVE  /\ next_pid(old) \in Nat
           /\ ~(next_pid(old) >= 1) => old + PCB_TABLE_SIZE > INT_MAX /\ old % PCB_TABLE_SIZE = 0
<1>1. old % PCB_TABLE_SIZE \in Nat
  BY TableAssumption
<1> QED BY <1>1, TableAssumption, PidAssumption DEF next_pid

\* Every step halts the kernel only for one of the two reasons.
LEMMA NextAsserts ==
    ASSUME IInv, PidsAreNat, Next
    PROVE  halted' = halted \/ (dispatch_syscall_create /\ PidsRunOut)
                            \/ (dispatch_syscall_getcputimes /\ TableFull)
<1> USE SlotFacts
<1>r. ASSUME NEW code, Return(code) PROVE halted' = halted
  BY <1>r DEF Return
<1>b. ASSUME NEW p \in Int PROVE \/ pid_to_proc(p) = NULL
                                 \/ pid_to_proc(p) \in Slots /\ curr_state[pid_to_proc(p)] # STOPPED
  BY <1>b, PidToProc
<1>1. CASE ctsw_contextswitch
  BY <1>1 DEF ctsw_contextswitch
<1>2. CASE timer_handler
  BY <1>2, TimerAsserts
<1>3. CASE dispatch_syscall_create
  <2>1. create => halted' = halted \/ PidsRunOut
    <3> SUFFICES ASSUME create, ~PidsRunOut PROVE halted' = halted
      OBVIOUS
    <3>1. stopped # <<>> /\ next_pid(pid[Head(stopped)]) <= PidBound
      BY DEF create
    <3>2. CASE next_pid(pid[Head(stopped)]) >= 1
      BY <3>2 DEF create, Asserting
    <3>3. CASE ~(next_pid(pid[Head(stopped)]) >= 1)
      <4>1. pid[Head(stopped)] \in Nat
        BY <3>1, NextFree DEF PidsAreNat
      <4> QED BY <3>1, <3>3, <4>1, NextPidIs DEF PidsRunOut
    <3> QED BY <3>2, <3>3
  <2> QED BY <1>3, <1>r, <2>1 DEF dispatch_syscall_create, create_without_table
<1>4. CASE syscall_yield
  BY <1>4 DEF syscall_yield
<1>5. CASE syscall_stop
  BY <1>5, CleanupAsserts DEF syscall_stop, Syscall
<1>6. CASE syscall_getpid
  BY <1>6, <1>r DEF syscall_getpid
<1>7. CASE dispatch_syscall_kill
  <2>1. PICK target \in PidArgs, signal \in SignalArgs :
          \/ \E code : Return(code)
          \/ pid_to_proc(target) # NULL /\ set_proc_signal(pid_to_proc(target), signal)
    BY <1>7 DEF dispatch_syscall_kill
  <2>2. ASSUME pid_to_proc(target) # NULL, set_proc_signal(pid_to_proc(target), signal)
        PROVE  halted' = halted
    BY <2>2, <1>b, PidAssumption, PartnerAsserts DEF set_proc_signal, Asserting
  <2> QED BY <2>1, <2>2, <1>r
<1>8. CASE dispatch_syscall_wait
  BY <1>8, <1>r DEF dispatch_syscall_wait
<1>9. CASE dispatch_syscall_puts
  BY <1>9 DEF dispatch_syscall_puts, Ignore
<1>10. CASE dispatch_syscall_send
  <2>1. PICK dest_pid \in PidArgs :
          \/ \E code : Return(code)
          \/ /\ pid_to_proc(dest_pid) # NULL
             /\ \E message \in Messages : \/ send_now(pid_to_proc(dest_pid), message)
                                          \/ send_blocks(pid_to_proc(dest_pid), message)
    BY <1>10 DEF dispatch_syscall_send
  <2>2. currproc \in Slots
    BY <1>10, IInvTypes DEF dispatch_syscall_send, Syscall
  <2>3. ASSUME NEW dest \in Slots, curr_state[dest] # STOPPED, NEW message,
               send_now(dest, message)
        PROVE  halted' = halted
    BY <2>2, <2>3, PartnerAsserts DEF send_now, receiver_waits, Asserting
  <2> QED BY <2>1, <2>3, <1>r, <1>b, PidAssumption DEF send_blocks
<1>11. CASE dispatch_syscall_recv
  <2>1. currproc \in Slots
    BY <1>11, IInvTypes DEF dispatch_syscall_recv, Syscall
  <2>2. ASSUME NEW src \in Slots, blocked_in(src, currproc, SENDER), NEW len, recv_now(src, len)
        PROVE  halted' = halted
    BY <2>1, <2>2, PartnerAsserts DEF recv_now, Asserting
  <2>3. ASSUME NEW len, recv_any(len) PROVE halted' = halted
    <3> DEFINE senders == blocking_queue[currproc][SENDER]
    <3>1. senders \in Seq(Slots)
      BY IInvTypes DEF Queues
    <3>2. senders # <<>> => Head(senders) \in Slots
      BY <3>1
    <3> QED BY <2>2, <2>3, <3>2, <1>r DEF recv_any
  <2>4. ASSUME NEW from \in PidArgs \cup {0}, pid_to_proc(from) # NULL, NEW len,
               recv(pid_to_proc(from), len)
        PROVE  halted' = halted
    <3>1. pid_to_proc(from) \in Slots
      BY <2>4, <1>b, PidAssumption
    <3> QED BY <2>2, <2>4, <3>1 DEF recv
  <2> QED BY <1>11, <1>r, <2>3, <2>4 DEF dispatch_syscall_recv
<1>12. CASE dispatch_syscall_sleep
  BY <1>12 DEF dispatch_syscall_sleep, sleep, Ignore
<1>13. CASE dispatch_syscall_getcputimes
  BY <1>13, <1>r, RoomForAll DEF dispatch_syscall_getcputimes, Asserting
<1>14. CASE dispatch_syscall_sighandler
  BY <1>14, <1>r DEF dispatch_syscall_sighandler
<1>15. CASE dispatch_syscall_sigreturn
  BY <1>15, CleanupAsserts DEF dispatch_syscall_sigreturn, Syscall, sigreturn
<1> QED BY <1>1, <1>2, <1>3, <1>4, <1>5, <1>6, <1>7, <1>8, <1>9, <1>10, <1>11, <1>12,
           <1>13, <1>14, <1>15 DEF Next

\* Instances in which neither assertion is reached: pids stay out of reach of INT_MAX, and
\* a caller of sysgetcputimes has a pcb to spare.
Sparing ==
    /\ PidBound + PCB_TABLE_SIZE <= INT_MAX /\ 2 * PCB_TABLE_SIZE + 1 <= INT_MAX
    /\ "CPUTIMES" \in Syscalls => PCB_TABLE_SIZE > 1 /\ PidBound < 2 * PCB_TABLE_SIZE

\* Pids are positive and have a successor; the last pcb is never taken if
\* sysgetcputimes is used.
PidsFit ==
    /\ pid \in [Procs -> Nat]
    /\ \A p \in Slots : pid[p] >= 1 /\ pid[p] + PCB_TABLE_SIZE <= INT_MAX
    /\ "CPUTIMES" \in Syscalls =>
          pid[PCB_TABLE_SIZE] = PCB_TABLE_SIZE /\ curr_state[PCB_TABLE_SIZE] = STOPPED

HaltInv == PidsFit /\ ~halted

\* Initially no assertion has failed.
LEMMA InitHaltInv == ASSUME Sparing, Init PROVE HaltInv
<1> USE TableAssumption, PidAssumption
<1>1. pid \in [Procs -> Nat] /\ \A p \in Slots : pid[p] = IF p = 1 THEN 1 + PCB_TABLE_SIZE ELSE p
  <2>1. pid = [p \in Procs |-> IF p = IdleProc THEN 0 ELSE IF p = 1 THEN 1 + PCB_TABLE_SIZE ELSE p]
    BY DEF Init
  <2>2. Procs \subseteq Nat /\ 1 + PCB_TABLE_SIZE \in Nat
    BY DEF Procs
  <2>3. \A p \in Procs : pid[p] \in Nat
    BY <2>1, <2>2
  <2>4. pid \in [Procs -> Nat]
    BY <2>1, <2>3
  <2> QED BY <2>1, <2>4, SlotFacts
<1>2. \A p \in Slots : p \in Nat /\ p >= 1 /\ p <= PCB_TABLE_SIZE
  BY DEF Slots
<1>3. \A p \in Slots : pid[p] >= 1 /\ pid[p] + PCB_TABLE_SIZE <= INT_MAX
  <2>1. 2 * PCB_TABLE_SIZE + 1 <= INT_MAX
    BY DEF Sparing
  <2> QED BY <1>1, <1>2, <2>1
<1>4. ASSUME "CPUTIMES" \in Syscalls
      PROVE  pid[PCB_TABLE_SIZE] = PCB_TABLE_SIZE /\ curr_state[PCB_TABLE_SIZE] = STOPPED
  <2>1. PCB_TABLE_SIZE \in Slots /\ PCB_TABLE_SIZE # 1
    BY <1>4 DEF Sparing, Slots
  <2> QED BY <1>1, <2>1, SlotFacts DEF Init
<1> QED BY <1>1, <1>3, <1>4 DEF HaltInv, PidsFit, Init

\* Only create changes a pid.
LEMMA NextPids == Next => pid' = pid \/ create
<1> SUFFICES ASSUME Next PROVE pid' = pid \/ create
  OBVIOUS
<1> USE DEF pcbVars
<1>1. CASE timer_handler \/ ctsw_contextswitch \/ syscall_yield \/ dispatch_syscall_puts
  BY <1>1 DEF timer_handler, ctsw_contextswitch, syscall_yield, dispatch_syscall_puts, Ignore, Asserting
<1>2. CASE dispatch_syscall_create
  BY <1>2 DEF dispatch_syscall_create, create_without_table, Return
<1>3. CASE cleanup_proc
  BY <1>3 DEF cleanup_proc, Asserting
<1>4. CASE syscall_getpid \/ dispatch_syscall_getcputimes
  BY <1>4 DEF syscall_getpid, dispatch_syscall_getcputimes, Return, Asserting
<1>5. CASE dispatch_syscall_kill
  BY <1>5 DEF dispatch_syscall_kill, set_proc_signal, resolve_blocking, Return, Asserting
<1>6. CASE dispatch_syscall_wait
  BY <1>6 DEF dispatch_syscall_wait, Return
<1>7. CASE dispatch_syscall_send
  BY <1>7 DEF dispatch_syscall_send, send_now, send_blocks, Return, Asserting
<1>8. CASE dispatch_syscall_recv
  BY <1>8 DEF dispatch_syscall_recv, recv, recv_any, recv_now, Return, Asserting
<1>9. CASE dispatch_syscall_sleep
  BY <1>9 DEF dispatch_syscall_sleep, sleep, Ignore
<1>10. CASE dispatch_syscall_sighandler
  BY <1>10 DEF dispatch_syscall_sighandler, Return
<1>11. CASE sigreturn
  BY <1>11 DEF sigreturn
<1> QED BY <1>1, <1>2, <1>3, <1>4, <1>5, <1>6, <1>7, <1>8, <1>9, <1>10, <1>11
           DEF Next, syscall_stop, dispatch_syscall_sigreturn

\* create gives a pcb the next pid, which is a natural number too.
LEMMA NextPidsAreNat == ASSUME IInv, PidsAreNat, Next PROVE PidsAreNat'
<1>1. CASE pid' = pid
  BY <1>1 DEF PidsAreNat
<1>2. CASE create /\ pid' # pid
  <2> DEFINE proc == Head(stopped)
  <2>1. stopped # <<>> /\ pid' = [pid EXCEPT ![proc] = next_pid(pid[proc])]
    BY <1>2 DEF create, Asserting, pcbVars
  <2>2. proc \in Procs
    BY <2>1, NextFree, SlotFacts
  <2>3. next_pid(pid[proc]) \in Nat
    BY <2>2, NextPidIs DEF PidsAreNat
  <2> QED BY <2>1, <2>2, <2>3 DEF PidsAreNat
<1> QED BY <1>1, <1>2, NextPids

\* In every behaviour of the kernel, whatever the constants, the only
\* assertions that fail are those two.
THEOREM TwoAssertions == Spec => HaltsOnlyWhen
<1>1. Init => IInv /\ PidsAreNat
  <2>1. ASSUME Init PROVE PidsAreNat
    BY <2>1, TableAssumption DEF Init, PidsAreNat, Procs
  <2> QED BY <2>1, InitIInv
<1>2. IInv /\ PidsAreNat /\ [Next]_vars => (IInv /\ PidsAreNat)'
  <2> SUFFICES ASSUME IInv, PidsAreNat, [Next]_vars PROVE (IInv /\ PidsAreNat)'
    OBVIOUS
  <2>1. CASE Next
    BY <2>1, NextIInv, NextPidsAreNat
  <2>2. CASE UNCHANGED vars
    BY <2>2, NextIInv DEF vars, pcbVars, PidsAreNat
  <2> QED BY <2>1, <2>2
<1>3. IInv /\ PidsAreNat /\ [Next]_vars => [halted' # halted => KnownFailure]_vars
  <2> SUFFICES ASSUME IInv, PidsAreNat, [Next]_vars, halted' # halted
               PROVE  KnownFailure
    OBVIOUS
  <2>1. Next
    BY DEF vars
  <2> QED BY <2>1, NextAsserts DEF KnownFailure
<1> QED BY <1>1, <1>2, <1>3, PTL DEF Spec, HaltsOnlyWhen

\* A STOPPED process that create does not take stays STOPPED.
LEMMA StaysStopped ==
    ASSUME IInv, IInv', Next, NEW p \in Slots, curr_state[p] = STOPPED,
           create => Head(stopped) # p
    PROVE  curr_state'[p] = STOPPED
<1> USE SlotFacts
<1>0. ASSUME UNCHANGED stopped PROVE curr_state'[p] = STOPPED
  BY <1>0, StoppedSame
<1>1. CASE ctsw_contextswitch
  BY <1>1, <1>0 DEF ctsw_contextswitch, listVars
<1>2. CASE create
  <2>1. CASE UNCHANGED listVars
    BY <2>1, <1>0 DEF listVars
  <2>2. CASE curr_state' = [curr_state EXCEPT ![Head(stopped)] = READY]
    BY <2>2, <1>2, IInvTypes
  <2> QED BY <1>2, <2>1, <2>2 DEF create, Asserting
<1>3. CASE create_without_table
  BY <1>3 DEF create_without_table
<1>4. CASE cleanup_proc
  <2>1. CASE UNCHANGED listVars
    BY <2>1, <1>0 DEF listVars
  <2>2. CASE stopped' = add_proc_to_queue(stopped, currproc)
    <3>1. stopped \in Seq(Slots) /\ currproc \in Procs /\ p \in ToSet(stopped)
      BY IInvTypes, IInvLists DEF Lists, InState
    <3> DEFINE r == Append(stopped, currproc)
    <3>2. /\ Len(stopped) \in Nat /\ DOMAIN stopped = 1..Len(stopped)
          /\ DOMAIN r = 1..(Len(stopped) + 1)
          /\ \A i \in 1..Len(stopped) : r[i] = stopped[i]
      BY <3>1
    <3> HIDE DEF r
    <3>3. p \in ToSet(r)
      BY <3>1, <3>2 DEF ToSet
    <3>4. ToSet(stopped') = InState(STOPPED)'
      BY DEF IInv, QueueIntegrity, Lists
    <3> QED BY <2>2, <3>3, <3>4 DEF InState, add_proc_to_queue, r
  <2> QED BY <1>4, <2>1, <2>2 DEF cleanup_proc, Asserting
<1>5. CASE sigreturn
  BY <1>5 DEF sigreturn, pcbVars
<1> QED BY <1>0, <1>1, <1>2, <1>3, <1>4, <1>5, SignalEffects

\* No step fails an assertion, under these assumptions.
LEMMA NextHaltInv == ASSUME Sparing, IInv, IInv', HaltInv, Next PROVE HaltInv'
<1> USE TableAssumption, PidAssumption
<1>1. PCB_TABLE_SIZE \in Slots
  BY DEF Slots
<1>2. pid \in [Procs -> Nat] /\ \A p \in Slots : pid[p] \in Nat /\ pid[p] >= 1
                                                  /\ pid[p] + PCB_TABLE_SIZE <= INT_MAX
  BY SlotFacts DEF HaltInv, PidsFit
<1>3. stopped # <<>> => next_pid(pid[Head(stopped)]) = pid[Head(stopped)] + PCB_TABLE_SIZE
  BY <1>2, NextFree DEF next_pid
<1>4. ~PidsRunOut
  BY <1>2, <1>3, NextFree DEF PidsRunOut
<1>5. ~halted'
  <2>1. ~(dispatch_syscall_getcputimes /\ TableFull)
    BY <1>1 DEF HaltInv, PidsFit, TableFull, dispatch_syscall_getcputimes, Syscall
  <2>2. PidsAreNat
    BY <1>2 DEF PidsAreNat
  <2> QED BY <1>4, <2>1, <2>2, NextAsserts DEF HaltInv
<1>6. CASE create /\ pid' # pid
  <2> DEFINE proc == Head(stopped)
  <2>1. /\ stopped # <<>> /\ pid' = [pid EXCEPT ![proc] = next_pid(pid[proc])]
        /\ next_pid(pid[proc]) <= PidBound
    BY <1>6 DEF create, Asserting, pcbVars
  <2>2. proc \in Slots /\ next_pid(pid[proc]) = pid[proc] + PCB_TABLE_SIZE
    BY <2>1, <1>3, NextFree
  <2> HIDE DEF proc
  <2>3. pid' \in [Procs -> Nat]
    BY <1>2, <2>1, <2>2, SlotFacts
  <2>4. \A p \in Slots : pid'[p] >= 1 /\ pid'[p] + PCB_TABLE_SIZE <= INT_MAX
    <3> SUFFICES ASSUME NEW p \in Slots
                 PROVE  pid'[p] >= 1 /\ pid'[p] + PCB_TABLE_SIZE <= INT_MAX
      OBVIOUS
    <3>1. CASE p = proc
      BY <3>1, <1>2, <2>1, <2>2, SlotFacts DEF Sparing
    <3>2. CASE p # proc
      BY <3>2, <1>2, <2>1, SlotFacts
    <3> QED BY <3>1, <3>2
  <2>5. ASSUME "CPUTIMES" \in Syscalls
        PROVE  /\ pid'[PCB_TABLE_SIZE] = PCB_TABLE_SIZE
               /\ curr_state'[PCB_TABLE_SIZE] = STOPPED
    <3>1. /\ pid[PCB_TABLE_SIZE] = PCB_TABLE_SIZE /\ curr_state[PCB_TABLE_SIZE] = STOPPED
          /\ PidBound < 2 * PCB_TABLE_SIZE
      BY <2>5 DEF HaltInv, PidsFit, Sparing
    <3>2. proc # PCB_TABLE_SIZE
      BY <2>1, <2>2, <3>1
    <3>3. pid'[PCB_TABLE_SIZE] = pid[PCB_TABLE_SIZE]
      BY <1>1, <1>2, <2>1, <3>2, SlotFacts
    <3> QED BY <1>1, <3>1, <3>2, <3>3, StaysStopped DEF proc
  <2> QED BY <1>5, <2>3, <2>4, <2>5 DEF HaltInv, PidsFit
<1>7. CASE pid' = pid
  <2>1. ASSUME "CPUTIMES" \in Syscalls
        PROVE  curr_state'[PCB_TABLE_SIZE] = STOPPED
    <3>1. /\ pid[PCB_TABLE_SIZE] = PCB_TABLE_SIZE /\ curr_state[PCB_TABLE_SIZE] = STOPPED
          /\ PidBound < 2 * PCB_TABLE_SIZE
      BY <2>1 DEF HaltInv, PidsFit, Sparing
    <3>2. create => Head(stopped) # PCB_TABLE_SIZE
      BY <3>1, <1>3 DEF create
    <3> QED BY <1>1, <3>1, <3>2, StaysStopped
  <2> QED BY <1>5, <1>7, <2>1 DEF HaltInv, PidsFit
<1> QED BY <1>6, <1>7, NextPids

\* In such an instance no assertion fails, whatever the processes do.
THEOREM KernelNeverHalts == ASSUME Sparing PROVE Spec => []NeverHalts
<1>1. Init => IInv /\ HaltInv
  BY InitIInv, InitHaltInv
<1>2. IInv /\ HaltInv /\ [Next]_vars => (IInv /\ HaltInv)'
  <2> SUFFICES ASSUME IInv, HaltInv, [Next]_vars PROVE (IInv /\ HaltInv)'
    OBVIOUS
  <2>1. IInv'
    BY NextIInv
  <2>2. CASE Next
    BY <2>1, <2>2, NextHaltInv
  <2>3. CASE UNCHANGED vars
    BY <2>1, <2>3 DEF vars, pcbVars, HaltInv, PidsFit
  <2> QED BY <2>2, <2>3
<1>3. HaltInv => NeverHalts
  BY DEF HaltInv, NeverHalts
<1> QED BY <1>1, <1>2, <1>3, PTL DEF Spec
=============================================================================
