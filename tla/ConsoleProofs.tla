------------------------------ MODULE ConsoleProofs ------------------------------
(***************************************************************************)
(* Proofs about the console, for every size of the display, every distance *)
(* of the tab stops and every text that is printed.                        *)
(***************************************************************************)
EXTENDS Kprintf, WellFoundedInduction, TLAPS

-----------------------------------------------------------------------------
(* Rows and columns *)

\* The number of cells is that of whole lines, one at least.
LEMMA Sizes ==
    /\ COL \in Nat /\ COL >= 1 /\ ROW \in Nat /\ ROW >= 1 /\ COL * ROW \in Nat
    /\ COL * ROW >= COL /\ Cells = 0..(COL * ROW - 1) /\ COL * ROW = ROW * COL
    /\ TAB \in Nat /\ TAB >= 1
<1>1. \A x, y \in Nat : x >= 1 /\ y >= 1 => x * y >= x /\ x * y \in Nat /\ x * y = y * x
  OBVIOUS
<1> QED BY <1>1, DisplayAssumption DEF Cells

\* Division with remainder.
LEMMA Division ==
    ASSUME NEW n \in Nat, NEW a \in Int, n >= 1
    PROVE  /\ a \div n \in Int /\ a % n \in 0..(n - 1)
           /\ a = (a \div n) * n + (a % n)
OBVIOUS

\* It is unique.
LEMMA Unique ==
    ASSUME NEW n \in Nat, n >= 1, NEW q \in Int, NEW r \in 0..(n - 1)
    PROVE  (q * n + r) \div n = q /\ (q * n + r) % n = r
<1> DEFINE a == q * n + r
<1>1. a \in Int /\ a \div n \in Int /\ a % n \in 0..(n - 1) /\ a = (a \div n) * n + (a % n)
  BY Division
<1> QED BY <1>1

\* A quotient is not negative, and a line is left as long as it is of the
\* display.
LEMMA Multiples ==
    ASSUME NEW n \in Nat, n >= 1, NEW q \in Int, NEW r \in 0..(n - 1), NEW m \in Int
    PROVE  /\ q * n + r >= m * n <=> q >= m
           /\ q * n + r < m * n <=> q < m
OBVIOUS

\* How far it is from a cell to the tab stop after it.
To(a) == TAB - (a % TAB)

\* That stop is on the cell's line or at its end, and there is none before it.
LEMMA TabStops ==
    ASSUME NEW a \in Cells
    PROVE  /\ To(a) \in 1..TAB /\ a + To(a) <= COL * ROW
           /\ (a + To(a)) % TAB = 0 /\ (a + To(a) - COL) % TAB = 0
           /\ \A i \in 1..(To(a) - 1) : (a + i) % TAB # 0
           /\ (a % COL) + To(a) <= COL
           /\ (((a % COL) \div TAB) + 1) * TAB = (a % COL) + To(a)
<1> DEFINE p == COL \div TAB
           row == a \div COL
           col == a % COL
<1>1. /\ a \in Int /\ COL \in Nat /\ COL >= 1 /\ ROW \in Nat /\ TAB \in Nat /\ TAB >= 1
      /\ a >= 0 /\ a < COL * ROW
  BY Sizes
<1>2. p \in Int /\ COL = p * TAB
  BY <1>1, Division, DisplayAssumption
<1>3. row \in Int /\ col \in 0..(COL - 1) /\ a = row * COL + col
  BY <1>1, Division
<1> HIDE DEF p, row, col
<1> DEFINE q == col \div TAB
           r == col % TAB
<1>4. q \in Int /\ r \in 0..(TAB - 1) /\ col = q * TAB + r
  BY <1>1, <1>3, Division
<1> HIDE DEF q, r
<1>5. /\ row * COL \in Int /\ row * p \in Int /\ row * COL = (row * p) * TAB
      /\ ROW * p \in Int /\ COL * ROW = (ROW * p) * TAB
  BY <1>1, <1>2, <1>3
<1> DEFINE m == row * p + q
<1>6. m \in Int /\ a = m * TAB + r
  <2>1. m * TAB = (row * p) * TAB + q * TAB
    BY <1>1, <1>4, <1>5
  <2> QED BY <1>1, <1>3, <1>4, <1>5, <2>1
<1> HIDE DEF m
<1>7. a % TAB = r /\ To(a) = TAB - r
  BY <1>1, <1>4, <1>6, Unique DEF To
<1>8. To(a) \in 1..TAB
  BY <1>1, <1>4, <1>7
<1>9. a + To(a) = (m + 1) * TAB + 0
  BY <1>1, <1>4, <1>6, <1>7
<1>10. (a + To(a)) % TAB = 0
  <2>1. 0 \in 0..(TAB - 1) /\ m + 1 \in Int
    BY <1>1, <1>6
  <2> QED BY <1>1, <1>9, <2>1, Unique
<1>11. (a + To(a) - COL) % TAB = 0
  <2>1. (m + 1) * TAB - p * TAB = (m + 1 - p) * TAB
    BY <1>1, <1>2, <1>6
  <2> DEFINE x == (m + 1) * TAB
             y == p * TAB
             z == (m + 1 - p) * TAB
  <2>4. x \in Int /\ y \in Int /\ z \in Int /\ a + To(a) = x + 0 /\ COL = y /\ x - y = z
    BY <1>1, <1>2, <1>6, <1>9, <2>1
  <2> HIDE DEF x, y, z
  <2>5. a + To(a) - COL = z + 0
    BY <1>1, <1>8, <2>4
  <2>2. a + To(a) - COL = (m + 1 - p) * TAB + 0
    BY <2>5 DEF z
  <2>3. 0 \in 0..(TAB - 1) /\ m + 1 - p \in Int
    BY <1>1, <1>2, <1>6
  <2> QED BY <1>1, <2>2, <2>3, Unique
<1>12. ASSUME NEW i \in 1..(To(a) - 1) PROVE (a + i) % TAB # 0
  <2>1. r + i \in 0..(TAB - 1) /\ r + i # 0 /\ a + i = m * TAB + (r + i)
    BY <1>1, <1>4, <1>6, <1>7
  <2>2. (m * TAB + (r + i)) % TAB = r + i
    BY <1>1, <1>6, <2>1, Unique
  <2> QED BY <2>1, <2>2
<1>13. a + To(a) <= COL * ROW
  <2>1. m * TAB + r < (ROW * p) * TAB
    BY <1>1, <1>5, <1>6
  <2>2. m < ROW * p
    BY <1>1, <1>4, <1>5, <1>6, <2>1, Multiples
  <2>3. m + 1 <= ROW * p
    BY <1>5, <1>6, <2>2
  <2>4. (ROW * p) * TAB + 0 >= (m + 1) * TAB
    BY <1>1, <1>5, <1>6, <2>3, Multiples
  <2> QED BY <1>1, <1>5, <1>6, <1>9, <2>4
<1>14. col + To(a) = (q + 1) * TAB
  BY <1>1, <1>4, <1>7
<1>15. col + To(a) <= COL
  <2>1. q < p
    BY <1>1, <1>2, <1>3, <1>4, Multiples
  <2>2. q + 1 <= p
    BY <1>2, <1>4, <2>1
  <2>3. p * TAB + 0 >= (q + 1) * TAB
    BY <1>1, <1>2, <1>4, <2>2, Multiples
  <2> QED BY <1>1, <1>2, <1>4, <1>14, <2>3
<1> QED BY <1>8, <1>10, <1>11, <1>12, <1>13, <1>14, <1>15 DEF col, q

-----------------------------------------------------------------------------
(* Displays *)

\* A display with cells s, the pointer at a, and o: something is outside it.
Shown(s, a, o) == [screen |-> s, at |-> a, outside |-> o]

\* The cells after a scroll.
up(s) == [i \in Cells |-> IF i + COL \in Cells THEN s[i + COL] ELSE BLANK]

\* The parts of a display.
LEMMA Parts ==
    ASSUME NEW s, NEW a, NEW o
    PROVE  Shown(s, a, o).screen = s /\ Shown(s, a, o).at = a /\ Shown(s, a, o).outside = o
BY DEF Shown

\* A scroll moves the cells and the pointer once the pointer is past the end.
LEMMA Scrolled ==
    ASSUME NEW s, NEW a, NEW o
    PROVE  /\ a >= COL * ROW => scroll(Shown(s, a, o)) = Shown(up(s), a - COL, o)
           /\ ~(a >= COL * ROW) => scroll(Shown(s, a, o)) = Shown(s, a, o)
<1> DEFINE d == Shown(s, a, o)
<1>1. d.at = a
  BY DEF Shown
<1>2. lines_up(d) = Shown(up(s), a - COL, o)
  <2>1. [d EXCEPT !.screen = [i \in Cells |-> IF i + COL \in Cells THEN @[i + COL] ELSE BLANK]]
          = Shown(up(s), a, o)
    BY DEF up, Shown
  <2>2. [Shown(up(s), a, o) EXCEPT !.at = @ - COL] = Shown(up(s), a - COL, o)
    BY DEF Shown
  <2> QED BY <2>1, <2>2 DEF lines_up
<1> QED BY <1>1, <1>2 DEF scroll

\* A character is stored where the pointer is, on the display.
LEMMA Stored ==
    ASSUME NEW s, NEW a \in Cells, NEW o, NEW c
    PROVE  store(Shown(s, a, o), c) = Shown([s EXCEPT ![a] = c], a + 1, o)
<1> DEFINE d == Shown(s, a, o)
<1>1. d.at = a
  BY DEF Shown
<1>2. [d EXCEPT !.screen[a] = c] = Shown([s EXCEPT ![a] = c], a, o)
  BY DEF Shown
<1>3. [Shown([s EXCEPT ![a] = c], a, o) EXCEPT !.at = @ + 1] = Shown([s EXCEPT ![a] = c], a + 1, o)
  BY DEF Shown
<1> QED BY <1>1, <1>2, <1>3 DEF store

\* On the display, the remainder of C is that of the line.
LEMMA Returned ==
    ASSUME NEW s, NEW a \in Nat, NEW o
    PROVE  return(Shown(s, a, o)) = Shown(s, (a \div COL) * COL, o)
<1>1. return(Shown(s, a, o)) = Shown(s, a - remainder(a, COL), o)
  BY DEF return, Shown
<1>2. remainder(a, COL) = a % COL
  BY DEF remainder
<1>3. a % COL \in 0..(COL - 1) /\ a = (a \div COL) * COL + (a % COL) /\ a \div COL \in Int
  BY Sizes, Division
<1>4. a - (a % COL) = (a \div COL) * COL
  BY Sizes, <1>3
<1> QED BY <1>1, <1>2, <1>4

\* A newline is a line down and a return.
LEMMA Newlined ==
    ASSUME NEW s, NEW a \in Nat, NEW o
    PROVE  newline(Shown(s, a, o)) = Shown(s, ((a \div COL) + 1) * COL, o)
<1>1. [Shown(s, a, o) EXCEPT !.at = @ + COL] = Shown(s, a + COL, o)
  BY DEF Shown
<1>2. a + COL \in Nat
  BY Sizes
<1>3. newline(Shown(s, a, o)) = Shown(s, ((a + COL) \div COL) * COL, o)
  BY <1>1, <1>2, Returned DEF newline
<1>4. a % COL \in 0..(COL - 1) /\ a = (a \div COL) * COL + (a % COL) /\ a \div COL \in Int
  BY Sizes, Division
<1>5. a + COL = ((a \div COL) + 1) * COL + (a % COL) /\ (a \div COL) + 1 \in Int
  BY Sizes, <1>4
<1>6. (a + COL) \div COL = (a \div COL) + 1
  BY Sizes, <1>4, <1>5, Unique
<1> QED BY <1>3, <1>6

\* A backspace.
back(d) == [d EXCEPT !.at = @ - 1]

\* It moves the pointer only.
LEMMA Backed ==
    ASSUME NEW s, NEW a, NEW o
    PROVE  back(Shown(s, a, o)) = Shown(s, a - 1, o)
BY DEF Shown, back

-----------------------------------------------------------------------------
(* A tab *)

\* What tabulate does for the i-th blank that it may write.
blank_one(d, i) == IF i > 1 /\ d.at % TAB = 0 THEN d ELSE scroll(store(d, BLANK))

\* A set of natural numbers that is not empty has a least element.
LEMMA Least ==
    ASSUME NEW T, T \subseteq Nat, T # {}
    PROVE  \E x \in T : \A y \in T : x <= y
<1>1. PICK x \in T : \A y \in T : ~(<<y, x>> \in OpToRel(<, Nat))
  BY NatLessThanWellFounded, WFMin
<1>2. \A y \in T : ~(y < x)
  BY <1>1 DEF OpToRel
<1> QED BY <1>2

\* Induction over the natural numbers, for a set of them.
LEMMA NatInduct ==
    ASSUME NEW T, 0 \in T, \A n \in Nat : n \in T => n + 1 \in T
    PROVE  \A n \in Nat : n \in T
<1> DEFINE U == {n \in Nat : n \notin T}
<1> SUFFICES ASSUME U # {} PROVE FALSE
  OBVIOUS
<1>1. PICK x \in U : \A y \in U : x <= y
  BY Least
<1>2. x # 0 /\ x - 1 \in Nat /\ (x - 1) + 1 = x /\ ~(x <= x - 1)
  OBVIOUS
<1>3. x - 1 \in T
  BY <1>1, <1>2
<1> QED BY <1>2, <1>3

\* The greatest element of a part of 1..n+1.
LEMMA MaxOfInterval ==
    ASSUME NEW n \in Nat, NEW s \in SUBSET (1..(n + 1)), s # {}
    PROVE  /\ Max(s) \in s /\ s \ {Max(s)} \in SUBSET (1..n)
           /\ s = 1..(n + 1) => Max(s) = n + 1 /\ s \ {Max(s)} = 1..n
<1>1. \E x \in s : \A y \in s : x >= y
  <2> DEFINE T == {(n + 1) - x : x \in s}
  <2>1. T \subseteq Nat /\ T # {}
    <3>1. \A x \in s : x \in Int /\ (n + 1) - x \in Nat
      OBVIOUS
    <3> QED BY <3>1
  <2> HIDE DEF T
  <2>2. PICK t \in T : \A y \in T : t <= y
    BY <2>1, Least
  <2>3. PICK x \in s : t = (n + 1) - x
    BY DEF T
  <2>4. \A y \in s : (n + 1) - x <= (n + 1) - y
    BY <2>2, <2>3 DEF T
  <2> QED BY <2>4
<1>2. Max(s) \in s /\ \A y \in s : Max(s) >= y
  BY <1>1 DEF Max
<1>3. s \ {Max(s)} \in SUBSET (1..n)
  <2>1. ASSUME NEW y \in s, y # Max(s) PROVE y \in 1..n
    <3>1. y \in 1..(n + 1) /\ Max(s) \in 1..(n + 1) /\ Max(s) >= y
      BY <1>2
    <3> QED BY <2>1, <3>1
  <2> QED BY <2>1
<1>4. s = 1..(n + 1) => Max(s) = n + 1
  BY <1>2
<1>5. (1..(n + 1)) \ {n + 1} = 1..n
  OBVIOUS
<1> QED BY <1>2, <1>3, <1>4, <1>5

\* tabulate writes its blanks one after the other.
LEMMA TabSteps ==
    ASSUME NEW d
    PROVE  \E f : /\ f[0] = d
                  /\ \A i \in 1..TAB : f[i] = blank_one(f[i - 1], i)
                  /\ tabulate(d) = f[TAB]
<1> DEFINE n == TAB
           one(s, i) == blank_one(s, [j \in 1..n |-> j][i])
           Folded(g, m) == g = [s \in SUBSET (1..m) |->
                                  IF s = {} THEN d
                                  ELSE LET x == Max(s) IN one(g[s \ {x}], x)]
           iter == CHOOSE g : Folded(g, n)
<1>0. n \in Nat
  BY Sizes
<1>1. tabulate(d) = iter[1..n]
  BY DEF tabulate, FoldLeft, MapThenFoldSet, blank_one
<1> HIDE DEF one
<1>2. \A m \in Nat : \E g : Folded(g, m)
  <2> DEFINE T == {m \in Nat : \E g : Folded(g, m)}
  <2>1. 0 \in T
    <3>1. Folded([s \in SUBSET (1..0) |-> d], 0)
      BY SMT
    <3> QED BY <3>1
  <2>2. ASSUME NEW m \in Nat, m \in T PROVE m + 1 \in T
    <3>1. PICK g : Folded(g, m)
      BY <2>2
    <3> DEFINE h == [s \in SUBSET (1..(m + 1)) |->
                       IF s = {} THEN d ELSE LET x == Max(s) IN one(g[s \ {x}], x)]
    <3>2. \A s \in SUBSET (1..(m + 1)) : s # {} => s \ {Max(s)} \in SUBSET (1..m)
      BY <2>2, MaxOfInterval
    <3>3. \A s \in SUBSET (1..m) : s \in SUBSET (1..(m + 1)) /\ h[s] = g[s]
      <4>1. m \in Nat /\ 1..m \subseteq 1..(m + 1)
        BY <2>2
      <4>2. \A s \in SUBSET (1..m) : s \in SUBSET (1..(m + 1))
        BY <4>1
      <4>3. \A s \in SUBSET (1..m) : h[s] = g[s]
        BY <3>1, <4>2
      <4> QED BY <4>2, <4>3
    <3>4. \A s \in SUBSET (1..(m + 1)) : s # {} => h[s \ {Max(s)}] = g[s \ {Max(s)}]
      BY <3>2, <3>3
    <3>5. h = [s \in SUBSET (1..(m + 1)) |->
                 IF s = {} THEN d ELSE one(h[s \ {Max(s)}], Max(s))]
      BY <3>4
    <3>6. Folded(h, m + 1)
      BY <3>5
    <3> HIDE DEF Folded
    <3> QED BY <2>2, <3>6
  <2> HIDE DEF T
  <2>3. \A m \in Nat : m \in T
    BY <2>1, <2>2, NatInduct
  <2> QED BY <2>3 DEF T
<1>3. Folded(iter, n)
  BY <1>0, <1>2
<1> HIDE DEF iter
<1>4. iter[1..0] = d
  BY <1>3
<1>5. ASSUME NEW i \in 1..n PROVE iter[1..i] = one(iter[1..(i - 1)], i)
  <2>1. i - 1 \in Nat /\ (i - 1) + 1 = i /\ 1..i \in SUBSET (1..n) /\ 1..i # {}
    <3>1. i \in Nat /\ i >= 1 /\ i <= n
      BY <1>0
    <3>2. 1..i \subseteq 1..n /\ i \in 1..i
      BY <1>0, <3>1
    <3>3. 1..i \in SUBSET (1..n) /\ 1..i # {}
      BY <3>2
    <3> QED BY <3>1, <3>3
  <2>2. Max(1..i) = i /\ (1..i) \ {Max(1..i)} = 1..(i - 1)
    BY <2>1, MaxOfInterval
  <2> QED BY <1>3, <2>1, <2>2
<1> DEFINE f == [i \in 0..n |-> iter[1..i]]
<1>6. f[0] = d /\ f[n] = iter[1..n] /\ \A i \in 1..n : f[i] = one(f[i - 1], i)
  BY <1>0, <1>4, <1>5
<1> QED BY <1>1, <1>6 DEF one

\* Cells as a function, and cells with k blanks from a on.
OnCells(s) == s = [i \in Cells |-> s[i]]
blanked(s, a, k) == [i \in Cells |-> IF i \in a..(a + k - 1) THEN BLANK ELSE s[i]]

\* One more blank.
LEMMA OneBlank ==
    ASSUME NEW s, NEW a \in Nat, NEW k \in Nat, NEW b \in Cells, b = a + k, NEW i, i = k + 1
    PROVE  [blanked(s, a, k) EXCEPT ![b] = BLANK] = blanked(s, a, i)
<1>1. \A x \in Cells : x \in Int
  BY DEF Cells
<1>2. \A x \in Cells : x \in a..(a + i - 1) <=> (x \in a..(a + k - 1) \/ x = b)
  BY <1>1
<1> QED BY <1>2 DEF blanked

\* A scroll leaves the pointer above the end of the display, and the next one
\* does nothing.
LEMMA ScrollTwice ==
    ASSUME NEW s, NEW a \in Nat, a < COL * ROW + COL, NEW o
    PROVE  scroll(scroll(Shown(s, a, o))) = scroll(Shown(s, a, o))
<1>1. COL * ROW \in Nat /\ COL \in Nat /\ ~(a - COL >= COL * ROW)
  BY Sizes
<1>2. CASE a >= COL * ROW
  <2>1. scroll(Shown(s, a, o)) = Shown(up(s), a - COL, o)
    BY <1>2, Scrolled
  <2> QED BY <1>1, <2>1, Scrolled
<1>3. CASE ~(a >= COL * ROW)
  BY <1>3, Scrolled
<1> QED BY <1>2, <1>3

\* A tab writes blanks up to the tab stop, and scrolls if that is at the end of
\* the display.
LEMMA TabWrites ==
    ASSUME NEW s, OnCells(s), NEW a \in Cells, NEW o
    PROVE  tabulate(Shown(s, a, o)) = scroll(Shown(blanked(s, a, To(a)), a + To(a), o))
<1> DEFINE k == To(a)
           d(i) == IF i < k THEN Shown(blanked(s, a, i), a + i, o)
                   ELSE scroll(Shown(blanked(s, a, k), a + k, o))
<1>1. PICK f : /\ f[0] = Shown(s, a, o)
               /\ \A i \in 1..TAB : f[i] = blank_one(f[i - 1], i)
               /\ tabulate(Shown(s, a, o)) = f[TAB]
  BY TabSteps
<1>2. /\ a \in Nat /\ COL * ROW \in Nat /\ COL \in Nat /\ COL >= 1 /\ TAB \in Nat /\ TAB >= 1
      /\ Cells = 0..(COL * ROW - 1)
  BY Sizes
<1>3. /\ k \in 1..TAB /\ a + k <= COL * ROW
      /\ (a + k) % TAB = 0 /\ (a + k - COL) % TAB = 0
      /\ \A i \in 1..(k - 1) : (a + i) % TAB # 0
  BY TabStops
<1> HIDE DEF k
<1>4. f[0] = d(0)
  <2>1. blanked(s, a, 0) = s
    <3>1. \A i \in Cells : i \notin a..(a + 0 - 1)
      BY <1>2
    <3> QED BY <3>1 DEF blanked, OnCells
  <2> QED BY <1>1, <1>2, <1>3, <2>1
<1>5. ASSUME NEW i \in 1..TAB, f[i - 1] = d(i - 1) PROVE f[i] = d(i)
  <2>1. f[i] = blank_one(d(i - 1), i) /\ i \in Nat /\ i >= 1
    BY <1>1, <1>2, <1>5
  <2>2. CASE i <= k
    <3>1. PICK m \in Nat : m = i - 1
      BY <2>1
    <3>9. i = m + 1 /\ m < k /\ a + m \in Cells /\ a + i \in Nat /\ (a + m) + 1 = a + i
      BY <1>2, <1>3, <2>1, <2>2, <3>1
    <3>2. d(m) = Shown(blanked(s, a, m), a + m, o)
      BY <3>9
    <3>3. i > 1 => (a + m) % TAB # 0
      <4>1. i > 1 => m \in 1..(k - 1)
        BY <1>3, <2>1, <3>9
      <4> QED BY <1>3, <4>1
    <3>4. f[i] = scroll(store(Shown(blanked(s, a, m), a + m, o), BLANK))
      <4>1. d(i - 1) = Shown(blanked(s, a, m), a + m, o)
        BY <3>1, <3>2
      <4>2. d(i - 1).at = a + m
        BY <4>1, Parts
      <4> HIDE DEF d
      <4>3. blank_one(d(i - 1), i) = scroll(store(d(i - 1), BLANK))
        BY <3>3, <4>2 DEF blank_one
      <4> QED BY <2>1, <4>1, <4>3
    <3>6. store(Shown(blanked(s, a, m), a + m, o), BLANK) = Shown(blanked(s, a, i), a + i, o)
      <4>1. PICK b \in Cells : b = a + m
        BY <3>9
      <4>3. [blanked(s, a, m) EXCEPT ![b] = BLANK] = blanked(s, a, i)
        BY <1>2, <3>9, <4>1, OneBlank
      <4>2. store(Shown(blanked(s, a, m), a + m, o), BLANK)
              = Shown([blanked(s, a, m) EXCEPT ![a + m] = BLANK], (a + m) + 1, o)
        BY <3>9, Stored
      <4> QED BY <3>9, <4>1, <4>2, <4>3
    <3>7. CASE i = k
      BY <3>4, <3>6, <3>7
    <3>8. CASE i < k
      <4>1. ~(a + i >= COL * ROW)
        BY <1>2, <1>3, <2>1, <3>8
      <4>2. f[i] = Shown(blanked(s, a, i), a + i, o)
        BY <3>4, <3>6, <4>1, Scrolled
      <4> QED BY <3>8, <4>2
    <3> QED BY <1>3, <2>1, <2>2, <3>7, <3>8
  <2>3. CASE i > k
    <3>1. ~(i < k) /\ ~(i - 1 < k) /\ i > 1
      BY <1>3, <2>1, <2>3
    <3> DEFINE e == scroll(Shown(blanked(s, a, k), a + k, o))
    <3>2. e.at \in {a + k, a + k - COL}
      <4>1. CASE a + k >= COL * ROW
        <5>1. PICK x : x = a + k
          OBVIOUS
        <5>2. scroll(Shown(blanked(s, a, k), x, o)) = Shown(up(blanked(s, a, k)), x - COL, o)
          BY <4>1, <5>1, Scrolled
        <5>3. Shown(up(blanked(s, a, k)), x - COL, o).at = x - COL
          BY Parts
        <5>4. e = scroll(Shown(blanked(s, a, k), x, o))
          BY <5>1, Zenon
        <5> HIDE DEF e
        <5>5. e.at = x - COL
          BY <5>2, <5>3, <5>4
        <5> QED BY <1>2, <1>3, <5>1, <5>5
      <4>2. CASE ~(a + k >= COL * ROW)
        BY <4>2, Scrolled, Parts
      <4> QED BY <4>1, <4>2
    <3>3. e.at % TAB = 0
      BY <1>3, <3>2
    <3>4. d(i - 1) = e /\ d(i) = e
      BY <3>1
    <3> HIDE DEF e, d
    <3>5. blank_one(e, i) = e
      BY <3>1, <3>3 DEF blank_one
    <3> QED BY <2>1, <3>4, <3>5
  <2> QED BY <1>3, <2>1, <2>2, <2>3
<1> HIDE DEF d
<1>6. \A i \in Nat : i <= TAB => f[i] = d(i)
  <2> DEFINE T == {i \in Nat : i <= TAB => f[i] = d(i)}
  <2>1. 0 \in T
    BY <1>4
  <2>2. ASSUME NEW i \in Nat, i \in T PROVE i + 1 \in T
    <3> SUFFICES ASSUME i + 1 <= TAB PROVE f[i + 1] = d(i + 1)
      OBVIOUS
    <3>1. i + 1 \in 1..TAB /\ (i + 1) - 1 = i /\ i <= TAB
      BY <1>2
    <3> QED BY <1>5, <2>2, <3>1
  <2> HIDE DEF T
  <2>3. \A i \in Nat : i \in T
    BY <2>1, <2>2, NatInduct
  <2> QED BY <2>3 DEF T
<1>7. f[TAB] = d(TAB)
  BY <1>2, <1>6
<1>8. d(TAB) = scroll(Shown(blanked(s, a, k), a + k, o))
  BY <1>2, <1>3 DEF d
<1> QED BY <1>1, <1>7, <1>8 DEF k

-----------------------------------------------------------------------------
(* A character *)

\* What every operation makes of a display: a display.
IsDisplay(d) == \E s, a, o : /\ d = Shown(s, a, o) /\ OnCells(s)
                             /\ a \in Int /\ o \in BOOLEAN

\* A scroll.
LEMMA ScrollKeeps == ASSUME NEW d, IsDisplay(d) PROVE IsDisplay(scroll(d))
<1>1. PICK s, a, o : d = Shown(s, a, o) /\ OnCells(s) /\ a \in Int /\ o \in BOOLEAN
  BY DEF IsDisplay
<1>2. OnCells(up(s)) /\ a - COL \in Int
  BY <1>1, Sizes DEF OnCells, up
<1>3. scroll(d) = Shown(up(s), a - COL, o) \/ scroll(d) = Shown(s, a, o)
  BY <1>1, Scrolled
<1> QED BY <1>1, <1>2, <1>3 DEF IsDisplay

\* A character, on the display or not.
LEMMA StoreKeeps == ASSUME NEW d, IsDisplay(d), NEW c PROVE IsDisplay(store(d, c))
<1>1. PICK s, a, o : d = Shown(s, a, o) /\ OnCells(s) /\ a \in Int /\ o \in BOOLEAN
  BY DEF IsDisplay
<1>2. a + 1 \in Int
  BY <1>1
<1>3. CASE a \in Cells
  <2>1. OnCells([s EXCEPT ![a] = c])
    BY <1>1 DEF OnCells
  <2>2. store(d, c) = Shown([s EXCEPT ![a] = c], a + 1, o)
    BY <1>1, <1>3, Stored
  <2> QED BY <1>1, <1>2, <2>1, <2>2 DEF IsDisplay
<1>4. CASE a \notin Cells
  <2>1. \A t : [Shown(s, a, o) EXCEPT !.outside = t] = Shown(s, a, t)
    BY DEF Shown
  <2>2. \A t : [Shown(s, a, t) EXCEPT !.at = a + 1] = Shown(s, a + 1, t)
    BY DEF Shown
  <2>5. d.at = a
    BY <1>1, Parts
  <2>3. store(d, c) = [[d EXCEPT !.outside = TRUE] EXCEPT !.at = a + 1]
    BY ONLY <1>4, <2>5 DEF store
  <2>6. [Shown(s, a, o) EXCEPT !.outside = TRUE] = Shown(s, a, TRUE)
    BY <2>1, Zenon
  <2>7. [Shown(s, a, TRUE) EXCEPT !.at = a + 1] = Shown(s, a + 1, TRUE)
    BY <2>2, Zenon
  <2>4. store(d, c) = Shown(s, a + 1, TRUE)
    BY <1>1, <2>3, <2>6, <2>7, Zenon
  <2> QED BY <1>1, <1>2, <2>4 DEF IsDisplay
<1> QED BY <1>3, <1>4

\* A tab.
LEMMA TabKeeps == ASSUME NEW d, IsDisplay(d) PROVE IsDisplay(tabulate(d))
<1>1. PICK f : /\ f[0] = d
               /\ \A i \in 1..TAB : f[i] = blank_one(f[i - 1], i)
               /\ tabulate(d) = f[TAB]
  BY TabSteps
<1> DEFINE T == {i \in Nat : i <= TAB => IsDisplay(f[i])}
<1>2. 0 \in T
  BY <1>1
<1>3. ASSUME NEW i \in Nat, i \in T PROVE i + 1 \in T
  <2> SUFFICES ASSUME i + 1 <= TAB PROVE IsDisplay(f[i + 1])
    OBVIOUS
  <2>1. i + 1 \in 1..TAB /\ (i + 1) - 1 = i /\ i <= TAB
    BY Sizes
  <2>2. IsDisplay(f[i]) /\ f[i + 1] = blank_one(f[i], i + 1)
    BY <1>1, <1>3, <2>1
  <2>3. \A e, j : IsDisplay(e) => IsDisplay(blank_one(e, j))
    BY StoreKeeps, ScrollKeeps DEF blank_one
  <2> QED BY <2>2, <2>3
<1> HIDE DEF T
<1>4. \A i \in Nat : i \in T
  BY <1>2, <1>3, NatInduct
<1>5. TAB \in Nat
  BY Sizes
<1> QED BY <1>1, <1>4, <1>5 DEF T

\* A return and a newline, also above the display, and a backspace.
LEMMA MovesKeep ==
    ASSUME NEW d, IsDisplay(d)
    PROVE  /\ IsDisplay(return(d)) /\ IsDisplay(newline(d))
           /\ IsDisplay(back(d))
<1>1. PICK s, a, o : d = Shown(s, a, o) /\ OnCells(s) /\ a \in Int /\ o \in BOOLEAN
  BY DEF IsDisplay
<1>2. \A x \in Int : remainder(x, COL) \in Int
  <2> SUFFICES ASSUME NEW x \in Int PROVE remainder(x, COL) \in Int
    OBVIOUS
  <2>1. COL \in Nat /\ COL >= 1 /\ -x \in Int
    BY Sizes
  <2>2. x % COL \in Int /\ (-x) % COL \in Int
    BY <2>1, Division
  <2> QED BY <2>2 DEF remainder
<1>3. \A x : return(Shown(s, x, o)) = Shown(s, x - remainder(x, COL), o)
  BY DEF return, Shown
<1>4. \A x \in Int : x - remainder(x, COL) \in Int
  BY <1>2
<1>5. \A x \in Int : IsDisplay(return(Shown(s, x, o)))
  BY <1>1, <1>3, <1>4 DEF IsDisplay
<1>6. [Shown(s, a, o) EXCEPT !.at = @ + COL] = Shown(s, a + COL, o)
  BY DEF Shown
<1>7. a + COL \in Int /\ a - 1 \in Int
  BY <1>1, Sizes
<1>8. newline(d) = return(Shown(s, a + COL, o))
  BY <1>1, <1>6 DEF newline
<1>9. back(d) = Shown(s, a - 1, o)
  BY <1>1, Backed
<1> QED BY <1>1, <1>5, <1>7, <1>8, <1>9 DEF IsDisplay

\* What a character does to a display.
LEMMA Typed ==
    ASSUME NEW d, NEW c
    PROVE  /\ c = TABULATOR => typed(d, c) = scroll(tabulate(d))
           /\ c = BACKSPACE => typed(d, c) = scroll(back(d))
           /\ c = NEWLINE => typed(d, c) = scroll(newline(d))
           /\ c = RETURN => typed(d, c) = scroll(return(d))
           /\ c \notin {TABULATOR, BACKSPACE, NEWLINE, RETURN} => typed(d, c) = scroll(store(d, c))
BY DEF typed, back, TABULATOR, BACKSPACE, NEWLINE, RETURN

\* Whatever the character, a display remains one.
LEMMA TypedKeeps == ASSUME NEW d, IsDisplay(d), NEW c PROVE IsDisplay(typed(d, c))
BY Typed, ScrollKeeps, TabKeeps, MovesKeep, StoreKeeps

\* A scroll of a pointer that is at most a line past the display brings it back.
LEMMA ScrollStays ==
    ASSUME NEW s, NEW a \in Int, a < COL * ROW + COL, NEW o
    PROVE  /\ scroll(Shown(s, a, o)).at < COL * ROW
           /\ scroll(Shown(s, a, o)).outside = o
<1>1. COL * ROW \in Nat /\ COL \in Nat /\ a - COL < COL * ROW
  BY Sizes
<1>2. CASE a >= COL * ROW
  <2>1. scroll(Shown(s, a, o)) = Shown(up(s), a - COL, o)
    BY <1>2, Scrolled
  <2> QED BY <1>1, <2>1, Parts
<1>3. CASE ~(a >= COL * ROW)
  <2>1. scroll(Shown(s, a, o)) = Shown(s, a, o) /\ a < COL * ROW
    BY <1>1, <1>3, Scrolled
  <2> QED BY <2>1, Parts
<1> QED BY <1>2, <1>3

\* A character that comes on the display writes to the display only, and the
\* pointer does not end past it.
LEMMA TypedStays ==
    ASSUME NEW s, OnCells(s), NEW a \in Cells, NEW o, NEW c
    PROVE  /\ typed(Shown(s, a, o), c).at < COL * ROW
           /\ typed(Shown(s, a, o), c).outside = o
<1> DEFINE d == Shown(s, a, o)
           Stays(e) == e.at < COL * ROW /\ e.outside = o
<1>1. /\ a \in Nat /\ a < COL * ROW /\ COL \in Nat /\ COL >= 1 /\ COL * ROW \in Nat
      /\ COL * ROW >= COL
  BY Sizes
<1>2. /\ a % COL \in 0..(COL - 1) /\ a = (a \div COL) * COL + (a % COL)
      /\ a \div COL \in Int
  BY <1>1, Division
<1> SUFFICES Stays(typed(d, c))
  OBVIOUS
<1>3. \A x \in Int : \A t : x < COL * ROW + COL => Stays(scroll(Shown(t, x, o)))
  BY ScrollStays
<1> HIDE DEF Stays
<1>4. CASE c = TABULATOR
  <2>1. To(a) \in 1..TAB /\ a + To(a) <= COL * ROW /\ TAB \in Nat
    BY TabStops, Sizes
  <2>2. PICK x \in Nat : x = a + To(a)
    BY <1>1, <2>1
  <2>3. x < COL * ROW + COL
    BY <1>1, <2>1, <2>2
  <2>4. tabulate(d) = scroll(Shown(blanked(s, a, To(a)), x, o))
    BY <2>2, TabWrites
  <2>5. scroll(tabulate(d)) = scroll(Shown(blanked(s, a, To(a)), x, o))
    BY <2>3, <2>4, ScrollTwice
  <2> QED BY <1>3, <1>4, <2>3, <2>5, Typed
<1>5. CASE c = BACKSPACE
  <2>1. back(d) = Shown(s, a - 1, o) /\ a - 1 \in Int /\ a - 1 < COL * ROW + COL
    BY <1>1, Backed
  <2> QED BY <1>3, <1>5, <2>1, Typed
<1>6. CASE c = NEWLINE
  <2>1. newline(d) = Shown(s, ((a \div COL) + 1) * COL, o)
    BY <1>1, Newlined
  <2>2. ((a \div COL) + 1) * COL \in Int /\ ((a \div COL) + 1) * COL < COL * ROW + COL
    BY <1>1, <1>2
  <2> QED BY <1>3, <1>6, <2>1, <2>2, Typed
<1>7. CASE c = RETURN
  <2>1. return(d) = Shown(s, (a \div COL) * COL, o)
    BY <1>1, Returned
  <2>2. (a \div COL) * COL \in Int /\ (a \div COL) * COL < COL * ROW + COL
    BY <1>1, <1>2
  <2> QED BY <1>3, <1>7, <2>1, <2>2, Typed
<1>8. CASE c \notin {TABULATOR, BACKSPACE, NEWLINE, RETURN}
  <2>1. store(d, c) = Shown([s EXCEPT ![a] = c], a + 1, o) /\ a + 1 \in Int /\ a + 1 < COL * ROW + COL
    BY <1>1, Stored
  <2> QED BY <1>3, <1>8, <2>1, Typed
<1> QED BY <1>4, <1>5, <1>6, <1>7, <1>8

-----------------------------------------------------------------------------
(* The console's state *)

\* The inductive invariant: the property, and the types it rests on.
ConsoleInv ==
    /\ cursorat \in Nat /\ above \in BOOLEAN /\ started \in BOOLEAN
    /\ OnCells(screen) /\ crtat \in Int /\ outside \in BOOLEAN
    /\ WritesStayOnScreen

\* The console before the first character.
LEMMA InitConsoleInv == Init => ConsoleInv
<1> SUFFICES ASSUME Init PROVE ConsoleInv
  OBVIOUS
<1>1. OnCells(screen) /\ crtat = 0 /\ ~started /\ ~above /\ ~outside
  BY DEF Init, ConsoleInit, OnCells
<1>2. started \in BOOLEAN /\ above \in BOOLEAN /\ outside \in BOOLEAN
  BY DEF Init, ConsoleInit
<1>3. cursorat \in Nat
  BY CursorAssumption DEF Init
<1>4. 0 \in Cells /\ 0 \in Int
  BY Sizes
<1> QED BY <1>1, <1>2, <1>3, <1>4 DEF ConsoleInv, WritesStayOnScreen

\* The display that the first character finds.
LEMMA Started ==
    ASSUME ConsoleInv
    PROVE  \E s, a : /\ start = Shown(s, a, outside) /\ OnCells(s) /\ a \in Int
                     /\ cursorat # COL * ROW => a \in Cells
<1> DEFINE at == IF cursorat <= COL * ROW THEN cursorat ELSE 0
           s(x) == [i \in Cells |-> IF i >= x THEN BLANK ELSE screen[i]]
<1>1. PICK x : x = at
  OBVIOUS
<1>2. x \in Int /\ (cursorat # COL * ROW => x \in Cells)
  BY <1>1, Sizes DEF ConsoleInv
<1>3. Display = Shown(screen, crtat, outside)
  BY DEF Display, Shown
<1>4. start = [[Display EXCEPT !.at = x] EXCEPT !.screen = s(x)]
  <2>1. Display.screen = screen
    BY DEF Display
  <2> QED BY <1>1, <2>1 DEF start
<1> HIDE DEF s
<1>5. [[Shown(screen, crtat, outside) EXCEPT !.at = x] EXCEPT !.screen = s(x)]
        = Shown(s(x), x, outside)
  <2>1. [Shown(screen, crtat, outside) EXCEPT !.at = x] = Shown(screen, x, outside)
    BY DEF Shown
  <2>2. [Shown(screen, x, outside) EXCEPT !.screen = s(x)] = Shown(s(x), x, outside)
    BY DEF Shown
  <2> QED BY <2>1, <2>2
<1>6. start = Shown(s(x), x, outside)
  BY <1>3, <1>4, <1>5
<1>7. OnCells(s(x))
  BY DEF OnCells, s
<1> QED BY <1>2, <1>6, <1>7

\* A step changes the console by a character or not at all.
LEMMA ConsoleSteps ==
    ASSUME [Next]_vars
    PROVE  (\E c : kbmputc(c)) \/ UNCHANGED consoleVars
BY DEF Next, kprintf, sprintf, call, echo, conversion, put_field, put, return_from_call, vars

\* A character keeps the invariant.
LEMMA CharacterKeeps ==
    ASSUME ConsoleInv, NEW c, kbmputc(c), c # NUL
    PROVE  ConsoleInv'
<1> DEFINE d == IF started THEN Display ELSE start
           e == typed(d, c)
<1>1. /\ screen' = e.screen /\ crtat' = e.at /\ outside' = e.outside
      /\ above' = (above \/ e.at < 0) /\ started' = TRUE /\ cursorat' = cursorat
  BY DEF kbmputc
<1>2. PICK s, a : /\ d = Shown(s, a, outside) /\ OnCells(s) /\ a \in Int
                  /\ (cursorat # COL * ROW /\ ~above) => a \in Cells
  <2>1. CASE started
    <3>1. d = Shown(screen, crtat, outside)
      BY <2>1 DEF Display, Shown
    <3> QED BY <3>1 DEF ConsoleInv, WritesStayOnScreen
  <2>2. CASE ~started
    BY <2>2, Started
  <2> QED BY <2>1, <2>2
<1> HIDE DEF d
<1>3. IsDisplay(e)
  <2>1. IsDisplay(d)
    BY <1>2 DEF IsDisplay, ConsoleInv
  <2> QED BY <2>1, TypedKeeps
<1> HIDE DEF e
<1>4. PICK t, b, o : e = Shown(t, b, o) /\ OnCells(t) /\ b \in Int /\ o \in BOOLEAN
  BY <1>3 DEF IsDisplay
<1>5. screen' = t /\ crtat' = b /\ outside' = o /\ above' = (above \/ b < 0)
  BY <1>1, <1>4, Parts
<1>6. ASSUME cursorat # COL * ROW, ~above, ~(b < 0) PROVE ~o /\ b \in Cells
  <2>1. a \in Cells /\ ~outside
    BY <1>2, <1>6 DEF ConsoleInv, WritesStayOnScreen
  <2>2. e.at < COL * ROW /\ e.outside = outside
    BY <1>2, <2>1, TypedStays DEF e
  <2> QED BY <1>4, <1>6, <2>1, <2>2, Parts, Sizes
<1>7. OnCells(screen)' /\ crtat' \in Int /\ outside' \in BOOLEAN
  BY <1>4, <1>5 DEF OnCells
<1>8. cursorat' \in Nat /\ above' \in BOOLEAN /\ started' \in BOOLEAN
  BY <1>1 DEF ConsoleInv
<1>9. WritesStayOnScreen'
  <2>1. ~above' => ~above /\ ~(b < 0)
    BY <1>5
  <2>2. (cursorat' # COL * ROW /\ ~above') => ~outside' /\ crtat' \in Cells
    BY <1>1, <1>5, <1>6, <2>1
  <2> QED BY <2>2 DEF WritesStayOnScreen, Cells
<1> QED BY <1>7, <1>8, <1>9 DEF ConsoleInv

\* Every step keeps the invariant.
LEMMA NextConsoleInv == ConsoleInv /\ [Next]_vars => ConsoleInv'
<1> SUFFICES ASSUME ConsoleInv, [Next]_vars PROVE ConsoleInv'
  OBVIOUS
<1>1. CASE UNCHANGED consoleVars
  BY <1>1 DEF consoleVars, ConsoleInv, WritesStayOnScreen, OnCells, Cells
<1>2. CASE \E c : kbmputc(c)
  <2>1. PICK c : kbmputc(c)
    BY <1>2
  <2>2. CASE c = NUL
    <3>1. UNCHANGED consoleVars
      BY <2>1, <2>2 DEF kbmputc
    <3> QED BY <1>1, <3>1
  <2> QED BY <2>1, <2>2, CharacterKeeps
<1> QED BY <1>1, <1>2, ConsoleSteps

\* On a display of any size, no character is ever written outside it, but for
\* the first cursor one past the last cell and backspaces beyond the first.
THEOREM ConsoleStaysOnScreen == Spec => []WritesStayOnScreen
<1>1. ConsoleInv => WritesStayOnScreen
  BY DEF ConsoleInv
<1> QED BY <1>1, InitConsoleInv, NextConsoleInv, PTL DEF Spec

-----------------------------------------------------------------------------
(* The console as a teletype *)

\* The lines of cells s.
PaperOf(s) == [r \in 0..(ROW - 1) |-> [k \in 0..(COL - 1) |-> s[r * COL + k]]]

\* The place of a cell, and the cell of a place.
LEMMA Places ==
    /\ \A a \in Cells : /\ a \div COL \in 0..(ROW - 1) /\ a % COL \in 0..(COL - 1)
                        /\ a = (a \div COL) * COL + (a % COL)
    /\ \A r \in 0..(ROW - 1), k \in 0..(COL - 1) :
          /\ r * COL + k \in Cells
          /\ (r * COL + k) \div COL = r /\ (r * COL + k) % COL = k
<1>1. /\ COL \in Nat /\ COL >= 1 /\ ROW \in Nat /\ ROW >= 1 /\ COL * ROW = ROW * COL
      /\ Cells = 0..(COL * ROW - 1) /\ COL * ROW \in Nat
  BY Sizes
<1>2. ASSUME NEW a \in Cells
      PROVE  /\ a \div COL \in 0..(ROW - 1) /\ a % COL \in 0..(COL - 1)
             /\ a = (a \div COL) * COL + (a % COL)
  <2>1. /\ a \div COL \in Int /\ a % COL \in 0..(COL - 1)
        /\ a = (a \div COL) * COL + (a % COL)
    BY <1>1, Division
  <2>2. PICK q \in Int : q = a \div COL
    BY <2>1
  <2>3. PICK r \in 0..(COL - 1) : r = a % COL
    BY <2>1
  <2>4. q * COL + r >= 0 * COL /\ q * COL + r < ROW * COL
    BY <1>1, <2>1, <2>2, <2>3
  <2>5. q >= 0 /\ q < ROW
    BY <1>1, <2>4, Multiples
  <2> QED BY <1>1, <2>1, <2>2, <2>5
<1>3. ASSUME NEW r \in 0..(ROW - 1), NEW k \in 0..(COL - 1)
      PROVE  /\ r * COL + k \in Cells
             /\ (r * COL + k) \div COL = r /\ (r * COL + k) % COL = k
  <2>1. r \in Int /\ 0 \in Int /\ ROW \in Int /\ r >= 0 /\ r < ROW
    BY <1>1
  <2>2. r * COL + k >= 0 * COL /\ r * COL + k < ROW * COL
    BY <1>1, <2>1, Multiples
  <2>3. r * COL + k \in Int
    BY <1>1, <2>1
  <2>4. r * COL + k \in Cells
    BY <1>1, <2>2, <2>3
  <2> QED BY <1>1, <2>1, <2>4, Unique
<1> QED BY <1>2, <1>3

\* The lines after a scroll: each takes the next one's characters, and the last
\* is blank.
LEMMA UpPaper ==
    ASSUME NEW s
    PROVE  PaperOf(up(s)) = [i \in 0..(ROW - 1) |->
                               IF i = ROW - 1 THEN [k \in 0..(COL - 1) |-> BLANK]
                               ELSE PaperOf(s)[i + 1]]
<1>1. COL \in Nat /\ COL >= 1 /\ ROW \in Nat /\ ROW >= 1
  BY Sizes
<1>2. ASSUME NEW i \in 0..(ROW - 1), NEW k \in 0..(COL - 1)
      PROVE  up(s)[i * COL + k] = IF i = ROW - 1 THEN BLANK ELSE s[(i + 1) * COL + k]
  <2>1. i * COL + k \in Cells
    BY Places
  <2>2. (i * COL + k) + COL = (i + 1) * COL + k
    BY <1>1
  <2>3. up(s)[i * COL + k] = IF (i + 1) * COL + k \in Cells THEN s[(i + 1) * COL + k] ELSE BLANK
    BY <2>1, <2>2 DEF up
  <2>4. CASE i = ROW - 1
    <3>1. (i + 1) * COL + k = ROW * COL + k /\ ROW * COL \in Nat
      BY <1>1, <2>4
    <3>2. (i + 1) * COL + k \notin Cells
      BY <1>1, <3>1, Sizes
    <3> QED BY <2>3, <2>4, <3>2
  <2>5. CASE i # ROW - 1
    <3>1. i + 1 \in 0..(ROW - 1)
      BY <1>1, <2>5
    <3>2. (i + 1) * COL + k \in Cells
      BY <3>1, Places
    <3> QED BY <2>3, <2>5, <3>2
  <2> QED BY <2>4, <2>5
<1>3. ASSUME NEW i \in 0..(ROW - 1)
      PROVE  [k \in 0..(COL - 1) |-> up(s)[i * COL + k]] =
               IF i = ROW - 1 THEN [k \in 0..(COL - 1) |-> BLANK] ELSE PaperOf(s)[i + 1]
  <2>1. CASE i = ROW - 1
    BY <1>2, <2>1
  <2>2. CASE i # ROW - 1
    <3>1. i + 1 \in 0..(ROW - 1)
      BY <1>1, <2>2
    <3>2. PaperOf(s)[i + 1] = [k \in 0..(COL - 1) |-> s[(i + 1) * COL + k]]
      BY <3>1 DEF PaperOf
    <3> QED BY <1>2, <2>2, <3>2
  <2> QED BY <2>1, <2>2
<1> QED BY <1>3 DEF PaperOf

\* The line and the column of a pointer at line r, column k, which may be one
\* past the line.
LEMMA Wraps ==
    ASSUME NEW r \in 0..ROW, NEW k \in 0..COL, k = COL => r < ROW, NEW b, b = r * COL + k,
           NEW m, m = IF k = COL THEN r + 1 ELSE r
    PROVE  /\ b \in Nat /\ m \in 0..ROW /\ k % COL \in 0..(COL - 1)
           /\ b = m * COL + (k % COL)
           /\ b >= COL * ROW <=> m = ROW
<1>1. /\ COL \in Nat /\ COL >= 1 /\ ROW \in Nat /\ ROW >= 1 /\ COL * ROW = ROW * COL
      /\ r \in Nat /\ k \in Nat
  BY Sizes
<1>2. m \in 0..ROW
  BY <1>1
<1>3. /\ k % COL \in 0..(COL - 1) /\ b = m * COL + (k % COL)
  <2>1. CASE k = COL
    <3>1. k = 1 * COL + 0 /\ 0 \in 0..(COL - 1) /\ 1 \in Int
      BY <1>1, <2>1
    <3>2. k % COL = 0
      BY <1>1, <3>1, Unique
    <3> QED BY <1>1, <2>1, <3>1, <3>2
  <2>2. CASE k # COL
    <3>1. k = 0 * COL + k /\ k \in 0..(COL - 1) /\ 0 \in Int
      BY <1>1, <2>2
    <3>2. k % COL = k
      BY <1>1, <3>1, Unique
    <3> QED BY <1>1, <2>2, <3>1, <3>2
  <2> QED BY <2>1, <2>2
<1>4. PICK j \in 0..(COL - 1) : j = k % COL
  BY <1>3
<1>5. b = m * COL + j /\ m \in Int /\ ROW \in Int
  BY <1>1, <1>2, <1>3, <1>4
<1>6. b >= ROW * COL <=> m >= ROW
  BY <1>1, <1>5, Multiples
<1>7. b \in Nat
  BY <1>1
<1> QED BY <1>1, <1>2, <1>3, <1>6, <1>7

\* The step ends with a scroll of cells s and pointer b, at line r and column k.
Ends(s, b, o, r, k) ==
    /\ OnCells(s) /\ r \in 0..ROW /\ k \in 0..COL /\ (k = COL => r < ROW)
    /\ b = r * COL + k
    /\ screen' = scroll(Shown(s, b, o)).screen /\ crtat' = scroll(Shown(s, b, o)).at

\* A scroll after an operation is what Goto of the teletype does.
LEMMA Goes ==
    ASSUME NEW s, NEW b, NEW o, NEW r, NEW k, Ends(s, b, o, r, k)
    PROVE  Paper!Goto(r, k, PaperOf(s))
<1> DEFINE m == IF k = COL THEN r + 1 ELSE r
           j == k % COL
<1>0. /\ OnCells(s) /\ r \in 0..ROW /\ k \in 0..COL /\ (k = COL => r < ROW)
      /\ b = r * COL + k
      /\ screen' = scroll(Shown(s, b, o)).screen /\ crtat' = scroll(Shown(s, b, o)).at
  BY DEF Ends
<1>1. /\ COL \in Nat /\ COL >= 1 /\ ROW \in Nat /\ ROW >= 1 /\ COL * ROW = ROW * COL
  BY Sizes
<1>2. /\ b \in Nat /\ m \in 0..ROW /\ j \in 0..(COL - 1) /\ b = m * COL + j
      /\ b >= COL * ROW <=> m = ROW
  BY <1>0, Wraps
<1>3. Paper!Goto(r, k, PaperOf(s)) <=>
        /\ crtat' % COL = j
        /\ crtat' \div COL = IF m = ROW THEN ROW - 1 ELSE m
        /\ PaperOf(screen') = IF m = ROW
                              THEN [i \in 0..(ROW - 1) |->
                                      IF i = ROW - 1 THEN [x \in 0..(COL - 1) |-> BLANK]
                                      ELSE PaperOf(s)[i + 1]]
                              ELSE PaperOf(s)
  BY DEF Paper!Goto, Paper!Line, PaperOf
<1> HIDE DEF m, j
<1>4. CASE m = ROW
  <2>1. scroll(Shown(s, b, o)) = Shown(up(s), b - COL, o)
    BY <1>2, <1>4, Scrolled
  <2>2. screen' = up(s) /\ crtat' = b - COL
    BY <1>0, <2>1, Parts
  <2>3. crtat' = (ROW - 1) * COL + j /\ ROW - 1 \in 0..(ROW - 1)
    BY <1>1, <1>2, <1>4, <2>2
  <2>4. crtat' \div COL = ROW - 1 /\ crtat' % COL = j
    BY <1>2, <2>3, Places
  <2> QED BY <1>3, <1>4, <2>2, <2>4, UpPaper
<1>5. CASE m # ROW
  <2>1. scroll(Shown(s, b, o)) = Shown(s, b, o)
    BY <1>2, <1>5, Scrolled
  <2>2. screen' = s /\ crtat' = b
    BY <1>0, <2>1, Parts
  <2>3. m \in 0..(ROW - 1)
    BY <1>1, <1>2, <1>5
  <2>4. crtat' \div COL = m /\ crtat' % COL = j
    BY <1>2, <2>2, <2>3, Places
  <2> QED BY <1>3, <1>5, <2>2, <2>4
<1> QED BY <1>4, <1>5

\* Blanks up to the tab stop, on paper.
LEMMA BlankedPaper ==
    ASSUME NEW s, NEW a \in Cells, NEW r, r = a \div COL, NEW k, k = a % COL,
           NEW n \in Nat, k + n <= COL
    PROVE  PaperOf(blanked(s, a, n)) =
             [PaperOf(s) EXCEPT ![r] = [x \in DOMAIN @ |->
                IF x \in k..(k + n - 1) THEN BLANK ELSE @[x]]]
<1>1. /\ COL \in Nat /\ COL >= 1 /\ ROW \in Nat /\ ROW >= 1
      /\ r \in 0..(ROW - 1) /\ k \in 0..(COL - 1) /\ a = r * COL + k
  BY Sizes, Places
<1>2. ASSUME NEW i \in 0..(ROW - 1), NEW x \in 0..(COL - 1)
      PROVE  i * COL + x \in a..(a + n - 1) <=> i = r /\ x \in k..(k + n - 1)
  <2>1. i * COL + x \in Int /\ r * COL \in Int
    BY <1>1
  <2>2. CASE i = r
    BY <1>1, <2>1, <2>2
  <2>3. CASE i # r
    <3>1. ASSUME i * COL + x \in a..(a + n - 1) PROVE FALSE
      <4>1. i * COL + x >= r * COL /\ i * COL + x < (r + 1) * COL
        BY <1>1, <2>1, <3>1
      <4>2. i >= r /\ i < r + 1
        BY <1>1, <4>1, Multiples
      <4> QED BY <1>1, <2>3, <4>2
    <3> QED BY <2>3, <3>1
  <2> QED BY <2>2, <2>3
<1>3. ASSUME NEW i \in 0..(ROW - 1), NEW x \in 0..(COL - 1)
      PROVE  blanked(s, a, n)[i * COL + x] =
               IF i = r /\ x \in k..(k + n - 1) THEN BLANK ELSE s[i * COL + x]
  BY <1>2, Places DEF blanked
<1>4. PaperOf(s)[r] = [x \in 0..(COL - 1) |-> s[r * COL + x]]
  BY <1>1 DEF PaperOf
<1> DEFINE new == [x \in 0..(COL - 1) |-> IF x \in k..(k + n - 1) THEN BLANK ELSE s[r * COL + x]]
<1>5. [x \in DOMAIN PaperOf(s)[r] |-> IF x \in k..(k + n - 1) THEN BLANK ELSE PaperOf(s)[r][x]] = new
  BY <1>4
<1>6. \A i \in 0..(ROW - 1) : [x \in 0..(COL - 1) |-> blanked(s, a, n)[i * COL + x]] =
                                IF i = r THEN new ELSE [x \in 0..(COL - 1) |-> s[i * COL + x]]
  BY <1>3
<1> HIDE DEF new
<1>7. PaperOf(blanked(s, a, n)) = [PaperOf(s) EXCEPT ![r] = new]
  BY <1>6 DEF PaperOf
<1> QED BY <1>5, <1>7

\* t is s, and P the paper of s, with character c in cell a.
Puts(s, a, c, t, P) ==
    /\ OnCells(s) /\ a \in Cells
    /\ t = [s EXCEPT ![a] = c] /\ P = [PaperOf(s) EXCEPT ![a \div COL][a % COL] = c]

\* A character, on paper.
LEMMA StoredPaper ==
    ASSUME NEW s, NEW a, NEW c, NEW t, NEW P, Puts(s, a, c, t, P)
    PROVE  PaperOf(t) = P
<1> DEFINE r == a \div COL
           k == a % COL
<1> USE DEF Puts
<1>1. r \in 0..(ROW - 1) /\ k \in 0..(COL - 1) /\ a = r * COL + k
  BY Places
<1>2. \A i \in 0..(ROW - 1), x \in 0..(COL - 1) : i * COL + x \in Cells /\ (i * COL + x = a <=> i = r /\ x = k)
  BY <1>1, Places
<1>3. DOMAIN s = Cells
  BY DEF OnCells
<1>4. \A i \in 0..(ROW - 1), x \in 0..(COL - 1) :
         [s EXCEPT ![a] = c][i * COL + x] = IF i = r /\ x = k THEN c ELSE s[i * COL + x]
  BY <1>2, <1>3
<1> DEFINE new == [x \in 0..(COL - 1) |-> IF x = k THEN c ELSE s[r * COL + x]]
<1>5. [PaperOf(s)[r] EXCEPT ![k] = c] = new
  BY <1>1 DEF PaperOf
<1>6. \A i \in 0..(ROW - 1) : [x \in 0..(COL - 1) |-> [s EXCEPT ![a] = c][i * COL + x]] =
                                IF i = r THEN new ELSE [x \in 0..(COL - 1) |-> s[i * COL + x]]
  BY <1>4
<1> HIDE DEF new
<1>7. PaperOf([s EXCEPT ![a] = c]) = [PaperOf(s) EXCEPT ![r] = new]
  BY <1>6 DEF PaperOf
<1> QED BY <1>5, <1>7

\* The step of the teletype for a character that is stored.
LEMMA WriteStep ==
    ASSUME NEW S, S = screen, OnCells(S), NEW a \in Cells, a = crtat, NEW c, NEW o,
           screen' = scroll(store(Shown(S, a, o), c)).screen,
           crtat' = scroll(store(Shown(S, a, o), c)).at
    PROVE  \E char \in Range(screen') : Paper!Write(char)
<1> PICK r : r = a \div COL
  OBVIOUS
<1> PICK k : k = a % COL
  OBVIOUS
<1>1. /\ COL \in Nat /\ COL >= 1 /\ ROW \in Nat /\ ROW >= 1 /\ COL * ROW = ROW * COL
      /\ Cells = 0..(COL * ROW - 1) /\ COL * ROW \in Nat /\ COL * ROW >= COL
  BY Sizes
<1>2. r \in 0..(ROW - 1) /\ k \in 0..(COL - 1) /\ a = r * COL + k
  BY Places
<1>3. \A char : Paper!Write(char) <=> Paper!Goto(r, k + 1, [PaperOf(S) EXCEPT ![r][k] = char])
  BY DEF Paper!Write, Paper!Goto, Paper!Line, PaperOf
<1> DEFINE s(char) == [S EXCEPT ![a] = char]
<1>4. \A char : OnCells(s(char)) /\ s(char)[a] = char
  BY DEF OnCells
<1>5. \A char : PaperOf(s(char)) = [PaperOf(S) EXCEPT ![r][k] = char]
  <2> SUFFICES ASSUME NEW char PROVE PaperOf(s(char)) = [PaperOf(S) EXCEPT ![r][k] = char]
    OBVIOUS
  <2>1. PICK t : t = [S EXCEPT ![a] = char]
    OBVIOUS
  <2>2. PaperOf(t) = [PaperOf(S) EXCEPT ![r][k] = char]
    <3>1. PICK P : P = [PaperOf(S) EXCEPT ![r][k] = char]
      OBVIOUS
    <3>2. Puts(S, a, char, t, P)
      BY <2>1, <3>1 DEF Puts
    <3>3. PaperOf(t) = P
      BY <3>2, StoredPaper
    <3> QED BY <3>1, <3>3
  <2> QED BY <2>1, <2>2
<1> HIDE DEF s
<1>6. PICK b \in Nat : b = a + 1
  BY <1>1
<1>7. store(Shown(S, a, o), c) = Shown(s(c), b, o)
  BY <1>6, Stored DEF s
<1>8. r \in 0..ROW /\ k + 1 \in 0..COL /\ r < ROW /\ b = r * COL + (k + 1)
  BY <1>1, <1>2, <1>6
<1>9. ASSUME NEW char, screen' = scroll(Shown(s(char), b, o)).screen,
             crtat' = scroll(Shown(s(char), b, o)).at, char \in Range(screen')
      PROVE  \E x \in Range(screen') : Paper!Write(x)
  <2>1. PICK j : j = k + 1
    OBVIOUS
  <2>2. Paper!Goto(r, j, PaperOf(s(char)))
    <3>1. Ends(s(char), b, o, r, j)
      BY <1>4, <1>8, <1>9, <2>1 DEF Ends
    <3> QED BY <3>1, Goes
  <2>3. Paper!Goto(r, k + 1, PaperOf(s(char)))
    BY <2>1, <2>2, Zenon
  <2>4. Paper!Goto(r, k + 1, [PaperOf(S) EXCEPT ![r][k] = char])
    BY <1>5, <2>3, Zenon
  <2>5. Paper!Write(char)
    BY <1>3, <2>4, Zenon
  <2> QED BY <1>9, <2>5
<1>10. CASE b < COL * ROW
  <2>1. scroll(Shown(s(c), b, o)) = Shown(s(c), b, o)
    BY <1>1, <1>10, Scrolled
  <2>2. screen' = s(c)
    BY <1>7, <2>1, Parts
  <2>3. c \in Range(screen')
    <3>1. a \in DOMAIN s(c)
      BY <1>4 DEF OnCells
    <3> QED BY <1>4, <2>2, <3>1 DEF Range
  <2> QED BY <1>7, <1>9, <2>3
<1>11. CASE ~(b < COL * ROW)
  <2>1. b >= COL * ROW /\ a = COL * ROW - 1
    BY <1>1, <1>6, <1>11
  <2>2. \A char : scroll(Shown(s(char), b, o)) = Shown(up(s(char)), b - COL, o)
    BY <2>1, Scrolled
  <2>3. screen' = up(s(c)) /\ crtat' = b - COL
    BY <1>7, <2>2, Parts
  <2>4. CASE a - COL \in Cells
    <3>1. up(s(c))[a - COL] = c
      <4>1. (a - COL) + COL = a
        BY <1>1
      <4> QED BY <1>4, <2>4, <4>1 DEF up
    <3>2. c \in Range(screen')
      BY <2>3, <2>4, <3>1 DEF Range, up
    <3> QED BY <1>7, <1>9, <3>2
  <2>5. CASE a - COL \notin Cells
    <3>1. COL * ROW - 1 < COL
      BY <1>1, <2>1, <2>5
    <3>2. \A char : up(s(char)) = [i \in Cells |-> BLANK]
      <4>1. \A i \in Cells : i + COL \notin Cells
        BY <1>1, <3>1
      <4> QED BY <4>1 DEF up
    <3>3. screen' = up(s(BLANK)) /\ 0 \in Cells
      BY <1>1, <2>3, <3>2
    <3>4. BLANK \in Range(screen')
      BY <3>2, <3>3 DEF Range
    <3>5. screen' = scroll(Shown(s(BLANK), b, o)).screen /\ crtat' = scroll(Shown(s(BLANK), b, o)).at
      BY <2>2, <2>3, <3>3, Parts
    <3> QED BY <1>9, <3>4, <3>5
  <2> QED BY <2>4, <2>5
<1> QED BY <1>10, <1>11

\* The step of the teletype for a character, on the display.
LEMMA TeletypeStep ==
    ASSUME ConsoleInv, OnScreen, OnScreen', NEW c, kbmputc(c), c # NUL
    PROVE  \/ \E char \in Range(screen') : Paper!Write(char)
           \/ Paper!NewLine \/ Paper!Return \/ Paper!Back \/ Paper!Tab
<1> PICK s : s = screen
  OBVIOUS
<1> PICK a : a = crtat
  OBVIOUS
<1> PICK o : o = outside
  OBVIOUS
<1> PICK r : r = a \div COL
  OBVIOUS
<1> PICK k : k = a % COL
  OBVIOUS
<1> DEFINE d == Shown(s, a, o)
<1>1. screen' = typed(d, c).screen /\ crtat' = typed(d, c).at
  BY DEF kbmputc, OnScreen, Display, Shown
<1>2. OnCells(s) /\ a \in Cells /\ crtat' \in Cells
  BY DEF OnScreen, ConsoleInv, Cells
<1>3. /\ COL \in Nat /\ COL >= 1 /\ ROW \in Nat /\ ROW >= 1 /\ COL * ROW = ROW * COL
      /\ Cells = 0..(COL * ROW - 1) /\ COL * ROW \in Nat /\ COL * ROW >= COL /\ a \in Nat
  BY <1>2, Sizes
<1>4. r \in 0..(ROW - 1) /\ k \in 0..(COL - 1) /\ a = r * COL + k
  BY <1>2, Places
<1>5. /\ Paper!NewLine <=> Paper!Goto(r + 1, 0, PaperOf(s))
      /\ Paper!Return <=> Paper!Goto(r, 0, PaperOf(s))
      /\ Paper!Back <=> IF k > 0 THEN Paper!Goto(r, k - 1, PaperOf(s))
                        ELSE r > 0 /\ Paper!Goto(r - 1, COL - 1, PaperOf(s))
      /\ Paper!Tab <=> Paper!Goto(r, ((k \div TAB) + 1) * TAB,
           [PaperOf(s) EXCEPT ![r] = [x \in DOMAIN @ |->
              IF x \in k..((((k \div TAB) + 1) * TAB) - 1) THEN BLANK ELSE @[x]]])
  <2>1. Paper!NewLine <=> Paper!Goto(r + 1, 0, PaperOf(s))
    BY DEF Paper!NewLine, Paper!Goto, Paper!Line, PaperOf
  <2>2. Paper!Return <=> Paper!Goto(r, 0, PaperOf(s))
    BY DEF Paper!Return, Paper!Goto, Paper!Line, PaperOf
  <2>3. Paper!Back <=> IF k > 0 THEN Paper!Goto(r, k - 1, PaperOf(s))
                       ELSE r > 0 /\ Paper!Goto(r - 1, COL - 1, PaperOf(s))
    BY DEF Paper!Back, Paper!Goto, Paper!Line, PaperOf
  <2>4. Paper!Tab <=> Paper!Goto(r, ((k \div TAB) + 1) * TAB,
          [PaperOf(s) EXCEPT ![r] = [x \in DOMAIN @ |->
             IF x \in k..((((k \div TAB) + 1) * TAB) - 1) THEN BLANK ELSE @[x]]])
    <3>1. PICK stop : stop = ((k \div TAB) + 1) * TAB
      OBVIOUS
    <3>2. PICK P : P = [PaperOf(s) EXCEPT ![r] = [x \in DOMAIN @ |->
                          IF x \in k..(stop - 1) THEN BLANK ELSE @[x]]]
      OBVIOUS
    <3> DEFINE paper == [i \in 0..(ROW - 1) |-> [x \in 0..(COL - 1) |-> screen[i * COL + x]]]
    <3>3. P = [paper EXCEPT ![crtat \div COL] = [x \in DOMAIN @ |->
                 IF x \in (crtat % COL)..(((((crtat % COL) \div TAB) + 1) * TAB) - 1)
                 THEN BLANK ELSE @[x]]]
      <4>1. PaperOf(s) = paper
        BY DEF PaperOf
      <4> HIDE DEF paper
      <4> QED BY <3>1, <3>2, <4>1
    <3>4. Paper!Tab <=> Paper!Goto(r, stop, P)
      BY <3>1, <3>3 DEF Paper!Tab, Paper!Goto, Paper!Line
    <3>5. Paper!Goto(r, stop, P) <=> Paper!Goto(r, ((k \div TAB) + 1) * TAB,
          [PaperOf(s) EXCEPT ![r] = [x \in DOMAIN @ |->
             IF x \in k..((((k \div TAB) + 1) * TAB) - 1) THEN BLANK ELSE @[x]]])
      BY <3>1, <3>2, Zenon
    <3> QED BY <3>4, <3>5
  <2> QED BY <2>1, <2>2, <2>3, <2>4
<1> HIDE DEF d
<1>6. CASE c = NEWLINE
  <2>1. PICK b : b = (r + 1) * COL
    OBVIOUS
  <2>2. typed(d, c) = scroll(Shown(s, b, o))
    BY <1>3, <1>6, <2>1, Newlined, Typed DEF d
  <2>3. PICK i : i = r + 1
    OBVIOUS
  <2>4. i \in 0..ROW /\ 0 \in 0..COL /\ 0 # COL /\ b = i * COL + 0
    BY <1>3, <1>4, <2>1, <2>3
  <2>5. Paper!Goto(i, 0, PaperOf(s))
    <3>1. Ends(s, b, o, i, 0)
      BY <1>1, <1>2, <2>2, <2>4 DEF Ends
    <3> QED BY <3>1, Goes
  <2> QED BY <1>5, <2>3, <2>5
<1>7. CASE c = RETURN
  <2>1. PICK b : b = r * COL
    OBVIOUS
  <2>2. typed(d, c) = scroll(Shown(s, b, o))
    BY <1>3, <1>7, <2>1, Returned, Typed DEF d
  <2>4. r \in 0..ROW /\ 0 \in 0..COL /\ 0 # COL /\ b = r * COL + 0
    BY <1>3, <1>4, <2>1
  <2>5. Paper!Goto(r, 0, PaperOf(s))
    <3>1. Ends(s, b, o, r, 0)
      BY <1>1, <1>2, <2>2, <2>4 DEF Ends
    <3> QED BY <3>1, Goes
  <2> QED BY <1>5, <2>5
<1>8. CASE c = BACKSPACE
  <2>1. PICK b : b = a - 1
    OBVIOUS
  <2>2. typed(d, c) = scroll(Shown(s, b, o))
    BY <1>8, <2>1, Backed, Typed DEF d
  <2>3. b < COL * ROW /\ b \in Int
    BY <1>2, <1>3, <2>1
  <2>4. crtat' = b
    <3>1. scroll(Shown(s, b, o)) = Shown(s, b, o)
      BY <1>3, <2>3, Scrolled
    <3> QED BY <1>1, <2>2, <3>1, Parts
  <2>5. b >= 0
    BY <1>2, <1>3, <2>4
  <2>6. CASE k > 0
    <3>1. PICK j : j = k - 1
      OBVIOUS
    <3>2. r \in 0..ROW /\ j \in 0..COL /\ j # COL /\ b = r * COL + j
      BY <1>3, <1>4, <2>1, <2>6, <3>1
    <3>3. Ends(s, b, o, r, j)
      BY <1>1, <1>2, <2>2, <3>2 DEF Ends
    <3>4. Paper!Goto(r, j, PaperOf(s))
      BY <3>3, Goes
    <3>5. Paper!Goto(r, k - 1, PaperOf(s))
      BY <3>1, <3>4, Zenon
    <3>6. Paper!Back
      BY <1>5, <2>6, <3>5, Zenon
    <3> QED BY <3>6
  <2>7. CASE ~(k > 0)
    <3>1. PICK i : i = r - 1
      OBVIOUS
    <3>2. PICK j : j = COL - 1
      OBVIOUS
    <3>3. k = 0 /\ r > 0
      BY <1>3, <1>4, <2>1, <2>5, <2>7
    <3>4. i \in 0..ROW /\ j \in 0..COL /\ j # COL /\ b = i * COL + j
      BY <1>3, <1>4, <2>1, <3>1, <3>2, <3>3
    <3>5. Ends(s, b, o, i, j)
      BY <1>1, <1>2, <2>2, <3>4 DEF Ends
    <3>6. Paper!Goto(i, j, PaperOf(s))
      BY <3>5, Goes
    <3>7. Paper!Goto(r - 1, COL - 1, PaperOf(s))
      BY <3>1, <3>2, <3>6, Zenon
    <3>8. Paper!Back
      BY <1>5, <2>7, <3>3, <3>7, Zenon
    <3> QED BY <3>8
  <2> QED BY <2>6, <2>7
<1>9. CASE c = TABULATOR
  <2>1. PICK n : n = To(a)
    OBVIOUS
  <2>2. /\ n \in 1..TAB /\ TAB \in Nat /\ a + n <= COL * ROW /\ k + n <= COL
        /\ ((k \div TAB) + 1) * TAB = k + n
    BY <1>2, <2>1, TabStops, Sizes
  <2>3. PICK b \in Nat : b = a + n
    BY <1>3, <2>2
  <2>4. tabulate(d) = scroll(Shown(blanked(s, a, n), b, o))
    BY <1>2, <2>1, <2>3, TabWrites DEF d
  <2>5. b < COL * ROW + COL
    BY <1>3, <2>2, <2>3
  <2>6. typed(d, c) = scroll(Shown(blanked(s, a, n), b, o))
    BY <1>9, <2>4, <2>5, ScrollTwice, Typed
  <2>7. PICK j : j = k + n
    OBVIOUS
  <2>8. r \in 0..ROW /\ j \in 0..COL /\ r < ROW /\ b = r * COL + j
    <3>1. r \in 0..ROW /\ r < ROW /\ k \in Nat /\ n \in Nat
      BY <1>3, <1>4, <2>2
    <3>2. j \in 0..COL
      BY <1>3, <2>2, <2>7, <3>1
    <3>3. PICK x \in Int : x = r * COL
      BY <1>3, <3>1
    <3>5. a = x + k
      BY <1>4, <3>3
    <3>4. b = x + j
      BY <2>3, <2>7, <3>1, <3>3, <3>5
    <3> QED BY <3>1, <3>2, <3>3, <3>4
  <2>9. OnCells(blanked(s, a, n))
    BY DEF OnCells, blanked
  <2>10. Paper!Goto(r, j, PaperOf(blanked(s, a, n)))
    <3>1. Ends(blanked(s, a, n), b, o, r, j)
      BY <1>1, <1>3, <2>6, <2>8, <2>9 DEF Ends
    <3> QED BY <3>1, Goes
  <2>11. PaperOf(blanked(s, a, n)) =
           [PaperOf(s) EXCEPT ![r] = [x \in DOMAIN @ |->
              IF x \in k..(k + n - 1) THEN BLANK ELSE @[x]]]
    <3>1. n \in Nat
      BY <2>2
    <3> QED BY <1>2, <2>2, <3>1, BlankedPaper
  <2> DEFINE Filled(m) == [PaperOf(s) EXCEPT ![r] = [x \in DOMAIN @ |->
                             IF x \in k..m THEN BLANK ELSE @[x]]]
  <2>12. PICK stop : stop = ((k \div TAB) + 1) * TAB
    OBVIOUS
  <2>13. Paper!Tab <=> Paper!Goto(r, stop, Filled(stop - 1))
    BY <1>5, <2>12, Zenon
  <2>14. PaperOf(blanked(s, a, n)) = Filled(k + n - 1)
    BY <2>11
  <2> HIDE DEF Filled
  <2>15. stop = j /\ stop - 1 = k + n - 1
    BY <2>2, <2>7, <2>12
  <2>16. Filled(stop - 1) = PaperOf(blanked(s, a, n))
    BY <2>14, <2>15
  <2>17. Paper!Tab
    BY <2>10, <2>13, <2>15, <2>16, Zenon
  <2> QED BY <2>17
<1>10. CASE c \notin {TABULATOR, BACKSPACE, NEWLINE, RETURN}
  <2>1. typed(d, c) = scroll(store(d, c))
    BY <1>10, Typed
  <2> QED BY <1>1, <1>2, <2>1, WriteStep DEF d
<1> QED BY <1>6, <1>7, <1>8, <1>9, <1>10

\* The console implements the teletype on every display: each character on the
\* display is one of its steps, scrolls and tabs included.
THEOREM ConsoleIsTeletype == Spec => ImplementsTeletype
<1> DEFINE Step == (OnScreen /\ OnScreen') =>
                     \/ \E char \in Range(screen') : Paper!Write(char)
                     \/ Paper!NewLine \/ Paper!Return \/ Paper!Back \/ Paper!Tab
<1>1. ASSUME ConsoleInv, [Next]_vars PROVE [Step]_<<screen, crtat>>
  <2> SUFFICES ASSUME OnScreen, OnScreen', ~UNCHANGED <<screen, crtat>>
               PROVE  \/ \E char \in Range(screen') : Paper!Write(char)
                      \/ Paper!NewLine \/ Paper!Return \/ Paper!Back \/ Paper!Tab
    OBVIOUS
  <2>1. PICK c : kbmputc(c)
    BY <1>1, ConsoleSteps DEF consoleVars
  <2>2. c # NUL
    BY <2>1 DEF kbmputc, consoleVars
  <2> QED BY <1>1, <2>1, <2>2, TeletypeStep
<1>2. ConsoleInv /\ [Next]_vars => [Step]_<<screen, crtat>>
  BY <1>1
<1> QED BY <1>2, InitConsoleInv, NextConsoleInv, PTL DEF Spec, ImplementsTeletype
=============================================================================
