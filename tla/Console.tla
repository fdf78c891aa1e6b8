-------------------------------- MODULE Console --------------------------------
(***************************************************************************)
(* The console (src/c/kprintf.c): characters go to the memory of the       *)
(* display, at a pointer that moves on, backwards or down, and the screen  *)
(* scrolls when the pointer leaves it.  A cell is its character; the       *)
(* attribute byte beside it is always the same, and the cursor (cursor())  *)
(* always follows the pointer.                                             *)
(***************************************************************************)
EXTENDS Integers, Sequences, SequencesExt, FiniteSetsExt, TLC

CONSTANTS
    COL, ROW,       \* columns and rows of the display
    TAB             \* distance of the tab stops, 8 in the code

ASSUME DisplayAssumption ==
    /\ COL \in Nat \ {0} /\ ROW \in Nat \ {0} /\ TAB \in Nat \ {0}
    /\ COL % TAB = 0

VARIABLES
    screen,         \* the cells of the display
    cursorat,       \* where the BIOS has left the cursor
    crtat,          \* the pointer, in cells from the first; negative above it
    started,        \* crtat is set
    above,          \* crtat has been above the display
    outside         \* a character was written outside the display

consoleVars == <<screen, cursorat, crtat, started, above, outside>>

NUL        == "NUL"
TABULATOR  == "TAB"
BACKSPACE  == "BS"
NEWLINE    == "NL"
RETURN     == "CR"
BLANK      == " "
Cells      == 0..(COL * ROW - 1)

\* A display as the code passes it from statement to statement.
Display == [screen |-> screen, at |-> crtat, outside |-> outside]

\* Text moves up a line, the last line is cleared, and the pointer moves too.
lines_up(d) ==
    [d EXCEPT !.screen = [i \in Cells |-> IF i + COL \in Cells THEN @[i + COL] ELSE BLANK],
              !.at = @ - COL]

\* Mutant: scrolls one character late.
scroll_late(d) == IF d.at > COL * ROW THEN lines_up(d) ELSE d

scroll(d) == IF d.at >= COL * ROW THEN lines_up(d) ELSE d

\* A glyph is stored and the pointer moves on.
store(d, c) ==
    IF d.at \in Cells THEN [d EXCEPT !.screen[d.at] = c, !.at = @ + 1]
    ELSE [d EXCEPT !.outside = TRUE, !.at = @ + 1]

\* The remainder of C has the sign of the dividend.
remainder(a, b) == IF a >= 0 THEN a % b ELSE -((-a) % b)

return(d) == [d EXCEPT !.at = @ - remainder(@, COL)]

\* Mutant: a newline without the return it falls through to.
newline_straight(d) == [d EXCEPT !.at = @ + COL]

newline(d) == return([d EXCEPT !.at = @ + COL])

\* kbmputc(' '), and again until a tab stop is reached.
tabulate(d) ==
    FoldLeft(LAMBDA s, i : IF i > 1 /\ s.at % TAB = 0 THEN s ELSE scroll(store(s, BLANK)),
             d, [i \in 1..TAB |-> i])

\* What kbmputc does with a character, once the pointer is set.
typed(d, c) ==
    CASE c = TABULATOR -> scroll(tabulate(d))
      [] c = BACKSPACE -> scroll([d EXCEPT !.at = @ - 1])
      [] c = NEWLINE   -> scroll(newline(d))
      [] c = RETURN    -> scroll(return(d))
      [] OTHER         -> scroll(store(d, c))

\* The first character: the pointer goes where the cursor is, if that is not
\* past the display, and what follows it is cleared.
start ==
    LET at == IF cursorat <= COL * ROW THEN cursorat ELSE 0
    IN  [Display EXCEPT !.at = at,
                        !.screen = [i \in Cells |-> IF i >= at THEN BLANK ELSE @[i]]]

kbmputc(c) ==
    IF c = NUL THEN UNCHANGED consoleVars
    ELSE LET d == typed(IF started THEN Display ELSE start, c)
         IN  /\ screen' = d.screen /\ crtat' = d.at /\ outside' = d.outside
             /\ above' = (above \/ d.at < 0)
             /\ started' = TRUE
             /\ UNCHANGED cursorat

\* What the BIOS has written is different in every cell.
ConsoleInit ==
    /\ screen = [i \in Cells |-> ToString(i)]
    /\ crtat = 0 /\ started = FALSE /\ above = FALSE /\ outside = FALSE

-----------------------------------------------------------------------------
(* Properties *)

\* The pointer stays on the display and nothing is ever written outside it
\* (kprintf.c writes through crtat unchecked), but for the two cases that the
\* code lets happen: a first cursor one past the last cell, which the <= of
\* line 122 accepts, and backspaces beyond the first cell (line 143).  (A third
\* needs two callers, which this module does not have: a program that prints for
\* itself, as sudo does, can be interrupted after the pointer has moved past the
\* last cell and before the scroll, lines 156 to 161, and the kernel then prints
\* below the display.)
WritesStayOnScreen ==
    (cursorat # COL * ROW /\ ~above) => ~outside /\ crtat \in Cells

OnScreen == started /\ crtat \in Cells

Paper == INSTANCE Teletype WITH
    Columns <- COL, Rows <- ROW, Stop <- TAB, Blank <- BLANK,
    paper   <- [r \in 0..(ROW - 1) |-> [c \in 0..(COL - 1) |-> screen[r * COL + c]]],
    row     <- crtat \div COL,
    column  <- crtat % COL

\* While it is on the display, the console is a teletype: each character that
\* kbmputc takes is one step of module Teletype, the scroll that ends it and
\* the blanks of a tab included.
ImplementsTeletype ==
    [][(OnScreen /\ OnScreen') =>
          \/ \E char \in Range(screen') : Paper!Write(char)
          \/ Paper!NewLine \/ Paper!Return \/ Paper!Back \/ Paper!Tab]_<<screen, crtat>>
=============================================================================
