-------------------------------- MODULE Teletype --------------------------------
(***************************************************************************)
(* What the console promises: a window of Rows lines of Columns characters *)
(* on a roll of paper that moves up when the last line is full.            *)
(***************************************************************************)
EXTENDS Naturals

CONSTANTS Columns, Rows, Stop,      \* Stop: distance of the tab stops
          Blank

VARIABLES paper,                    \* paper[row][column]
          row, column               \* where the next character goes

window == <<paper, row, column>>

Line == [c \in 0..(Columns - 1) |-> Blank]

\* The place (r, c) comes next, on lines, where c may be one past the line and
\* r one past the window.
Goto(r, c, lines) ==
    LET down == IF c = Columns THEN r + 1 ELSE r
    IN  /\ column' = c % Columns
        /\ row' = IF down = Rows THEN Rows - 1 ELSE down
        /\ paper' = IF down = Rows
                    THEN [i \in 0..(Rows - 1) |-> IF i = Rows - 1 THEN Line ELSE lines[i + 1]]
                    ELSE lines

Write(char) == Goto(row, column + 1, [paper EXCEPT ![row][column] = char])
NewLine     == Goto(row + 1, 0, paper)
Return      == Goto(row, 0, paper)
Back        == IF column > 0 THEN Goto(row, column - 1, paper)
               ELSE row > 0 /\ Goto(row - 1, Columns - 1, paper)
\* Blanks up to the next tab stop.
Tab         == LET stop == ((column \div Stop) + 1) * Stop
               IN  Goto(row, stop, [paper EXCEPT ![row] =
                     [c \in DOMAIN @ |-> IF c \in column..(stop - 1) THEN Blank ELSE @[c]]])
=============================================================================
