SPECIFICATION Spec
CONSTANTS
    COL = 4
    ROW = 3
    TAB = 2
    W = 16
    DIGITS = 5
    MAXSTR = 9
    Texts <- MCTexts
    BootCursors = {0, 5, 8, 11, 12, 13}
    CallBound = 1
INVARIANTS
    WritesStayOnScreen
    PrintsWhatIsMeant
PROPERTIES
    ImplementsTeletype
CHECK_DEADLOCK FALSE
