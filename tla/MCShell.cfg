SPECIFICATION Spec
CONSTANTS
    PCB_TABLE_SIZE = 4
    Lines <- MCLines
INVARIANTS
    ShellNeedsPassword
    ShellHasKeyboard
    PasswordHidden
    EchoComesBack
