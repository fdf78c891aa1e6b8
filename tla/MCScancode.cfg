SPECIFICATION Spec
CONSTANTS
    Struck = {"letter", "keypad", "lshift", "rshift", "control", "caps"}
    LineBound = 3
PROPERTIES TypedAsHeld
