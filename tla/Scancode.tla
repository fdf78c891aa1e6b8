-------------------------------- MODULE Scancode --------------------------------
(***************************************************************************)
(* From keys to characters: the keyboard, its scan codes on their way to   *)
(* keyboard_isr, and keyboard_process_scancode (src/c/kbd.c), with the     *)
(* state of the SHIFT, CTRL and CAPS LOCK keys that it keeps.              *)
(*                                                                         *)
(* Of the 84 codes, the model has one key for each way in which the three  *)
(* tables of the code differ.  What becomes of a character is in module    *)
(* Kbd, which starts where this module ends.                               *)
(***************************************************************************)
EXTENDS Naturals, Sequences, SequencesExt, FiniteSets

CONSTANTS
    Struck,         \* the keys that are struck
    LineBound       \* codes that wait while the keyboard is off (search bound)

SHIFT   == "SHIFT"
CTRL    == "CTRL"
CAPLOCK == "CAPLOCK"
NUL     == "NUL"

\* The columns of the tables lower, upper and ctrl for a key.
Row(l, u, c) == [lower |-> l, upper |-> u, ctrl |-> c]
Table ==
    [letter  |-> Row("d", "D", "^D"),       \* ^D is KBD_DEFAULT_EOF
     digit   |-> Row("1", "!", NUL),
     keypad  |-> Row(NUL, "7", NUL),
     star    |-> Row("*", NUL, "^P"),       \* 0x37
     enter   |-> Row("NL", "NL", "NL"),
     back    |-> Row("BS", "BS", "DEL"),
     lshift  |-> Row(NUL, NUL, NUL),
     rshift  |-> Row(NUL, NUL, NUL),
     control |-> Row(NUL, NUL, NUL),
     caps    |-> Row(NUL, NUL, NUL)]

Shifts == {"lshift", "rshift"}

ASSUME StruckAssumption == Struck \subseteq DOMAIN Table /\ LineBound \in Nat

VARIABLES
    held,           \* the keys that are down
    line,           \* codes that keyboard_isr has not read: [key, up]
    enabled,        \* the keyboard's interrupts are not masked
    keystate,       \* g_keyboard_keystate_flag, as the set of its bits
    c,              \* the last character that keyboard_process_scancode returned
    since           \* held keys whose codes the open keyboard gets; not those
                    \* whose bit was cleared with another key's

codeVars == <<held, line, enabled, keystate, c, since>>

Init ==
    /\ held = {} /\ line = <<>> /\ enabled = FALSE /\ keystate = {}
    /\ c = NUL /\ since = {}

-----------------------------------------------------------------------------
(* The keyboard: codes are never lost, and wait while interrupts are masked *)

Code(key, up) == [key |-> key, up |-> up]

\* A key is struck, or repeats while it is held.
Press(k) ==
    /\ Len(line) < LineBound
    /\ line' = Append(line, Code(k, FALSE))
    /\ held' = held \cup {k} /\ since' = since \cup {k}
    /\ UNCHANGED <<enabled, keystate, c>>

\* The code has one bit for both SHIFT keys, and the release of CTRL clears it
\* as well.
Disturbed(k) == CASE k \in Shifts    -> Shifts
                  [] k = "control"   -> Shifts \cup {k}
                  [] OTHER           -> {k}

Release(k) ==
    /\ Len(line) < LineBound /\ k \in held
    /\ line' = Append(line, Code(k, TRUE))
    /\ held' = held \ {k} /\ since' = since \ Disturbed(k)
    /\ UNCHANGED <<enabled, keystate, c>>

-----------------------------------------------------------------------------
(* The driver *)

\* The character in the table that the state selects; none for a release.
translate(code) ==
    IF code.up THEN NUL
    ELSE IF CTRL \in keystate THEN Table[code.key].ctrl
    ELSE IF (SHIFT \in keystate) # (CAPLOCK \in keystate) THEN Table[code.key].upper
    ELSE Table[code.key].lower

\* Mutant: the release of the right SHIFT key is missing (0xB6).
keystate_after_left_only(code) ==
    CASE code.key \in Shifts -> IF ~code.up THEN keystate \cup {SHIFT}
                                ELSE IF code.key = "lshift" THEN keystate \ {SHIFT} ELSE keystate
      [] code.key = "control" -> IF code.up THEN keystate \ {CTRL, SHIFT} ELSE keystate \cup {CTRL}
      [] OTHER -> keystate

\* The switch for codes without a character.  In the release of CTRL, the
\* number of its bit (1) is used as a mask too, which clears bit 0, SHIFT.
keystate_after(code) ==
    CASE code.key \in Shifts  -> IF code.up THEN keystate \ {SHIFT} ELSE keystate \cup {SHIFT}
      [] code.key = "control" -> IF code.up THEN keystate \ {CTRL, SHIFT} ELSE keystate \cup {CTRL}
      [] code.key = "caps" /\ ~code.up ->
             IF CAPLOCK \in keystate THEN keystate \ {CAPLOCK} ELSE keystate \cup {CAPLOCK}
      [] OTHER -> keystate

keyboard_process_scancode ==
    /\ enabled /\ line # <<>>
    /\ c' = translate(Head(line))
    /\ keystate' = IF c' = NUL THEN keystate_after(Head(line)) ELSE keystate
    /\ line' = Tail(line)
    /\ UNCHANGED <<held, enabled, since>>

\* kbd_open of a closed keyboard: keys whose codes were read before are not
\* known to be down any more.
kbd_open ==
    /\ ~enabled /\ enabled' = TRUE
    /\ keystate' = {}
    /\ since' = {k \in since : \E i \in DOMAIN line : line[i] = Code(k, FALSE)}
    /\ UNCHANGED <<held, line, c>>

\* The last kbd_close, or an EOF (keyboard_handle_eof), turns interrupts off.
setEnabledKbd ==
    /\ enabled /\ enabled' = FALSE
    /\ UNCHANGED <<held, line, keystate, c, since>>

Next == \/ \E k \in Struck : Press(k) \/ Release(k)
        \/ keyboard_process_scancode \/ kbd_open \/ setEnabledKbd

Spec == Init /\ [][Next]_codeVars

-----------------------------------------------------------------------------
(* Properties *)

\* What the driver must, or else may, take a group of keys for.
Down(keys) == IF held \cap keys = {} THEN {FALSE}
              ELSE IF since \cap keys # {} THEN {TRUE} ELSE BOOLEAN

\* No modifier sticks and none is forgotten: the character that the last code
\* gives is the one printed on the key for the modifiers that the user holds
\* (^D, the EOF, needs CTRL to be down).  A modifier that is held counts if it
\* went down after the keyboard was opened, or while it was closed with its
\* code still unread, and no other SHIFT or CTRL key was let go since;
\* otherwise the driver may have forgotten it.
TypedAsHeld ==
    [][(enabled /\ Len(line) = 1 /\ line' = <<>> /\ ~line[1].up) =>
         \E ctrl \in Down({"control"}), shift \in Down(Shifts) :
            c' = IF ctrl THEN Table[line[1].key].ctrl
                 ELSE IF shift # (CAPLOCK \in keystate) THEN Table[line[1].key].upper
                 ELSE Table[line[1].key].lower]_codeVars
=============================================================================
