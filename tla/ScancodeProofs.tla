------------------------------ MODULE ScancodeProofs ------------------------------
(***************************************************************************)
(* Proofs about scan codes and modifiers, for every set of keys and every  *)
(* number of codes that wait.                                              *)
(***************************************************************************)
EXTENDS Scancode, TLAPS

-----------------------------------------------------------------------------
\* The codes that the keyboard sends.
Codes == [key : DOMAIN Table, up : BOOLEAN]

\* The codes that set or clear the bit of a modifier: those of its keys, and
\* the release of CTRL.
Matters(keys, code) == code.key \in keys \/ code = Code("control", TRUE)

\* The code that decides about the bit, if any: the last one that matters.
Decides(keys, q, i) ==
    /\ i \in 1..Len(q) /\ Matters(keys, q[i])
    /\ \A j \in 1..Len(q) : j > i => ~Matters(keys, q[j])

\* Whether the bit is set once the codes that wait have been processed.
WillBe(bit, keys) ==
    \/ \E i \in 1..Len(line) : Decides(keys, line, i) /\ ~line[i].up
    \/ (\A i \in 1..Len(line) : ~Matters(keys, line[i])) /\ bit \in keystate

\* The bit tells what it must: it will be set if a key of the modifier is held
\* and has been since its code could be read, and clear if none is held.
Tells(bit, keys) ==
    /\ since \cap keys # {} => WillBe(bit, keys)
    /\ held \cap keys = {} => ~WillBe(bit, keys)

\* The inductive invariant.
ModInv ==
    /\ line \in Seq(Codes) /\ keystate \subseteq {SHIFT, CTRL, CAPLOCK} /\ enabled \in BOOLEAN
    /\ held \subseteq DOMAIN Table /\ since \subseteq held
    /\ Tells(SHIFT, Shifts) /\ Tells(CTRL, {"control"})

\* The two modifiers whose keys are held down.
Modifier(bit, keys) == \/ bit = SHIFT /\ keys = Shifts
                       \/ bit = CTRL /\ keys = {"control"}

USE DEF SHIFT, CTRL, CAPLOCK, NUL

\* The keys, and what the codes of modifiers print: nothing.
LEMMA Keys ==
    /\ DOMAIN Table = {"letter", "digit", "keypad", "star", "enter", "back",
                       "lshift", "rshift", "control", "caps"}
    /\ \A k \in Shifts \cup {"control"} : Table[k] = Row(NUL, NUL, NUL)
    /\ Struck \subseteq DOMAIN Table
BY StruckAssumption DEF Table, Shifts

\* A code that does not matter to a modifier leaves its bit alone, and one
\* that matters sets it to whether a key went down.
LEMMA BitAfter ==
    ASSUME NEW bit, NEW keys, Modifier(bit, keys), NEW code \in Codes
    PROVE  /\ ~Matters(keys, code) => (bit \in keystate_after(code) <=> bit \in keystate)
           /\ Matters(keys, code) => (bit \in keystate_after(code) <=> ~code.up)
           /\ Matters(keys, code) => translate(code) = NUL
<1>1. code.key \in DOMAIN Table /\ code.up \in BOOLEAN /\ code = Code(code.key, code.up)
  BY DEF Codes, Code
<1>2. Matters(keys, code) <=> code.key \in keys \/ (code.key = "control" /\ code.up)
  BY <1>1 DEF Matters, Code
<1>3. CASE code.key \in Shifts
  <2>2. code.key # "control" /\ code.key # "caps"
    BY <1>3 DEF Shifts
  <2>1. keystate_after(code) = IF code.up THEN keystate \ {SHIFT} ELSE keystate \cup {SHIFT}
    BY <1>3, <2>2 DEF keystate_after
  <2> QED BY <1>1, <1>2, <1>3, <2>1, <2>2, Keys DEF Modifier, translate, Row
<1>4. CASE code.key = "control"
  <2>1. keystate_after(code) = IF code.up THEN keystate \ {CTRL, SHIFT} ELSE keystate \cup {CTRL}
    BY <1>4 DEF keystate_after, Shifts
  <2>2. code.key \notin Shifts
    BY <1>4 DEF Shifts
  <2> QED BY <1>1, <1>2, <1>4, <2>1, <2>2, Keys DEF Modifier, translate, Row
<1>5. CASE code.key \notin Shifts /\ code.key # "control"
  <2>1. keystate_after(code) \in {keystate, keystate \ {CAPLOCK}, keystate \cup {CAPLOCK}}
    BY <1>5 DEF keystate_after
  <2>2. ~Matters(keys, code)
    BY <1>2, <1>5 DEF Modifier
  <2> QED BY <2>1, <2>2 DEF Modifier
<1> QED BY <1>3, <1>4, <1>5

\* A code that comes decides, if it matters.
LEMMA Appended ==
    ASSUME NEW bit, NEW keys, line \in Seq(Codes), NEW code \in Codes,
           line' = Append(line, code), keystate' = keystate
    PROVE  WillBe(bit, keys)' <=> IF Matters(keys, code) THEN ~code.up ELSE WillBe(bit, keys)
<1> DEFINE n == Len(line)
<1>1. /\ n \in Nat /\ Len(line') = n + 1 /\ line'[n + 1] = code
      /\ \A i \in 1..n : line'[i] = line[i] /\ i \in 1..(n + 1)
      /\ \A i \in 1..(n + 1) : i \in 1..n \/ i = n + 1
  OBVIOUS
<1> HIDE DEF n
<1>2. CASE Matters(keys, code)
  <2>1. \A i \in 1..(n + 1) : Decides(keys, line', i) <=> i = n + 1
    BY <1>1, <1>2 DEF Decides
  <2>2. n + 1 \in 1..(n + 1)
    BY <1>1
  <2> QED BY <1>1, <1>2, <2>1, <2>2 DEF WillBe
<1>3. CASE ~Matters(keys, code)
  <2>1. \A i \in 1..n : Decides(keys, line', i) <=> Decides(keys, line, i)
    BY <1>1, <1>3 DEF Decides, n
  <2>2. ~Decides(keys, line', n + 1)
    BY <1>1, <1>3 DEF Decides
  <2> QED BY <1>1, <1>3, <2>1, <2>2 DEF WillBe, n
<1> QED BY <1>2, <1>3

\* Reading a code moves what it decides into the bit.
LEMMA Read ==
    ASSUME NEW bit, NEW keys, Modifier(bit, keys), line \in Seq(Codes), line # <<>>,
           line' = Tail(line),
           keystate' = IF translate(Head(line)) = NUL THEN keystate_after(Head(line)) ELSE keystate
    PROVE  WillBe(bit, keys)' <=> WillBe(bit, keys)
<1> DEFINE n == Len(line)
           code == Head(line)
<1>1. /\ n \in Nat /\ n >= 1 /\ Len(line') = n - 1 /\ line[1] = code /\ code \in Codes
      /\ \A i \in 1..(n - 1) : line'[i] = line[i + 1] /\ i + 1 \in 1..n
  OBVIOUS
<1>0. \A i \in 1..n : i = 1 \/ \E j \in 1..(n - 1) : i = j + 1 /\ line'[j] = line[i]
  <2> SUFFICES ASSUME NEW i \in 1..n, i # 1
               PROVE  \E j \in 1..(n - 1) : i = j + 1 /\ line'[j] = line[i]
    OBVIOUS
  <2>1. i - 1 \in 1..(n - 1) /\ i = (i - 1) + 1
    BY <1>1
  <2> QED BY <1>1, <2>1
<1>2. /\ ~Matters(keys, code) => (bit \in keystate' <=> bit \in keystate)
      /\ Matters(keys, code) => (bit \in keystate' <=> ~code.up)
  BY <1>1, BitAfter
<1> HIDE DEF n, code
<1>3. \A i \in 1..(n - 1) : Decides(keys, line', i) <=> Decides(keys, line, i + 1)
  <2> SUFFICES ASSUME NEW i \in 1..(n - 1)
               PROVE  Decides(keys, line', i) <=> Decides(keys, line, i + 1)
    OBVIOUS
  <2>1. ASSUME Decides(keys, line', i) PROVE Decides(keys, line, i + 1)
    <3>1. \A j \in 1..n : j > i + 1 => ~Matters(keys, line[j])
      <4> SUFFICES ASSUME NEW j \in 1..n, j > i + 1 PROVE ~Matters(keys, line[j])
        OBVIOUS
      <4>0. j # 1
        BY <1>1
      <4>1. PICK k \in 1..(n - 1) : j = k + 1 /\ line'[k] = line[j]
        BY <1>0, <4>0
      <4>2. k > i
        BY <1>1, <4>1
      <4> QED BY <1>1, <2>1, <4>1, <4>2 DEF Decides
    <3> QED BY <1>1, <2>1, <3>1 DEF Decides, n
  <2>2. ASSUME Decides(keys, line, i + 1) PROVE Decides(keys, line', i)
    <3>1. \A j \in 1..(n - 1) : j > i => ~Matters(keys, line'[j])
      <4> SUFFICES ASSUME NEW j \in 1..(n - 1), j > i PROVE ~Matters(keys, line'[j])
        OBVIOUS
      <4>1. j + 1 \in 1..n /\ j + 1 > i + 1 /\ line'[j] = line[j + 1]
        BY <1>1
      <4> QED BY <2>2, <4>1 DEF Decides, n
    <3> QED BY <1>1, <2>2, <3>1 DEF Decides, n
  <2> QED BY <2>1, <2>2
<1>4. Decides(keys, line, 1) <=>
        Matters(keys, code) /\ \A i \in 1..(n - 1) : ~Matters(keys, line'[i])
  <2>1. ASSUME Decides(keys, line, 1)
        PROVE  Matters(keys, code) /\ \A i \in 1..(n - 1) : ~Matters(keys, line'[i])
    <3> SUFFICES ASSUME NEW i \in 1..(n - 1) PROVE ~Matters(keys, line'[i])
      BY <1>1, <2>1 DEF Decides
    <3>1. i + 1 \in 1..n /\ i + 1 > 1 /\ line'[i] = line[i + 1]
      BY <1>1
    <3> QED BY <2>1, <3>1 DEF Decides, n
  <2>2. ASSUME Matters(keys, code), \A i \in 1..(n - 1) : ~Matters(keys, line'[i])
        PROVE  Decides(keys, line, 1)
    <3>1. \A j \in 1..n : j > 1 => ~Matters(keys, line[j])
      <4> SUFFICES ASSUME NEW j \in 1..n, j # 1 PROVE ~Matters(keys, line[j])
        BY <1>1
      <4>1. PICK k \in 1..(n - 1) : j = k + 1 /\ line'[k] = line[j]
        BY <1>0
      <4> QED BY <2>2, <4>1
    <3> QED BY <1>1, <2>2, <3>1 DEF Decides, n
  <2> QED BY <2>1, <2>2
<1>5. (\A i \in 1..n : ~Matters(keys, line[i])) <=>
        ~Matters(keys, code) /\ \A i \in 1..(n - 1) : ~Matters(keys, line'[i])
  <2>1. ASSUME \A i \in 1..n : ~Matters(keys, line[i])
        PROVE  ~Matters(keys, code) /\ \A i \in 1..(n - 1) : ~Matters(keys, line'[i])
    BY <1>1, <2>1
  <2>2. ASSUME ~Matters(keys, code), \A i \in 1..(n - 1) : ~Matters(keys, line'[i]), NEW i \in 1..n
        PROVE  ~Matters(keys, line[i])
    BY <1>0, <1>1, <2>2
  <2> QED BY <2>1, <2>2
<1>6. (\E i \in 1..n : Decides(keys, line, i) /\ ~line[i].up) <=>
        \/ Decides(keys, line, 1) /\ ~code.up
        \/ \E i \in 1..(n - 1) : Decides(keys, line', i) /\ ~line'[i].up
  <2>1. ASSUME NEW i \in 1..n, Decides(keys, line, i), ~line[i].up
        PROVE  \/ Decides(keys, line, 1) /\ ~code.up
               \/ \E j \in 1..(n - 1) : Decides(keys, line', j) /\ ~line'[j].up
    <3>1. CASE i = 1
      BY <1>1, <2>1, <3>1
    <3>2. CASE i # 1
      <4>1. PICK j \in 1..(n - 1) : i = j + 1 /\ line'[j] = line[i]
        BY <1>0, <3>2
      <4> QED BY <1>3, <2>1, <4>1
    <3> QED BY <3>1, <3>2
  <2>2. ASSUME NEW i \in 1..(n - 1), Decides(keys, line', i), ~line'[i].up
        PROVE  \E j \in 1..n : Decides(keys, line, j) /\ ~line[j].up
    BY <1>1, <1>3, <2>2
  <2>3. 1 \in 1..n
    BY <1>1
  <2> QED BY <1>1, <2>1, <2>2, <2>3
<1>7. WillBe(bit, keys)' <=>
        \/ \E i \in 1..(n - 1) : Decides(keys, line', i) /\ ~line'[i].up
        \/ (\A i \in 1..(n - 1) : ~Matters(keys, line'[i])) /\ bit \in keystate'
  BY <1>1 DEF WillBe
<1>8. WillBe(bit, keys) <=>
        \/ \E i \in 1..n : Decides(keys, line, i) /\ ~line[i].up
        \/ (\A i \in 1..n : ~Matters(keys, line[i])) /\ bit \in keystate
  BY DEF WillBe, n
<1> QED BY <1>2, <1>4, <1>5, <1>6, <1>7, <1>8

-----------------------------------------------------------------------------
\* The keyboard and the driver start with no key, no code and no bit.
LEMMA InitModInv == Init => ModInv
<1> SUFFICES ASSUME Init PROVE ModInv
  OBVIOUS
<1>1. /\ held = {} /\ line = <<>> /\ Len(line) = 0 /\ enabled = FALSE /\ keystate = {}
      /\ since = {}
  BY DEF Init
<1>2. \A bit, keys : ~WillBe(bit, keys)
  BY <1>1 DEF WillBe
<1>3. \A bit, keys : Tells(bit, keys)
  <2>1. \A keys : since \cap keys = {}
    BY <1>1
  <2> QED BY <1>2, <2>1 DEF Tells
<1>4. line \in Seq(Codes)
  BY <1>1
<1> QED BY <1>1, <1>3, <1>4 DEF ModInv

\* A key that goes down is held, and its code sets the bit of its modifier.
LEMMA PressModInv ==
    ASSUME ModInv, NEW k \in Struck, Press(k)
    PROVE  ModInv'
<1>1. k \in DOMAIN Table /\ Code(k, FALSE) \in Codes
  BY Keys DEF Codes, Code
<1>2. /\ line \in Seq(Codes) /\ line' = Append(line, Code(k, FALSE)) /\ keystate' = keystate
      /\ held' = held \cup {k} /\ since' = since \cup {k} /\ enabled' = enabled
  BY DEF ModInv, Press
<1>3. ASSUME NEW bit, NEW keys, Modifier(bit, keys), Tells(bit, keys) PROVE Tells(bit, keys)'
  <2>1. WillBe(bit, keys)' <=>
          IF Matters(keys, Code(k, FALSE)) THEN ~Code(k, FALSE).up ELSE WillBe(bit, keys)
    BY <1>1, <1>2, Appended
  <2>2. Matters(keys, Code(k, FALSE)) <=> k \in keys
    BY DEF Matters, Code
  <2>3. WillBe(bit, keys)' <=> k \in keys \/ WillBe(bit, keys)
    BY <2>1, <2>2 DEF Code
  <2> QED BY <1>2, <1>3, <2>3 DEF Tells
<1>4. Tells(SHIFT, Shifts)' /\ Tells(CTRL, {"control"})'
  BY <1>3 DEF ModInv, Modifier
<1>5. line' \in Seq(Codes)
  <2> DEFINE C == Codes
             q == line
  <2> HIDE DEF C
  <2>1. \A code \in C : q \in Seq(C) => Append(q, code) \in Seq(C)
    OBVIOUS
  <2> QED BY <1>1, <1>2, <2>1 DEF C
<1> QED BY <1>1, <1>2, <1>4, <1>5 DEF ModInv

\* A key that goes up clears the bit of its modifier, and the model does not
\* expect the bit for a key that may still be down.
LEMMA ReleaseModInv ==
    ASSUME ModInv, NEW k \in Struck, Release(k)
    PROVE  ModInv'
<1>1. k \in DOMAIN Table /\ Code(k, TRUE) \in Codes
  BY Keys DEF Codes, Code
<1>2. /\ line \in Seq(Codes) /\ line' = Append(line, Code(k, TRUE)) /\ keystate' = keystate
      /\ held' = held \ {k} /\ since' = since \ Disturbed(k) /\ enabled' = enabled
  BY DEF ModInv, Release
<1>3. ASSUME NEW bit, NEW keys, Modifier(bit, keys), Tells(bit, keys) PROVE Tells(bit, keys)'
  <2>1. WillBe(bit, keys)' <=>
          IF Matters(keys, Code(k, TRUE)) THEN ~Code(k, TRUE).up ELSE WillBe(bit, keys)
    BY <1>1, <1>2, Appended
  <2>2. Matters(keys, Code(k, TRUE)) <=> k \in keys \/ k = "control"
    BY DEF Matters, Code
  <2>3. CASE k \in keys \/ k = "control"
    <3>1. keys \subseteq Disturbed(k)
      BY <1>3, <2>3 DEF Modifier, Disturbed, Shifts
    <3> QED BY <1>2, <2>1, <2>2, <2>3, <3>1 DEF Tells, Code
  <2>4. CASE ~(k \in keys \/ k = "control")
    <3>1. Disturbed(k) \cap keys = {}
      BY <1>3, <2>4 DEF Modifier, Disturbed, Shifts
    <3> QED BY <1>2, <1>3, <2>1, <2>2, <2>4, <3>1 DEF Tells
  <2> QED BY <2>3, <2>4
<1>4. Tells(SHIFT, Shifts)' /\ Tells(CTRL, {"control"})'
  BY <1>3 DEF ModInv, Modifier
<1>5. line' \in Seq(Codes)
  <2> DEFINE C == Codes
             q == line
  <2> HIDE DEF C
  <2>1. \A code \in C : q \in Seq(C) => Append(q, code) \in Seq(C)
    OBVIOUS
  <2> QED BY <1>1, <1>2, <2>1 DEF C
<1>6. since' \subseteq held'
  BY <1>2 DEF ModInv, Disturbed
<1> QED BY <1>2, <1>4, <1>5, <1>6 DEF ModInv

\* Processing a code changes the bits, not what they will be.
LEMMA ProcessModInv ==
    ASSUME ModInv, keyboard_process_scancode
    PROVE  ModInv'
<1>1. /\ line \in Seq(Codes) /\ line # <<>> /\ line' = Tail(line)
      /\ keystate' = IF translate(Head(line)) = NUL THEN keystate_after(Head(line)) ELSE keystate
      /\ held' = held /\ since' = since /\ enabled' = enabled
  BY DEF ModInv, keyboard_process_scancode
<1>2. ASSUME NEW bit, NEW keys, Modifier(bit, keys), Tells(bit, keys) PROVE Tells(bit, keys)'
  <2>1. WillBe(bit, keys)' <=> WillBe(bit, keys)
    BY <1>1, <1>2, Read
  <2> QED BY <1>1, <1>2, <2>1 DEF Tells
<1>3. Tells(SHIFT, Shifts)' /\ Tells(CTRL, {"control"})'
  BY <1>2 DEF ModInv, Modifier
<1>4. line' \in Seq(Codes)
  BY <1>1
<1>5. keystate' \subseteq {SHIFT, CTRL, CAPLOCK}
  BY <1>1 DEF ModInv, keystate_after
<1> QED BY <1>1, <1>3, <1>4, <1>5 DEF ModInv

\* kbd_open clears the bits: those of the keys that it may still expect will
\* be set by the codes that wait.
LEMMA OpenModInv ==
    ASSUME ModInv, kbd_open
    PROVE  ModInv'
<1>1. /\ keystate' = {} /\ enabled' = TRUE /\ line' = line /\ held' = held
      /\ since' = {k \in since : \E i \in DOMAIN line : line[i] = Code(k, FALSE)}
  BY DEF kbd_open
<1>2. DOMAIN line = 1..Len(line)
  BY DEF ModInv
<1>3. ASSUME NEW bit, NEW keys, Modifier(bit, keys), Tells(bit, keys) PROVE Tells(bit, keys)'
  <2>1. WillBe(bit, keys)' <=> \E i \in 1..Len(line) : Decides(keys, line, i) /\ ~line[i].up
    BY <1>1 DEF WillBe
  <2>2. ASSUME NEW k \in since' \cap keys PROVE WillBe(bit, keys)'
    <3>1. PICK i \in 1..Len(line) : line[i] = Code(k, FALSE)
      BY <1>1, <1>2, <2>2
    <3>2. Matters(keys, line[i])
      BY <2>2, <3>1 DEF Matters, Code
    <3>3. WillBe(bit, keys)
      BY <1>1, <1>3, <2>2 DEF Tells
    <3> QED BY <2>1, <3>2, <3>3 DEF WillBe
  <2>3. held' \cap keys = {} => ~WillBe(bit, keys)'
    BY <1>1, <1>3, <2>1 DEF Tells, WillBe
  <2> QED BY <2>2, <2>3 DEF Tells
<1>4. Tells(SHIFT, Shifts)' /\ Tells(CTRL, {"control"})'
  BY <1>3 DEF ModInv, Modifier
<1> QED BY <1>1, <1>4 DEF ModInv

\* Every step keeps the invariant.
LEMMA NextModInv == ModInv /\ [Next]_codeVars => ModInv'
<1> SUFFICES ASSUME ModInv, [Next]_codeVars PROVE ModInv'
  OBVIOUS
<1>1. CASE \E k \in Struck : Press(k) \/ Release(k)
  BY <1>1, PressModInv, ReleaseModInv
<1>2. CASE keyboard_process_scancode
  BY <1>2, ProcessModInv
<1>3. CASE kbd_open
  BY <1>3, OpenModInv
<1>4. CASE setEnabledKbd
  BY <1>4 DEF setEnabledKbd, ModInv, Tells, WillBe, Decides
<1>5. CASE UNCHANGED codeVars
  BY <1>5 DEF codeVars, ModInv, Tells, WillBe, Decides
<1> QED BY <1>1, <1>2, <1>3, <1>4, <1>5 DEF Next

-----------------------------------------------------------------------------
\* With one code left, that of a character, the bit of a modifier is what its
\* keys say.
LEMMA BitIsDown ==
    ASSUME NEW bit, NEW keys, Modifier(bit, keys), Tells(bit, keys), line \in Seq(Codes),
           Len(line) = 1, ~line[1].up, line[1].key \notin keys
    PROVE  (bit \in keystate) \in Down(keys)
<1>1. ~Matters(keys, line[1])
  BY DEF Matters, Code
<1>2. WillBe(bit, keys) <=> bit \in keystate
  BY <1>1 DEF WillBe, Decides
<1>3. (bit \in keystate) \in BOOLEAN
  OBVIOUS
<1>4. CASE held \cap keys = {}
  <2>1. (bit \in keystate) = FALSE
    BY <1>2, <1>3, <1>4 DEF Tells
  <2>2. FALSE \in Down(keys)
    BY <1>4 DEF Down
  <2> QED BY <2>1, <2>2
<1>5. CASE held \cap keys # {} /\ since \cap keys # {}
  <2>1. bit \in keystate /\ Down(keys) = {TRUE}
    BY <1>2, <1>5 DEF Tells, Down
  <2> QED BY <2>1
<1>6. CASE held \cap keys # {} /\ since \cap keys = {}
  BY <1>3, <1>6 DEF Down
<1> QED BY <1>4, <1>5, <1>6

\* The character that the last code gives is the one printed on its key for
\* the modifiers that the user holds: whatever keys are struck and however
\* many codes wait, no modifier sticks and none is forgotten.
THEOREM CharactersAsHeld == Spec => TypedAsHeld
<1> DEFINE Prints(ctrl, shift) ==
             IF ctrl THEN Table[line[1].key].ctrl
             ELSE IF shift # (CAPLOCK \in keystate) THEN Table[line[1].key].upper
             ELSE Table[line[1].key].lower
           Typed == (enabled /\ Len(line) = 1 /\ line' = <<>> /\ ~line[1].up) =>
                      \E ctrl \in Down({"control"}), shift \in Down(Shifts) :
                         c' = Prints(ctrl, shift)
<1>1. ASSUME ModInv, [Next]_codeVars PROVE [Typed]_codeVars
  <2> SUFFICES ASSUME enabled, Len(line) = 1, line' = <<>>, ~line[1].up
               PROVE  \E ctrl \in Down({"control"}), shift \in Down(Shifts) :
                         c' = Prints(ctrl, shift)
    OBVIOUS
  <2>1. line # <<>> /\ Head(line) = line[1] /\ line \in Seq(Codes) /\ line[1] \in Codes
    BY <1>1 DEF ModInv
  <2>2. \A x : Append(line, x) # <<>>
    BY <2>1
  <2>3. keyboard_process_scancode
    BY <1>1, <2>1, <2>2 DEF Next, Press, Release, kbd_open, setEnabledKbd, codeVars
  <2>4. c' = Prints(CTRL \in keystate, SHIFT \in keystate)
    BY <2>1, <2>3 DEF keyboard_process_scancode, translate
  <2>5. Tells(CTRL, {"control"}) /\ Tells(SHIFT, Shifts)
    BY <1>1 DEF ModInv
  <2>6. CASE line[1].key \in Shifts \cup {"control"}
    <3>1. \A ctrl, shift \in BOOLEAN : Prints(ctrl, shift) = NUL
      BY <2>6, Keys DEF Row
    <3>2. PICK ctrl \in Down({"control"}), shift \in Down(Shifts) : TRUE
      BY DEF Down
    <3>3. ctrl \in BOOLEAN /\ shift \in BOOLEAN
      BY DEF Down
    <3>4. c' = NUL
      BY <2>4, <2>6, Keys DEF Row
    <3>5. c' = Prints(ctrl, shift)
      BY <3>1, <3>3, <3>4
    <3> QED BY <3>5
  <2>7. CASE line[1].key \notin Shifts \cup {"control"}
    <3>1. (CTRL \in keystate) \in Down({"control"})
      BY <2>1, <2>5, <2>7, BitIsDown DEF Modifier
    <3>2. (SHIFT \in keystate) \in Down(Shifts)
      BY <2>1, <2>5, <2>7, BitIsDown DEF Modifier
    <3> QED BY <2>4, <3>1, <3>2
  <2> QED BY <2>6, <2>7
<1>2. ModInv /\ [Next]_codeVars => [Typed]_codeVars
  BY <1>1
<1> QED BY <1>2, InitModInv, NextModInv, PTL DEF Spec, TypedAsHeld
=============================================================================
