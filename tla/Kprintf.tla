-------------------------------- MODULE Kprintf --------------------------------
(***************************************************************************)
(* Formatted output: _doprnt (src/lib/libxc/doprnt.c) and its two callers, *)
(* kprintf, whose characters go to the console (module Console), and       *)
(* sprintf, whose characters go to a string.                               *)
(*                                                                         *)
(* A character is a string of length one or a name; a word is its value    *)
(* without sign, 0..2^W - 1.  longflag is always 1, for INT_NOT_LONG is    *)
(* not defined: the 16-bit printers are never called.  Not modelled: %b,   *)
(* whose 32 digits overrun string[20], and conversions that do not exist.  *)
(***************************************************************************)
EXTENDS Console

CONSTANTS
    W,              \* bits of a word
    DIGITS,         \* decimal digits of the largest word
    MAXSTR,         \* the widest field
    Texts,          \* what is printed: a sequence of items, see Render
    BootCursors,    \* where the BIOS may leave the cursor
    CallBound       \* calls to kprintf and sprintf (search bound)

BIG == 10 ^ (DIGITS - 1)

\* The words between BIG and 2 BIG are not negative: the printer of decimals
\* counts on it.
ASSUME WordAssumption ==
    /\ W \in Nat /\ DIGITS \in Nat \ {0} /\ MAXSTR \in Nat
    /\ 2 * BIG <= 2 ^ (W - 1) /\ 2 ^ W <= 10 * BIG /\ W % 3 # 0

\* The cursor is read from two ports of the display controller, a byte each.
ASSUME CursorAssumption == BootCursors \subseteq Nat

VARIABLES
    fmt, args,      \* what _doprnt has not read yet
    field,          \* characters of a conversion that are to be put
    func,           \* where characters go: "kputc", "sprntf", or "none" (no call)
    str,            \* the characters put since the call started
    asked,          \* the text of the call
    calls

printfVars == <<fmt, args, field, func, str, asked, calls>>
vars       == <<consoleVars, printfVars>>

word(n)   == n % (2 ^ W)
signed(w) == IF w >= 2 ^ (W - 1) THEN w - 2 ^ W ELSE w

Hex       == <<"0", "1", "2", "3", "4", "5", "6", "7", "8", "9", "a", "b", "c", "d", "e", "f">>
Decimal   == {Hex[i] : i \in 1..10}
ValueOf(c) == (CHOOSE i \in 1..10 : Hex[i] = c) - 1
Number(s)  == FoldLeft(LAMBDA n, c : n * 10 + ValueOf(c), 0, s)
Leading(s, C) == Min({n \in 0..Len(s) : n = Len(s) \/ s[n + 1] \notin C})

-----------------------------------------------------------------------------
(* Conversion of numbers *)

\* The digits of temp, the last first, without leading zeros but for the last.
stripped(temp) ==
    LET top == Max({1} \cup {i \in DOMAIN temp : temp[i] # 0})
    IN  [i \in 1..top |-> temp[top + 1 - i]]

\* _prtl10; _prtl16; and _prtl8, where the shift carries the sign along and
\* the last digit keeps the bits that are left of the word.
prtl10(num) == stripped([i \in 1..DIGITS |-> (num \div 10 ^ (i - 1)) % 10])
prtl16(num) == stripped([i \in 1..((W + 3) \div 4) |-> (num \div 16 ^ (i - 1)) % 16])

prtl8(num) ==
    LET top == (W + 2) \div 3
    IN  stripped([i \in 1..top |-> (num \div 8 ^ (i - 1)) % (IF i = top THEN 2 ^ (W % 3) ELSE 8)])

\* Case 'u': BIG is subtracted from "negative" numbers until they are not, and
\* the first digit makes up for it.
unsigned_decimal(num) ==
    LET digit1 == Min({k \in 0..9 : signed(word(num - k * BIG)) >= 0})
    IN  [prtl10(signed(word(num - digit1 * BIG))) EXCEPT ![1] = @ + digit1]

Chars(digits) == [i \in DOMAIN digits |-> Hex[digits[i] + 1]]

\* The switch of _doprnt: the sign and the characters of argument arg, a word
\* or, for %c and %s, the characters before the first NUL.
convert(f, arg) ==
    CASE f \in {"c", "s"} -> [sign |-> FALSE, s |-> arg]
      [] f \in {"d", "D"} ->
             LET n == signed(arg)
             IN  [sign |-> n < 0, s |-> Chars(unsigned_decimal(IF n < 0 THEN -n ELSE n))]
      [] f \in {"u", "U"} -> [sign |-> FALSE, s |-> Chars(unsigned_decimal(arg))]
      [] f \in {"o", "O"} -> [sign |-> FALSE, s |-> Chars(prtl8(signed(arg)))]
      [] f \in {"x", "X"} -> [sign |-> FALSE, s |-> Chars(prtl16(signed(arg)))]

-----------------------------------------------------------------------------
(* Parsing of a conversion *)

At(s)   == IF s = <<>> THEN NUL ELSE Head(s)
Past(s, c) == IF At(s) = c THEN Tail(s) ELSE s

\* A width: * takes it from the arguments; else it is a possibly empty number.
width(f, as) ==
    IF At(f) = "*" THEN [n |-> signed(Head(as)), fmt |-> Tail(f), args |-> Tail(as)]
    ELSE LET k == Leading(f, Decimal)
         IN  [n |-> Number(SubSeq(f, 1, k)), fmt |-> SubSeq(f, k + 1, Len(f)), args |-> as]

\* What follows the %: flags, widths, l and the letter.
directive(f, as) ==
    LET flags == Past(f, "-")
        min   == width(Past(flags, "0"), as)
        max   == IF At(min.fmt) = "." THEN width(Tail(min.fmt), min.args)
                 ELSE [min EXCEPT !.n = 0]
        rest  == Past(max.fmt, "l")
    IN  [leftjust |-> At(f) = "-", zero |-> At(flags) = "0", fmin |-> min.n, fmax |-> max.n,
         f |-> At(rest), fmt |-> IF rest = <<>> THEN <<>> ELSE Tail(rest), args |-> max.args]

Bounded(n) == IF n > MAXSTR \/ n < 0 THEN 0 ELSE n
Copies(c, n) == [i \in 1..n |-> c]

\* Mutant: forgets that the sign takes a place.
leading_signless(d, text, sign) ==
    IF Bounded(d.fmin) = 0 THEN 0 ELSE Bounded(d.fmin) - Len(text)

\* How many fill characters a field needs; none if negative.
leading(d, text, sign) ==
    (IF Bounded(d.fmin) = 0 THEN 0 ELSE Bounded(d.fmin) - Len(text)) - (IF sign THEN 1 ELSE 0)

\* The field: fill characters, the sign and the characters of the argument.
laid_out(d, sign, s) ==
    LET fill    == IF d.zero /\ d.f \notin {"c", "s"} THEN "0" ELSE BLANK
        fmax    == IF d.f = "s" THEN Bounded(d.fmax) ELSE 0
        text    == IF fmax # 0 /\ Len(s) > fmax THEN SubSeq(s, 1, fmax) ELSE s
        minus   == IF sign THEN <<"-">> ELSE <<>>
        padding == Copies(fill, leading(d, text, sign))
    IN  (IF fill = "0" THEN minus ELSE <<>>) \o (IF d.leftjust THEN <<>> ELSE padding)
        \o (IF fill = BLANK THEN minus ELSE <<>>) \o text
        \o (IF d.leftjust THEN padding ELSE <<>>)

-----------------------------------------------------------------------------
(* _doprnt *)

\* (*func)(farg, c): kputc, or sprntf, which stores the character.
put(c) ==
    /\ str' = Append(str, c)
    /\ IF func = "kputc" THEN kbmputc(c) ELSE UNCHANGED consoleVars
    /\ UNCHANGED <<func, asked, calls>>

\* Characters up to a %, and %% as one %.
echo ==
    /\ func # "none" /\ field = <<>> /\ fmt # <<>>
    /\ \/ Head(fmt) # "%" /\ fmt' = Tail(fmt)
       \/ Head(fmt) = "%" /\ At(Tail(fmt)) = "%" /\ fmt' = Tail(Tail(fmt))
    /\ put(Head(fmt))
    /\ UNCHANGED <<args, field>>

\* A conversion; if the format ends before its letter, a % is put instead.
conversion ==
    /\ func # "none" /\ field = <<>> /\ fmt # <<>>
    /\ Head(fmt) = "%" /\ At(Tail(fmt)) # "%"
    /\ LET d == directive(Tail(fmt), args)
       IN  /\ fmt' = d.fmt
           /\ IF d.f = NUL THEN args' = d.args /\ field' = <<"%">>
              ELSE LET c == convert(d.f, Head(d.args))
                   IN  args' = Tail(d.args) /\ field' = laid_out(d, c.sign, c.s)
    /\ UNCHANGED <<consoleVars, func, str, asked, calls>>

put_field ==
    /\ field # <<>>
    /\ put(Head(field)) /\ field' = Tail(field)
    /\ UNCHANGED <<fmt, args>>

-----------------------------------------------------------------------------
(* Calls.  An item of a text is a character (conv = "lit"), a percent sign  *)
(* ("%"), a conversion that the format ends in ("end"), or a conversion.    *)

Item(conv, num, chars) ==
    [conv |-> conv, num |-> num, chars |-> chars, left |-> FALSE, zero |-> FALSE, l |-> FALSE,
     min |-> 0, minstar |-> FALSE, max |-> 0, maxstar |-> FALSE]

Flag(on, c) == IF on THEN <<c>> ELSE <<>>

Numeral(n, base) ==
    LET len == Min({k \in 1..(DIGITS + 1) : n < base ^ k})
    IN  [i \in 1..len |-> Hex[((n \div base ^ (len - i)) % base) + 1]]

\* The characters of the format, and the arguments, that ask for an item.
Render(it) ==
    IF it.conv = "lit" THEN it.chars
    ELSE IF it.conv = "%" THEN <<"%", "%">>
    ELSE <<"%">> \o Flag(it.left, "-") \o Flag(it.zero, "0")
         \o (IF it.minstar THEN <<"*">> ELSE IF it.min = 0 THEN <<>> ELSE Numeral(it.min, 10))
         \o (IF it.maxstar THEN <<".", "*">>
             ELSE IF it.max = 0 THEN <<>> ELSE <<".">> \o Numeral(it.max, 10))
         \o Flag(it.l, "l") \o (IF it.conv = "end" THEN <<>> ELSE <<it.conv>>)
Arguments(it) ==
    IF it.conv \in {"lit", "%"} THEN <<>>
    ELSE Flag(it.minstar, word(it.min)) \o Flag(it.maxstar, word(it.max))
         \o (IF it.conv = "end" THEN <<>> ELSE IF it.conv \in {"c", "s"} THEN <<it.chars>> ELSE <<it.num>>)
ConcatAll(Op(_), text) == FoldLeft(LAMBDA s, it : s \o Op(it), <<>>, text)

call(text, f) ==
    /\ func = "none" /\ calls < CallBound
    /\ fmt' = ConcatAll(Render, text) /\ args' = ConcatAll(Arguments, text)
    /\ func' = f /\ field' = <<>> /\ str' = <<>> /\ asked' = text /\ calls' = calls + 1
    /\ UNCHANGED consoleVars

kprintf == \E text \in Texts : call(text, "kputc")
sprintf == \E text \in Texts : call(text, "sprntf")

\* _doprnt returns at the end of the format.
return_from_call ==
    /\ func # "none" /\ field = <<>> /\ fmt = <<>>
    /\ func' = "none" /\ UNCHANGED <<consoleVars, fmt, args, field, str, asked, calls>>

Init ==
    /\ ConsoleInit /\ cursorat \in BootCursors
    /\ fmt = <<>> /\ args = <<>> /\ field = <<>> /\ func = "none" /\ str = <<>>
    /\ asked = <<>> /\ calls = 0

Next == kprintf \/ sprintf \/ echo \/ conversion \/ put_field \/ return_from_call

Spec == Init /\ [][Next]_vars

-----------------------------------------------------------------------------
(* Properties *)

Sound(it) == ~(it.left /\ it.zero)

\* What an item should print, from the meaning of a conversion in C.
Meant(it) ==
    LET signed_  == it.conv \in {"d", "D"}
        n        == IF signed_ THEN signed(it.num) ELSE it.num
        numeric  == it.conv \notin {"c", "s"}
        body     == CASE it.conv = "c" -> it.chars
                      [] it.conv = "s" -> IF it.max \in 1..MAXSTR /\ it.max < Len(it.chars)
                                          THEN SubSeq(it.chars, 1, it.max) ELSE it.chars
                      [] it.conv \in {"o", "O"} -> Numeral(n, 8)
                      [] it.conv \in {"x", "X"} -> Numeral(n, 16)
                      [] OTHER -> Numeral(IF n < 0 THEN -n ELSE n, 10)
        minus    == Flag(numeric /\ n < 0, "-")
        missing  == (IF it.min \in 1..MAXSTR THEN it.min ELSE 0) - Len(minus \o body)
    IN  CASE it.conv = "lit" -> it.chars
          [] it.conv \in {"%", "end"} -> <<"%">>
          [] OTHER -> IF it.left THEN minus \o body \o Copies(BLANK, missing)
                      ELSE IF it.zero /\ numeric THEN minus \o Copies("0", missing) \o body
                      ELSE Copies(BLANK, missing) \o minus \o body

\* _doprnt prints what its format asks for: every conversion of every argument
\* (the smallest and the largest words, which doprnt.c reaches by the digit1
\* trick, included) in its field, and each conversion with its own argument,
\* whatever widths were taken from the arguments before it.
PrintsWhatIsMeant ==
    (func = "none" /\ \A i \in DOMAIN asked : Sound(asked[i])) => str = ConcatAll(Meant, asked)

=============================================================================
