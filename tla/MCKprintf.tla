------------------------------- MODULE MCKprintf -------------------------------
EXTENDS Kprintf

\* Words at the ends of the signed and the unsigned ranges and of the digits.
MCWords == {0, 9, 10, 29999, 32767, 32768, 32769, 42767, 42768, 65526, 65535}

MCFields ==
    {[Item(c, w, <<>>) EXCEPT !.left = lz[1], !.zero = lz[2], !.min = m, !.minstar = s] :
        c \in {"d", "u", "o", "x"}, w \in MCWords, m \in {0, 3, 6, 10},
        lz \in {<<FALSE, FALSE>>, <<TRUE, FALSE>>, <<FALSE, TRUE>>}, s \in BOOLEAN}
    \cup {[Item(c, w, <<>>) EXCEPT !.l = TRUE, !.min = -2, !.minstar = TRUE, !.max = 2] :
        c \in {"D", "U", "O", "X"}, w \in MCWords}

MCStrings ==
    {[Item("s", 0, s) EXCEPT !.left = l, !.zero = z, !.min = m, !.minstar = ms, !.max = x, !.maxstar = xs] :
        s \in {<<>>, <<"p", "q", "r">>}, l, z, ms, xs \in BOOLEAN, m \in {0, 4}, x \in {0, 2, 10}}
    \cup {[Item("c", 0, c) EXCEPT !.left = l, !.min = m] :
        c \in {<<>>, <<"c">>, <<BACKSPACE>>}, l \in BOOLEAN, m \in {0, 2}}

\* A conversion and one after it, whose argument must still be found.
MCConversions ==
    {<<it>> : it \in MCFields} \cup {<<it, Item("%", 0, <<>>), Item("x", 7, <<>>)>> : it \in MCStrings}
    \cup {<<Item("d", 1, <<>>), [Item("end", 0, <<>>) EXCEPT !.min = m, !.minstar = s]>> :
            m \in {0, 4}, s \in BOOLEAN}

\* Texts without conversions, for the console.
MCCharacters == {"a", "b", TABULATOR, BACKSPACE, NEWLINE, RETURN}
Lit(c) == Item("lit", 0, <<c>>)
MCPlain == {<<Lit(c), Lit(d), Lit(e), Lit("a")>> :
              c, d, e \in MCCharacters}

MCTexts == MCConversions \cup MCPlain
=============================================================================
