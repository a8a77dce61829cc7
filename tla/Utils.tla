------------------------------- MODULE Utils -------------------------------
(***************************************************************************)
(* Texts (utils.cpp): split(), escape() and unescape().                    *)
(*                                                                         *)
(* A text is a sequence of tokens.  A delimiter is a token; so is a run of *)
(* letters, digits, '-', '.', '_' and '~' that no step looks into.         *)
(***************************************************************************)
EXTENDS Integers, Sequences, FiniteSets

\* The first position of token c in s from position i on, 0 if there is none.
Position(s, c, i) ==
    LET found == {j \in i..Len(s) : s[j] = c} IN
    IF found = {} THEN 0 ELSE CHOOSE j \in found : \A k \in found : j <= k

(* split(): the columns between the separators.  An empty text has one     *)
(* empty column, and so has the end of a text after a last separator.      *)
Separators(s, sep) == {i \in 1..Len(s) : s[i] = sep}

\* The end of the column that begins at a position.
ColumnEnd(s, sep, begin) ==
    LET found == Position(s, sep, begin) IN IF found = 0 THEN Len(s) + 1 ELSE found

ColumnEnds(s, sep) ==
    LET end[k \in 0..Cardinality(Separators(s, sep)) + 1] ==
            IF k = 0 THEN 0 ELSE ColumnEnd(s, sep, end[k - 1] + 1)
    IN  end

Split(s, sep) ==
    LET end == ColumnEnds(s, sep) IN
    [k \in 1..Cardinality(Separators(s, sep)) + 1 |-> SubSeq(s, end[k - 1] + 1, end[k] - 1)]

----------------------------------------------------------------------------
(* Percent encoding.  Characters with a meaning in a URL, and their codes; *)
(* of the others two letters, which the digits of a code may be as well.   *)
Codes == {<<" ", 32>>, <<"%", 37>>, <<"&", 38>>, <<"+", 43>>, <<"/", 47>>,
          <<":", 58>>, <<"=", 61>>, <<"?", 63>>, <<"A", 65>>, <<"a", 97>>}

Unsafe == {" ", "%", "&", "+", "/", ":", "=", "?"}

Code(c) == (CHOOSE p \in Codes : p[1] = c)[2]

\* A character that is none of them is not looked at.
Char(code) ==
    IF \E p \in Codes : p[2] = code THEN (CHOOSE p \in Codes : p[2] = code)[1] ELSE "other"

UpperDigits == <<"0", "1", "2", "3", "4", "5", "6", "7",
                 "8", "9", "A", "B", "C", "D", "E", "F">>
LowerDigits == <<"0", "1", "2", "3", "4", "5", "6", "7",
                 "8", "9", "a", "b", "c", "d", "e", "f">>

IsDigit(d) == \E n \in 1..16 : d \in {UpperDigits[n], LowerDigits[n]}
Digit(d) == CHOOSE n \in 0..15 : d \in {UpperDigits[n + 1], LowerDigits[n + 1]}

Coded(c) ==
    IF c \in Unsafe THEN <<"%", UpperDigits[(Code(c) \div 16) + 1], UpperDigits[(Code(c) % 16) + 1]>>
    ELSE <<c>>

Escape(s) ==
    LET escaped[k \in 0..Len(s)] ==
            IF k = 0 THEN <<>> ELSE escaped[k - 1] \o Coded(s[k])
    IN  escaped[Len(s)]

Spaces(s) == [i \in 1..Len(s) |-> IF s[i] = "+" THEN " " ELSE s[i]]

\* '%' and two digits from position i on
Escaped(s, i) ==
    i + 2 <= Len(s) /\ s[i] = "%" /\ IsDigit(s[i + 1]) /\ IsDigit(s[i + 2])

\* One step of the loop: r.text is what has been read before position r.next.
Read(s, r) ==
    IF r.next > Len(s) THEN r
    ELSE IF Escaped(s, r.next)
    THEN [next |-> r.next + 3,
          text |-> Append(r.text, Char(16 * Digit(s[r.next + 1]) + Digit(s[r.next + 2])))]
    ELSE [next |-> r.next + 1, text |-> Append(r.text, s[r.next])]

Decode(s) ==
    LET read[k \in 0..Len(s)] ==
            IF k = 0 THEN [next |-> 1, text |-> <<>>] ELSE Read(s, read[k - 1])
    IN  read[Len(s)].text

\* Mutant: '+' is replaced last.
UnescapeSpacesLast(s) == Spaces(Decode(s))

\* unescape(): '+' is a space, before anything is decoded.
Unescape(s) == Decode(Spaces(s))
=============================================================================
