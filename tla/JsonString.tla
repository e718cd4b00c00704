----------------------------- MODULE JsonString -----------------------------
(***************************************************************************)
(* Strings as the CLI reads and writes them, byte by byte: the string      *)
(* tokens of a JSON key object (src/cli/parse.c) and the strings of the    *)
(* JSON output (src/cli/output.c), with what RFC 8259 says of both.        *)
(*                                                                         *)
(* A raw string is what stands between the quotes.                         *)
(***************************************************************************)
EXTENDS Integers, SequencesExt

CONSTANT Unset   \* no string: a token refused, a field not read

\* A string of C: no byte of it is the terminator.
Byte == 1 .. 255

HT == 9
LF == 10
VT == 11
FF == 12
CR == 13
Space == 32
Quote == 34
Slash == 47
Backslash == 92

Blanks == {HT, LF, VT, FF, CR, Space}

\* salt_cli_trim_whitespace_inplace.
Trim(s) ==
    LET solid == {i \in 1 .. Len(s) : s[i] \notin Blanks}
    IN IF solid = {} THEN <<>>
       ELSE SubSeq(s, CHOOSE i \in solid : \A j \in solid : i <= j,
                      CHOOSE i \in solid : \A j \in solid : i >= j)

-----------------------------------------------------------------------------
(* Reading.                                                                  *)

\* ESCAPE_TABLE: n, r, t, quote, backslash, slash.
Escape == [c \in {110, 114, 116, Quote, Backslash, Slash} |->
              CASE c = 110 -> LF [] c = 114 -> CR [] c = 116 -> HT [] OTHER -> c]

\* A fault to detect: the room for the terminator is left out of the count.
TokenTurnFilling(t, c, size) ==
    LET room == Len(t.out) < size
        store(b, fits) == [t EXCEPT !.out = Append(@, b), !.escaping = FALSE, !.ok = fits]
    IN IF ~t.ok THEN t
       ELSE IF t.escaping
            THEN IF c \in DOMAIN Escape THEN store(Escape[c], room) ELSE [t EXCEPT !.ok = FALSE]
       ELSE IF c = Backslash THEN [t EXCEPT !.escaping = TRUE]
       ELSE store(c, c >= Space /\ room)

\* One byte through the loop of json_parse_string_token.
TokenTurn(t, c, size) ==
    LET room == Len(t.out) + 1 < size
        store(b, fits) == [t EXCEPT !.out = Append(@, b), !.escaping = FALSE, !.ok = fits]
    IN IF ~t.ok THEN t
       ELSE IF t.escaping
            THEN IF c \in DOMAIN Escape THEN store(Escape[c], room) ELSE [t EXCEPT !.ok = FALSE]
       ELSE IF c = Backslash THEN [t EXCEPT !.escaping = TRUE]
       ELSE store(c, c >= Space /\ room)

\* The loop after each number of bytes.
TokenTurns(raw, size) ==
    LET token[k \in 0 .. Len(raw)] ==
            IF k = 0 THEN [out |-> <<>>, escaping |-> FALSE, ok |-> TRUE]
            ELSE TokenTurn(token[k - 1], raw[k], size)
    IN token

\* json_parse_string_token into a buffer of size bytes: what it stores, or
\* Unset.  A string that is not closed ends at the NUL of the document.
StringToken(raw, closed, size) ==
    LET last == TokenTurns(raw, size)[Len(raw)]
    IN IF last.ok /\ ~last.escaping /\ closed THEN last.out ELSE Unset

-----------------------------------------------------------------------------
(* Writing: the stdio calls write_json_string makes, each with its bytes.    *)

HexDigit(d) == IF d < 10 THEN 48 + d ELSE 87 + d

\* A fault to detect: only the control bytes with an escape of their own.
CallsForCommon(c) ==
    CASE c \in {Quote, Backslash} -> << <<Backslash>>, <<c>> >>
      [] c = LF -> << <<Backslash, 110>> >>
      [] c = CR -> << <<Backslash, 114>> >>
      [] c = HT -> << <<Backslash, 116>> >>
      [] OTHER -> << <<c>> >>

\* One byte of the value; the last escape is printf's "\u%04x".
CallsFor(c) ==
    CASE c \in {Quote, Backslash} -> << <<Backslash>>, <<c>> >>
      [] c = LF -> << <<Backslash, 110>> >>
      [] c = CR -> << <<Backslash, 114>> >>
      [] c = HT -> << <<Backslash, 116>> >>
      [] c < Space /\ c \notin {LF, CR, HT} ->
            << <<Backslash, 117, 48, 48, HexDigit(c \div 16), HexDigit(c % 16)>> >>
      [] OTHER -> << <<c>> >>

\* write_json_string.
JsonStringCalls(value) ==
    << <<Quote>> >> \o FlattenSeq([i \in 1 .. Len(value) |-> CallsFor(value[i])])
    \o << <<Quote>> >>

-----------------------------------------------------------------------------
(* RFC 8259, section 7, stated without a cursor.                             *)

\* The backslashes that begin an escape: an even number stands before them.
Escapes(raw) ==
    {i \in 1 .. Len(raw) : /\ raw[i] = Backslash
                           /\ \E k \in 0 .. i - 1 :
                                 /\ k % 2 = 0
                                 /\ \A j \in i - k .. i - 1 : raw[j] = Backslash
                                 /\ i - k > 1 => raw[i - k - 1] # Backslash}

\* The bytes behind a backslash that belong to its escape.
Covered(raw) ==
    UNION {IF i < Len(raw) /\ raw[i + 1] = 117 THEN i + 1 .. i + 5 ELSE {i + 1} : i \in Escapes(raw)}

HexValue(c) == IF c >= 97 THEN c - 87 ELSE IF c >= 65 THEN c - 55 ELSE c - 48

\* What one escape stands for; \b and \f are escapes of the RFC too.
EscapeValue(raw, i) ==
    LET c == raw[i + 1]
    IN CASE c = 110 -> LF [] c = 114 -> CR [] c = 116 -> HT [] c = 98 -> 8 [] c = 102 -> FF
         [] c = 117 -> 16 * HexValue(raw[i + 4]) + HexValue(raw[i + 5])
         [] OTHER -> c

\* The text a raw string stands for, one byte per unit that is not covered.
Meaning(raw) ==
    LET covered == Covered(raw)
        unit(i) == IF i \in Escapes(raw) THEN EscapeValue(raw, i) ELSE raw[i]
        text[i \in 0 .. Len(raw)] ==
            IF i = 0 THEN <<>>
            ELSE IF i \in covered THEN text[i - 1] ELSE Append(text[i - 1], unit(i))
    IN text[Len(raw)]

\* No quote inside, and none of the closing ones escaped.
Delimited(raw, closed) ==
    /\ \A i \in 1 .. Len(raw) : raw[i] = Quote => i \in Covered(raw)
    /\ closed => Len(raw) \notin Escapes(raw)

NoControl(raw) == \A i \in 1 .. Len(raw) : raw[i] >= Space

\* What a key object may contain of it: the escapes of one letter the table
\* has, and room for the text and its terminator.
Readable(raw, closed, size) ==
    /\ closed /\ NoControl(raw) /\ Delimited(raw, closed)
    /\ \A i \in Escapes(raw) : raw[i + 1] \in {110, 114, 116, Quote, Backslash, Slash}
    /\ Len(Meaning(raw)) < size
=============================================================================
