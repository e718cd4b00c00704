--------------------------- MODULE MCKeyIdOutput ---------------------------
(* An instance of KeyIdOutput for TLC: every short document, every document  *)
(* one edit away from an object with both fields, every short text of a      *)
(* key_id field, and every --key-id of bytes around the limits of UTF-8.     *)
EXTENDS KeyIdOutput

String(raw) == [kind |-> "string", raw |-> raw, closed |-> TRUE]
Unclosed(raw) == [kind |-> "string", raw |-> raw, closed |-> FALSE]

Texts == {KEY, KEY_ID, <<97>>, <<Space>>}

\* One text with an escape no table has, one too long for a name and for a
\* key_id, one too long for anything.
Broken == String(<<Backslash, 117>>)
Long == String([i \in 1 .. 8 |-> 97])
TooLong == String([i \in 1 .. 12 |-> 97])

Lexemes == {Mark(m) : m \in DOMAIN MarkByte} \cup {String(t) : t \in Texts}
           \cup {Broken, Long, TooLong}

Object(a, b) == <<Mark("{"), String(KEY), Mark(":"), a, Mark(","),
                  String(KEY_ID), Mark(":"), b, Mark("}")>>
Swapped(a, b) == <<Mark("{"), String(KEY_ID), Mark(":"), b, Mark(","),
                   String(KEY), Mark(":"), a, Mark("}")>>
Single(a) == <<Mark("{"), String(KEY), Mark(":"), a, Mark("}")>>

Whole == {Object(String(a), String(b)) : a, b \in {<<97>>, <<Space>>}}
         \cup {Swapped(String(KEY), String(<<97>>)), Single(String(<<97>>))}

EditsOf(d) == {d} \cup {RemoveAt(d, i) : i \in 1 .. Len(d)}
              \cup {ReplaceAt(d, i, x) : i \in 1 .. Len(d), x \in Lexemes}
              \cup {InsertAt(d, i, x) : i \in 1 .. Len(d) + 1, x \in Lexemes}

\* Raw texts of up to four bytes: escapes, control bytes, blanks, more bytes
\* than the buffer takes.
RawTexts == {r \in BoundedSeq({Backslash, Quote, 110, 117, Space, LF, 97, 195, 169}, 4) : Delimited(r, TRUE)}

Documents == BoundedSeq(Lexemes, 4) \cup UNION {EditsOf(d) : d \in Whole}
Spelled ==
    {Object(String(<<97>>), String(r)) : r \in RawTexts}
    \cup {Append(SubSeq(Object(String(<<97>>), Mark("other")), 1, 7), Unclosed(r)) :
            r \in {<<>>, <<97>>, <<Backslash>>, <<97, Backslash>>}}
    \cup {<<Mark("{"), String(r), Mark(":"), Long, Mark("}")>> :
            r \in {KEY \o <<Backslash, Quote>>, <<Backslash, Slash>> \o KEY,
                   SubSeq(KEY, 1, 2) \o <<121, 1>>}}

\* The bytes at which the ranges of is_valid_utf8_sequence begin and end.
Limits == {1, 127, 128, 143, 144, 159, 160, 191, 192, 193, 194, 223, 224, 225,
           237, 238, 239, 240, 243, 244, 245}
Wide == {<<a, b, c, d>> : a \in {239, 240, 241, 244, 245}, b \in {127, 128, 143, 144, 191, 192},
                          c \in {127, 128, 191, 192}, d \in {127, 128, 191, 192}}
Marked == {Quote, Backslash, HT, LF, VT, CR, 31, Slash, 127, 110}
Options == BoundedSeq(Limits, 3) \cup Wide \cup BoundedSeq(Marked, 3)

Plain == <<Mark("other")>>
Call(d, f, o, m) == [doc |-> d, format |-> f, option |-> o, mode |-> m]
MCInputs == {{Call(d, f, Unset, "json") : d \in Documents, f \in Formats},
             {Call(d, "auto", Unset, "json") : d \in Spelled},
             {Call(Plain, "auto", o, "json") : o \in Options},
             {Call(d, "auto", o, m) : d \in Whole \cup {Plain}, m \in {"text", "json"},
                                      o \in {Unset, <<>>, <<98>>, <<192>>}}}

MCSealed == <<65>>
=============================================================================
