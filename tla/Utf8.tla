-------------------------------- MODULE Utf8 --------------------------------
(***************************************************************************)
(* src/cli/output.c: is_valid_utf8_sequence and is_valid_utf8, which look  *)
(* at ranges of bytes, and RFC 3629, which speaks of code points.          *)
(***************************************************************************)
EXTENDS Integers, Sequences

In(b, first, last) == b \in first .. last

\* A fault to detect: surrogates pass.
SequenceLenSurrogates(s, i) ==
    LET remaining == Len(s) - i + 1
        b == s[i]
        tail(n) == remaining >= n /\ \A k \in 1 .. n - 1 : In(s[i + k], 128, 191)
    IN CASE b <= 127 -> 1
         [] In(b, 194, 223) /\ tail(2) -> 2
         [] In(b, 224, 239) /\ tail(3) /\ (b = 224 => In(s[i + 1], 160, 191)) -> 3
         [] In(b, 240, 244) /\ tail(4)
            /\ (b = 240 => In(s[i + 1], 144, 191)) /\ (b = 244 => In(s[i + 1], 128, 143)) -> 4
         [] OTHER -> 0

\* is_valid_utf8_sequence: the bytes of the sequence that begins at i, zero
\* if none does.
SequenceLen(s, i) ==
    LET remaining == Len(s) - i + 1
        b == s[i]
        tail(n) == remaining >= n /\ \A k \in 1 .. n - 1 : In(s[i + k], 128, 191)
    IN CASE b <= 127 -> 1
         [] In(b, 194, 223) /\ tail(2) -> 2
         [] In(b, 224, 239) /\ tail(3)
            /\ (b = 224 => In(s[i + 1], 160, 191)) /\ (b = 237 => In(s[i + 1], 128, 159)) -> 3
         [] In(b, 240, 244) /\ tail(4)
            /\ (b = 240 => In(s[i + 1], 144, 191)) /\ (b = 244 => In(s[i + 1], 128, 143)) -> 4
         [] OTHER -> 0

\* is_valid_utf8, from byte i on.
ValidUtf8(s) ==
    LET valid[i \in 1 .. Len(s) + 1] ==
            \/ i = Len(s) + 1
            \/ SequenceLen(s, i) # 0 /\ valid[i + SequenceLen(s, i)]
    IN valid[1]

-----------------------------------------------------------------------------
(* RFC 3629: a sequence of n bytes is a marked lead byte and continuation    *)
(* bytes of six bits each; it must hold a scalar value in the fewest bytes.  *)

Continues(s, i, n) == i + n - 1 <= Len(s) /\ \A k \in 1 .. n - 1 : s[i + k] \div 64 = 2

\* The code point n bytes at i hold, -1 if they are not marked as n bytes.
CodePoint(s, i, n) ==
    CASE n = 1 /\ s[i] \div 128 = 0 -> s[i]
      [] n = 2 /\ s[i] \div 32 = 6 /\ Continues(s, i, 2) -> (s[i] - 192) * 64 + (s[i + 1] - 128)
      [] n = 3 /\ s[i] \div 16 = 14 /\ Continues(s, i, 3) ->
            (s[i] - 224) * 4096 + (s[i + 1] - 128) * 64 + (s[i + 2] - 128)
      [] n = 4 /\ s[i] \div 8 = 30 /\ Continues(s, i, 4) ->
            (s[i] - 240) * 262144 + (s[i + 1] - 128) * 4096 + (s[i + 2] - 128) * 64
            + (s[i + 3] - 128)
      [] OTHER -> -1

\* Unicode scalar values: no surrogates, nothing behind U+10FFFF.
LastCodePoint == 1114111
Scalar(c) == c \in 0 .. LastCodePoint /\ c \notin 55296 .. 57343

\* The fewest bytes a code point needs.
Shortest(c) == IF c < 128 THEN 1 ELSE IF c < 2048 THEN 2 ELSE IF c < 65536 THEN 3 ELSE 4

Encodes(s, i, n) ==
    LET c == CodePoint(s, i, n) IN Scalar(c) /\ Shortest(c) = n

\* A text is a sequence of encoded characters, however it is cut up.
WellFormed(s) ==
    LET formed[i \in 1 .. Len(s) + 1] ==
            i = Len(s) + 1 \/ \E n \in 1 .. 4 : Encodes(s, i, n) /\ formed[i + n]
    IN formed[1]
=============================================================================
