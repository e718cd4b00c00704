-------------------------- MODULE KeyIdOutputProofs --------------------------
(***************************************************************************)
(* Proofs about a key document and the key_id it names, on their way from  *)
(* the bytes of the input to the line of the output, for documents, texts  *)
(* and buffers of any length.                                              *)
(***************************************************************************)
EXTENDS KeyIdOutput, Induction, SequenceTheorems

-----------------------------------------------------------------------------
(* UTF-8.                                                                    *)

\* A byte of a text is one.
LEMMA ByteAt == ASSUME NEW s \in Seq(Byte), NEW i \in 1 .. Len(s) PROVE s[i] \in 1 .. 255
<1>1. s[i] \in Byte
  OBVIOUS
<1> QED
  BY <1>1 DEF Byte

\* The bits that mark a continuation byte.
LEMMA MarkOfTwoBits == \A b \in 1 .. 255 : b \div 64 = 2 <=> In(b, 128, 191)
BY DEF In

\* Ranges of continuation bytes are marks of two bits.
LEMMA ContinuationBytes ==
    ASSUME NEW s \in Seq(Byte), NEW i \in 1 .. Len(s), NEW n \in 1 .. 4
    PROVE  Continues(s, i, n) <=> /\ Len(s) - i + 1 >= n
                                  /\ \A k \in 1 .. n - 1 : In(s[i + k], 128, 191)
<1>1. ASSUME i + n - 1 <= Len(s), NEW k \in 1 .. n - 1
      PROVE  s[i + k] \div 64 = 2 <=> In(s[i + k], 128, 191)
  <2>1. i + k \in 1 .. Len(s)
    BY <1>1
  <2> QED
    BY <2>1, ByteAt, MarkOfTwoBits
<1>2. i + n - 1 <= Len(s) <=> Len(s) - i + 1 >= n
  OBVIOUS
<1> QED
  BY <1>1, <1>2 DEF Continues

\* The continuation bytes of a sequence.
LEMMA FollowingBytes ==
    ASSUME NEW s \in Seq(Byte), NEW i \in 1 .. Len(s)
    PROVE  /\ Continues(s, i, 2) => s[i + 1] \in 128 .. 191
           /\ Continues(s, i, 3) => s[i + 1] \in 128 .. 191 /\ s[i + 2] \in 128 .. 191
           /\ Continues(s, i, 4) => /\ s[i + 1] \in 128 .. 191 /\ s[i + 2] \in 128 .. 191
                                    /\ s[i + 3] \in 128 .. 191
<1>1. 2 \in 1 .. 4 /\ 3 \in 1 .. 4 /\ 4 \in 1 .. 4
  OBVIOUS
<1>2. 1 \in 1 .. 2 - 1 /\ 1 \in 1 .. 3 - 1 /\ 2 \in 1 .. 3 - 1
      /\ 1 \in 1 .. 4 - 1 /\ 2 \in 1 .. 4 - 1 /\ 3 \in 1 .. 4 - 1
  OBVIOUS
<1> QED
  BY <1>1, <1>2, ContinuationBytes DEF In

\* What a code point that is no sequence of n bytes is.
LEMMA NoCodePoint == ASSUME NEW c, c = -1 PROVE ~Scalar(c)
<1>1. LastCodePoint \in Int
  BY DEF LastCodePoint
<1> QED
  BY <1>1 DEF Scalar

\* The code point of n bytes decides.
LEMMA EncodesAt ==
    ASSUME NEW s, NEW i, NEW n, NEW c, CodePoint(s, i, n) = c
    PROVE  Encodes(s, i, n) <=> Scalar(c) /\ Shortest(c) = n
BY DEF Encodes

\* Code points by their bounds.
LEMMA Bounds ==
    ASSUME NEW c \in Int
    PROVE  /\ Scalar(c) <=> 0 <= c /\ c <= 1114111 /\ (c < 55296 \/ c > 57343)
           /\ Shortest(c) = 1 <=> c < 128
           /\ Shortest(c) = 2 <=> 128 <= c /\ c < 2048
           /\ Shortest(c) = 3 <=> 2048 <= c /\ c < 65536
           /\ Shortest(c) = 4 <=> 65536 <= c
<1>1. Scalar(c) <=> 0 <= c /\ c <= 1114111 /\ (c < 55296 \/ c > 57343)
  <2>1. LastCodePoint \in Int
    BY DEF LastCodePoint
  <2>2. Scalar(c) <=> 0 <= c /\ c <= LastCodePoint /\ (c < 55296 \/ c > 57343)
    BY <2>1 DEF Scalar
  <2> QED
    BY <2>2 DEF LastCodePoint
<1>2. Shortest(c) \in {1, 2, 3, 4}
  BY SMT DEF Shortest
<1>3. Shortest(c) = 1 <=> c < 128
  BY SMT DEF Shortest
<1>4. Shortest(c) = 2 <=> 128 <= c /\ c < 2048
  BY SMT DEF Shortest
<1>5. Shortest(c) = 3 <=> 2048 <= c /\ c < 65536
  BY SMT DEF Shortest
<1>6. Shortest(c) = 4 <=> 65536 <= c
  BY SMT DEF Shortest
<1> QED
  BY <1>1, <1>3, <1>4, <1>5, <1>6

\* One byte.
LEMMA OneByte ==
    ASSUME NEW s \in Seq(Byte), NEW i \in 1 .. Len(s)
    PROVE  Encodes(s, i, 1) <=> s[i] <= 127
<1>1. PICK b \in 1 .. 255 : b = s[i]
  BY ByteAt
<1>2. b \div 128 = 0 <=> b <= 127
  OBVIOUS
<1>3. CASE b <= 127
  <2>1. CodePoint(s, i, 1) = b
    BY <1>1, <1>2, <1>3, SMT DEF CodePoint
  <2>2. Encodes(s, i, 1) <=> Scalar(b) /\ Shortest(b) = 1
    BY <2>1, EncodesAt
  <2>3. Scalar(b) /\ Shortest(b) = 1
    BY <1>3, Bounds, SMT
  <2> QED
    BY <1>1, <1>3, <2>2, <2>3
<1>4. CASE b > 127
  <2>0. ~(s[i] \div 128 = 0)
    BY <1>1, <1>2, <1>4
  <2>1. CodePoint(s, i, 1) = -1
    BY <2>0, SMT DEF CodePoint
  <2>2. ~Encodes(s, i, 1)
    BY <2>1, NoCodePoint DEF Encodes
  <2> QED
    BY <1>1, <1>4, <2>2, SMT
<1> QED
  BY <1>3, <1>4

\* Two bytes.
LEMMA TwoBytes ==
    ASSUME NEW s \in Seq(Byte), NEW i \in 1 .. Len(s)
    PROVE  Encodes(s, i, 2) <=> In(s[i], 194, 223) /\ Continues(s, i, 2)
<1>1. PICK b \in 1 .. 255 : b = s[i]
  BY ByteAt
<1>2. b \div 32 = 6 <=> b \in 192 .. 223
  OBVIOUS
<1>3. CASE b \in 192 .. 223 /\ Continues(s, i, 2)
  <2>1. PICK b1 \in 128 .. 191 : b1 = s[i + 1]
    BY <1>3, FollowingBytes
  <2>2. CodePoint(s, i, 2) = (b - 192) * 64 + (b1 - 128)
    BY <1>1, <1>2, <1>3, <2>1, SMT DEF CodePoint
  <2>3. PICK c \in Int : c = (b - 192) * 64 + (b1 - 128)
    OBVIOUS
  <2>4. 128 <= c /\ c < 2048 <=> b >= 194
    BY <1>3, <2>3
  <2>5. Encodes(s, i, 2) <=> Scalar(c) /\ Shortest(c) = 2
    BY <2>2, <2>3, EncodesAt
  <2>6. Encodes(s, i, 2) <=> b >= 194
    BY <2>4, <2>5, Bounds
  <2>7. In(b, 194, 223) <=> b >= 194
    BY <1>3 DEF In
  <2> QED
    BY <1>1, <1>3, <2>6, <2>7
<1>4. CASE ~(b \in 192 .. 223 /\ Continues(s, i, 2))
  <2>1. CodePoint(s, i, 2) = -1
    BY <1>1, <1>2, <1>4, SMT DEF CodePoint
  <2>2. ~Encodes(s, i, 2)
    BY <2>1, NoCodePoint DEF Encodes
  <2> QED
    BY <1>1, <1>4, <2>2, SMT DEF In
<1> QED
  BY <1>3, <1>4

\* Three bytes: not too long for what they say, and no surrogate.
LEMMA ThreeBytes ==
    ASSUME NEW s \in Seq(Byte), NEW i \in 1 .. Len(s)
    PROVE  Encodes(s, i, 3) <=> /\ In(s[i], 224, 239) /\ Continues(s, i, 3)
                                /\ s[i] = 224 => In(s[i + 1], 160, 191)
                                /\ s[i] = 237 => In(s[i + 1], 128, 159)
<1>1. PICK b \in 1 .. 255 : b = s[i]
  BY ByteAt
<1>2. b \div 16 = 14 <=> b \in 224 .. 239
  OBVIOUS
<1>3. CASE b \in 224 .. 239 /\ Continues(s, i, 3)
  <2>1. PICK b1 \in 128 .. 191, b2 \in 128 .. 191 : b1 = s[i + 1] /\ b2 = s[i + 2]
    BY <1>3, FollowingBytes
  <2>2. CodePoint(s, i, 3) = (b - 224) * 4096 + (b1 - 128) * 64 + (b2 - 128)
    BY <1>1, <1>2, <1>3, <2>1, SMT DEF CodePoint
  <2>3. PICK c \in Int : c = (b - 224) * 4096 + (b1 - 128) * 64 + (b2 - 128)
    OBVIOUS
  <2>4. /\ 2048 <= c <=> (b = 224 => b1 >= 160)
        /\ c < 55296 \/ c > 57343 <=> (b = 237 => b1 < 160)
        /\ 0 <= c /\ c < 65536
    BY <1>3, <2>3
  <2>5. Encodes(s, i, 3) <=> Scalar(c) /\ Shortest(c) = 3
    BY <2>2, <2>3, EncodesAt
  <2>6. Encodes(s, i, 3) <=> (b = 224 => b1 >= 160) /\ (b = 237 => b1 < 160)
    BY <2>4, <2>5, Bounds
  <2>7. In(b1, 160, 191) <=> b1 >= 160
    BY DEF In
  <2>8. In(b1, 128, 159) <=> b1 < 160
    BY DEF In
  <2>9. In(b, 224, 239)
    BY <1>3 DEF In
  <2> QED
    BY <1>1, <1>3, <2>1, <2>6, <2>7, <2>8, <2>9
<1>4. CASE ~(b \in 224 .. 239 /\ Continues(s, i, 3))
  <2>1. CodePoint(s, i, 3) = -1
    BY <1>1, <1>2, <1>4, SMT DEF CodePoint
  <2>2. ~Encodes(s, i, 3)
    BY <2>1, NoCodePoint DEF Encodes
  <2> QED
    BY <1>1, <1>4, <2>2, SMT DEF In
<1> QED
  BY <1>3, <1>4

\* Four bytes: not too long, and nothing behind U+10FFFF.
LEMMA FourBytes ==
    ASSUME NEW s \in Seq(Byte), NEW i \in 1 .. Len(s)
    PROVE  Encodes(s, i, 4) <=> /\ In(s[i], 240, 244) /\ Continues(s, i, 4)
                                /\ s[i] = 240 => In(s[i + 1], 144, 191)
                                /\ s[i] = 244 => In(s[i + 1], 128, 143)
<1>1. PICK b \in 1 .. 255 : b = s[i]
  BY ByteAt
<1>2. b \div 8 = 30 <=> b \in 240 .. 247
  OBVIOUS
<1>3. CASE b \in 240 .. 247 /\ Continues(s, i, 4)
  <2>0. s[i + 1] \in 128 .. 191 /\ s[i + 2] \in 128 .. 191 /\ s[i + 3] \in 128 .. 191
    BY <1>3, FollowingBytes
  <2>1. PICK b1 \in 128 .. 191, b2 \in 128 .. 191, b3 \in 128 .. 191 :
           b1 = s[i + 1] /\ b2 = s[i + 2] /\ b3 = s[i + 3]
    BY <2>0
  <2>2. CodePoint(s, i, 4) = (b - 240) * 262144 + (b1 - 128) * 4096 + (b2 - 128) * 64 + (b3 - 128)
    BY <1>1, <1>2, <1>3, <2>1, SMTT(30) DEF CodePoint
  <2>3. PICK c \in Int :
           c = (b - 240) * 262144 + (b1 - 128) * 4096 + (b2 - 128) * 64 + (b3 - 128)
    OBVIOUS
  <2>4. /\ 65536 <= c <=> (b = 240 => b1 >= 144)
        /\ c <= 1114111 <=> (b <= 244 /\ (b = 244 => b1 < 144))
        /\ 0 <= c /\ (65536 <= c => c > 57343)
    BY <1>3, <2>3
  <2>5. Encodes(s, i, 4) <=> Scalar(c) /\ Shortest(c) = 4
    BY <2>2, <2>3, EncodesAt
  <2>6. Encodes(s, i, 4) <=> b <= 244 /\ (b = 240 => b1 >= 144) /\ (b = 244 => b1 < 144)
    BY <2>4, <2>5, Bounds
  <2>7. In(b1, 144, 191) <=> b1 >= 144
    BY DEF In
  <2>8. In(b1, 128, 143) <=> b1 < 144
    BY DEF In
  <2>9. In(b, 240, 244) <=> b <= 244
    BY <1>3 DEF In
  <2> QED
    BY <1>1, <1>3, <2>1, <2>6, <2>7, <2>8, <2>9
<1>4. CASE ~(b \in 240 .. 247 /\ Continues(s, i, 4))
  <2>1. CodePoint(s, i, 4) = -1
    BY <1>1, <1>2, <1>4, SMT DEF CodePoint
  <2>2. ~Encodes(s, i, 4)
    BY <2>1, NoCodePoint DEF Encodes
  <2> QED
    BY <1>1, <1>4, <2>2, SMT DEF In
<1> QED
  BY <1>3, <1>4

\* The ranges of bytes that is_valid_utf8_sequence looks at are the encodings
\* of RFC 3629: it finds a sequence of n bytes exactly where n bytes encode a
\* code point.
LEMMA LenIsEncoded ==
    ASSUME NEW s \in Seq(Byte), NEW i \in 1 .. Len(s)
    PROVE  /\ SequenceLen(s, i) \in 0 .. 4
           /\ \A n \in 1 .. 4 : SequenceLen(s, i) = n <=> Encodes(s, i, n)
<1>1. PICK b \in 1 .. 255 : b = s[i]
  BY ByteAt
<1> DEFINE tail(n) == Len(s) - i + 1 >= n /\ \A k \in 1 .. n - 1 : In(s[i + k], 128, 191)
<1>2. /\ tail(2) <=> Continues(s, i, 2)
      /\ tail(3) <=> Continues(s, i, 3)
      /\ tail(4) <=> Continues(s, i, 4)
  BY ContinuationBytes
<1> DEFINE two == In(b, 194, 223) /\ tail(2)
           three == /\ In(b, 224, 239) /\ tail(3)
                    /\ b = 224 => In(s[i + 1], 160, 191)
                    /\ b = 237 => In(s[i + 1], 128, 159)
           four == /\ In(b, 240, 244) /\ tail(4)
                   /\ b = 240 => In(s[i + 1], 144, 191)
                   /\ b = 244 => In(s[i + 1], 128, 143)
<1>3. SequenceLen(s, i) = CASE b <= 127 -> 1 [] two -> 2 [] three -> 3 [] four -> 4 [] OTHER -> 0
  BY <1>1 DEF SequenceLen
<1>4. /\ Encodes(s, i, 1) <=> b <= 127
      /\ Encodes(s, i, 2) <=> two
      /\ Encodes(s, i, 3) <=> three
      /\ Encodes(s, i, 4) <=> four
  <2> HIDE DEF tail
  <2> QED
    BY <1>1, <1>2, OneByte, TwoBytes, ThreeBytes, FourBytes
<1>5. /\ b <= 127 => ~two /\ ~three /\ ~four
      /\ two => ~three /\ ~four
      /\ three => ~four
  <2> HIDE DEF tail
  <2> QED
    BY DEF In
<1> HIDE DEF two, three, four
<1>6. /\ b <= 127 => SequenceLen(s, i) = 1
      /\ two => SequenceLen(s, i) = 2
      /\ three => SequenceLen(s, i) = 3
      /\ four => SequenceLen(s, i) = 4
      /\ ~(b <= 127) /\ ~two /\ ~three /\ ~four => SequenceLen(s, i) = 0
  BY <1>3, <1>5
<1> QED
  BY <1>4, <1>5, <1>6

\* A sequence that is found ends within the text.
LEMMA EncodedInside ==
    ASSUME NEW s \in Seq(Byte), NEW i \in 1 .. Len(s), NEW n \in 1 .. 4, Encodes(s, i, n)
    PROVE  i + n \in 1 .. Len(s) + 1
<1>1. CASE n = 1
  BY <1>1
<1>2. CASE n # 1
  <2>1. Continues(s, i, n)
    BY <1>2, TwoBytes, ThreeBytes, FourBytes
  <2> QED
    BY <2>1 DEF Continues
<1> QED
  BY <1>1, <1>2

\* From where on a text is encoded, by the recursion of WellFormed.
FormedFrom(s, i, g) == i = Len(s) + 1 \/ \E n \in 1 .. 4 : Encodes(s, i, n) /\ g[i + n]
Formed(s) == CHOOSE g : g = [i \in 1 .. Len(s) + 1 |-> FormedFrom(s, i, g)]

\* And by that of ValidUtf8.
ValidFrom(s, i, g) == i = Len(s) + 1 \/ (SequenceLen(s, i) # 0 /\ g[i + SequenceLen(s, i)])
Valid(s) == CHOOSE g : g = [i \in 1 .. Len(s) + 1 |-> ValidFrom(s, i, g)]

\* Both ask the same of the rest of the text.
LEMMA SameFrom ==
    ASSUME NEW s \in Seq(Byte), NEW i \in 1 .. Len(s) + 1, NEW g
    PROVE  ValidFrom(s, i, g) <=> FormedFrom(s, i, g)
<1>1. CASE i = Len(s) + 1
  BY <1>1 DEF ValidFrom, FormedFrom
<1>2. CASE i # Len(s) + 1
  <2>1. i \in 1 .. Len(s)
    BY <1>2
  <2>2. PICK n \in 0 .. 4 : n = SequenceLen(s, i)
    BY <2>1, LenIsEncoded
  <2>3. \A m \in 1 .. 4 : Encodes(s, i, m) <=> n = m
    BY <2>1, <2>2, LenIsEncoded
  <2>4. CASE n = 0
    BY <1>2, <2>2, <2>3, <2>4 DEF ValidFrom, FormedFrom
  <2>5. CASE n # 0
    <3>1. n \in 1 .. 4 /\ Encodes(s, i, n)
      BY <2>2, <2>3, <2>5
    <3>2. (\E m \in 1 .. 4 : Encodes(s, i, m) /\ g[i + m]) <=> g[i + n]
      BY <2>3, <3>1
    <3> QED
      BY <1>2, <2>2, <2>5, <3>2 DEF ValidFrom, FormedFrom
  <2> QED
    BY <2>4, <2>5
<1> QED
  BY <1>1, <1>2

\* A function that says of each byte whether the text is encoded from there on.
Says(s, g) == \A i \in 1 .. Len(s) + 1 : g[i] = FormedFrom(s, i, g)

\* What is said of a byte depends on the bytes behind it alone.
LEMMA FormedAhead ==
    ASSUME NEW s \in Seq(Byte), NEW i \in 1 .. Len(s) + 1, NEW f, NEW g,
           \A j \in i + 1 .. Len(s) + 1 : f[j] = g[j]
    PROVE  FormedFrom(s, i, f) <=> FormedFrom(s, i, g)
<1>1. CASE i = Len(s) + 1
  BY <1>1 DEF FormedFrom
<1>2. CASE i # Len(s) + 1
  <2>1. ASSUME NEW n \in 1 .. 4, Encodes(s, i, n)
        PROVE  f[i + n] = g[i + n]
    <3>1. i + n \in 1 .. Len(s) + 1
      BY <1>2, <2>1, EncodedInside
    <3> QED
      BY <3>1
  <2> QED
    BY <2>1 DEF FormedFrom
<1> QED
  BY <1>1, <1>2

\* There is such a function,
LEMMA SaidSomehow ==
    ASSUME NEW s \in Seq(Byte)
    PROVE  \E f \in [1 .. Len(s) + 1 -> BOOLEAN] : Says(s, f)
<1> DEFINE Good(f, m) == \A i \in m + 1 .. Len(s) + 1 : f[i] = FormedFrom(s, i, f)
           T == {m \in 0 .. Len(s) : \E f \in [1 .. Len(s) + 1 -> BOOLEAN] : Good(f, m)}
<1>1. Len(s) \in Nat
  OBVIOUS
<1>2. Len(s) \in T
  <2> DEFINE f == [i \in 1 .. Len(s) + 1 |-> TRUE]
  <2>1. f \in [1 .. Len(s) + 1 -> BOOLEAN]
    OBVIOUS
  <2>2. ASSUME NEW i \in Len(s) + 1 .. Len(s) + 1
        PROVE  f[i] = FormedFrom(s, i, f)
    <3>1. i = Len(s) + 1 /\ i \in 1 .. Len(s) + 1
      BY <1>1
    <3>2. f[i] = TRUE
      BY <3>1
    <3> HIDE DEF f
    <3>3. FormedFrom(s, i, f) = TRUE
      BY <3>1 DEF FormedFrom
    <3> QED
      BY <3>2, <3>3
  <2> HIDE DEF f
  <2> QED
    BY <1>1, <2>1, <2>2
<1>3. \A m \in 1 .. Len(s) : m \in T => m - 1 \in T
  <2> SUFFICES ASSUME NEW m \in 1 .. Len(s), m \in T PROVE m - 1 \in T
    OBVIOUS
  <2>1. PICK f \in [1 .. Len(s) + 1 -> BOOLEAN] : Good(f, m)
    OBVIOUS
  <2> DEFINE b == FormedFrom(s, m, f)
             g == [f EXCEPT ![m] = b]
  <2>2. b \in BOOLEAN
    BY DEF FormedFrom
  <2>3. m \in 1 .. Len(s) + 1 /\ m - 1 \in 0 .. Len(s)
    BY <1>1
  <2>4. g \in [1 .. Len(s) + 1 -> BOOLEAN] /\ g[m] = b
    <3> HIDE DEF b
    <3> QED
      BY <2>2, <2>3
  <2>5. \A j \in 1 .. Len(s) + 1 : j # m => g[j] = f[j]
    <3> HIDE DEF b
    <3> QED
      OBVIOUS
  <2> HIDE DEF g
  <2>6. ASSUME NEW i \in (m - 1) + 1 .. Len(s) + 1
        PROVE  g[i] = FormedFrom(s, i, g)
    <3>1. i \in 1 .. Len(s) + 1 /\ m <= i /\ \A j \in i + 1 .. Len(s) + 1 : j \in 1 .. Len(s) + 1 /\ j # m
      BY <2>6, <1>1
    <3>2. FormedFrom(s, i, f) <=> FormedFrom(s, i, g)
      <4>1. \A j \in i + 1 .. Len(s) + 1 : f[j] = g[j]
        BY <3>1, <2>5
      <4> QED
        BY <3>1, <4>1, FormedAhead
    <3>3. CASE i = m
      <4>1. g[i] = FormedFrom(s, i, f)
        BY <2>4, <3>3
      <4>2. FormedFrom(s, i, f) \in BOOLEAN /\ FormedFrom(s, i, g) \in BOOLEAN
        BY DEF FormedFrom
      <4> HIDE DEF b
      <4> QED
        BY <3>2, <4>1, <4>2
    <3>4. CASE i # m
      <4>1. i \in m + 1 .. Len(s) + 1
        BY <1>1, <3>1, <3>4
      <4>2. f[i] = FormedFrom(s, i, f) /\ g[i] = f[i]
        BY <2>1, <2>5, <3>1, <3>4, <4>1
      <4>3. FormedFrom(s, i, f) \in BOOLEAN /\ FormedFrom(s, i, g) \in BOOLEAN
        BY DEF FormedFrom
      <4> QED
        BY <3>2, <4>2, <4>3
    <3> QED
      BY <3>3, <3>4
  <2>7. Good(g, m - 1)
    BY <2>6
  <2> HIDE DEF Good
  <2> QED
    BY <2>3, <2>4, <2>7
<1>4. 0 \in T
  <2> HIDE DEF T
  <2> QED
    BY <1>1, <1>2, <1>3, DownwardInduction
<1>5. PICK f \in [1 .. Len(s) + 1 -> BOOLEAN] : Good(f, 0)
  BY <1>4
<1>6. 0 + 1 = 1
  OBVIOUS
<1> QED
  BY <1>5, <1>6 DEF Says

\* and only one.
LEMMA SaidOnce ==
    ASSUME NEW s \in Seq(Byte), NEW f, NEW g, Says(s, f), Says(s, g)
    PROVE  f[1] = g[1]
<1> DEFINE T == {m \in 0 .. Len(s) : \A i \in m + 1 .. Len(s) + 1 : f[i] = g[i]}
<1>1. Len(s) \in Nat
  OBVIOUS
<1>2. ASSUME NEW i \in 1 .. Len(s) + 1, \A j \in i + 1 .. Len(s) + 1 : f[j] = g[j]
      PROVE  f[i] = g[i]
  <2>1. FormedFrom(s, i, f) <=> FormedFrom(s, i, g)
    BY <1>2, FormedAhead
  <2>2. f[i] = FormedFrom(s, i, f) /\ g[i] = FormedFrom(s, i, g)
    BY DEF Says
  <2>3. FormedFrom(s, i, f) \in BOOLEAN /\ FormedFrom(s, i, g) \in BOOLEAN
    BY DEF FormedFrom
  <2> QED
    BY <2>1, <2>2, <2>3
<1>3. Len(s) \in T
  <2>1. Len(s) + 1 \in 1 .. Len(s) + 1 /\ \A j \in (Len(s) + 1) + 1 .. Len(s) + 1 : FALSE
    BY <1>1
  <2>2. f[Len(s) + 1] = g[Len(s) + 1]
    BY <1>2, <2>1
  <2> QED
    BY <1>1, <2>2
<1>4. \A m \in 1 .. Len(s) : m \in T => m - 1 \in T
  <2> SUFFICES ASSUME NEW m \in 1 .. Len(s), m \in T PROVE m - 1 \in T
    OBVIOUS
  <2>1. f[m] = g[m]
    BY <1>1, <1>2
  <2>2. ASSUME NEW i \in (m - 1) + 1 .. Len(s) + 1
        PROVE  i = m \/ i \in m + 1 .. Len(s) + 1
    BY <1>1
  <2> QED
    BY <1>1, <2>1, <2>2
<1>5. 0 \in T
  <2> HIDE DEF T
  <2> QED
    BY <1>1, <1>3, <1>4, DownwardInduction
<1> QED
  BY <1>1, <1>5

\* So the recursions of WellFormed and ValidUtf8 describe functions, and the
\* same one: for every sequence of bytes, is_valid_utf8 accepts RFC 3629's UTF-8.
THEOREM ValidIsWellFormed == ASSUME NEW s \in Seq(Byte) PROVE ValidUtf8(s) <=> WellFormed(s)
<1>1. PICK f \in [1 .. Len(s) + 1 -> BOOLEAN] : Says(s, f)
  BY SaidSomehow
<1>2. f = [i \in 1 .. Len(s) + 1 |-> f[i]]
  OBVIOUS
<1>3. \A i \in 1 .. Len(s) + 1 : f[i] = FormedFrom(s, i, f) /\ f[i] = ValidFrom(s, i, f)
  <2> TAKE i \in 1 .. Len(s) + 1
  <2>1. FormedFrom(s, i, f) <=> ValidFrom(s, i, f)
    BY SameFrom
  <2>2. FormedFrom(s, i, f) \in BOOLEAN /\ ValidFrom(s, i, f) \in BOOLEAN
    BY DEF FormedFrom, ValidFrom
  <2> QED
    BY <1>1, <2>1, <2>2 DEF Says
<1> DEFINE formed(g) == [i \in 1 .. Len(s) + 1 |-> FormedFrom(s, i, g)]
           valid(g) == [i \in 1 .. Len(s) + 1 |-> ValidFrom(s, i, g)]
<1>4. f = formed(f) /\ f = valid(f)
  BY <1>2, <1>3
<1>5. Formed(s) = formed(Formed(s))
  <2>1. Formed(s) = CHOOSE g : g = formed(g)
    BY DEF Formed
  <2> HIDE DEF formed
  <2> QED
    BY <1>4, <2>1
<1>6. Valid(s) = valid(Valid(s))
  <2>1. Valid(s) = CHOOSE g : g = valid(g)
    BY DEF Valid
  <2> HIDE DEF valid
  <2> QED
    BY <1>4, <2>1
<1>7. Says(s, Formed(s))
  BY <1>5 DEF Says
<1>8. Says(s, Valid(s))
  <2> SUFFICES ASSUME NEW i \in 1 .. Len(s) + 1
               PROVE  Valid(s)[i] = FormedFrom(s, i, Valid(s))
    BY DEF Says
  <2>1. Valid(s)[i] = ValidFrom(s, i, Valid(s))
    BY <1>6
  <2>2. ValidFrom(s, i, Valid(s)) <=> FormedFrom(s, i, Valid(s))
    BY SameFrom
  <2>3. FormedFrom(s, i, Valid(s)) \in BOOLEAN /\ ValidFrom(s, i, Valid(s)) \in BOOLEAN
    BY DEF FormedFrom, ValidFrom
  <2> QED
    BY <2>1, <2>2, <2>3
<1>9. WellFormed(s) = Formed(s)[1] /\ ValidUtf8(s) = Valid(s)[1]
  BY DEF WellFormed, Formed, FormedFrom, ValidUtf8, Valid, ValidFrom
<1> QED
  BY <1>7, <1>8, <1>9, SaidOnce

-----------------------------------------------------------------------------
(* Strings: which backslashes begin an escape.                               *)

\* The backslashes right before i are k.
Run(raw, i, k) ==
    /\ k \in 0 .. i - 1 /\ \A j \in i - k .. i - 1 : raw[j] = Backslash
    /\ i - k > 1 => raw[i - k - 1] # Backslash

\* There is one such number,
LEMMA RunOnce ==
    ASSUME NEW raw, NEW i \in Nat, NEW k, NEW m, Run(raw, i, k), Run(raw, i, m)
    PROVE  k = m
<1>1. ASSUME NEW p \in 0 .. i - 1, NEW q \in 0 .. i - 1, p < q, Run(raw, i, p), Run(raw, i, q)
      PROVE  FALSE
  <2>1. i - p > 1 /\ i - p - 1 \in i - q .. i - 1
    BY <1>1
  <2> QED
    BY <1>1, <2>1 DEF Run
<1>2. k \in 0 .. i - 1 /\ m \in 0 .. i - 1
  BY DEF Run
<1> QED
  BY <1>1, <1>2

\* one more behind a backslash,
LEMMA RunLonger ==
    ASSUME NEW raw, NEW i \in Nat \ {0}, NEW k, Run(raw, i, k), raw[i] = Backslash
    PROVE  Run(raw, i + 1, k + 1)
<1>1. k \in 0 .. i - 1 /\ k + 1 \in 0 .. (i + 1) - 1 /\ (i + 1) - (k + 1) = i - k
  BY DEF Run
<1>2. \A j \in i - k .. i : j = i \/ j \in i - k .. i - 1
  BY <1>1
<1>3. (i + 1) - 1 = i
  OBVIOUS
<1> QED
  BY <1>1, <1>2, <1>3 DEF Run

\* none behind anything else,
LEMMA RunEmpty ==
    ASSUME NEW raw, NEW i \in Nat \ {0}, i > 1 => raw[i - 1] # Backslash
    PROVE  Run(raw, i, 0)
<1>1. 0 \in 0 .. i - 1 /\ i - 0 = i /\ i - 0 - 1 = i - 1 /\ \A j \in i - 0 .. i - 1 : FALSE
  OBVIOUS
<1> QED
  BY <1>1 DEF Run

\* and always one.
LEMMA RunExists == ASSUME NEW raw, NEW i \in Nat \ {0} PROVE \E k \in Nat : Run(raw, i, k)
<1> DEFINE S == {n \in Nat : \E k \in Nat : Run(raw, n + 1, k)}
<1>1. 0 \in S
  <2>1. Run(raw, 1, 0)
    BY RunEmpty
  <2> QED
    BY <2>1
<1>2. \A n \in Nat : n \in S => n + 1 \in S
  <2> SUFFICES ASSUME NEW n \in Nat, n \in S PROVE n + 1 \in S
    OBVIOUS
  <2>1. PICK k \in Nat : Run(raw, n + 1, k)
    OBVIOUS
  <2>2. CASE raw[n + 1] = Backslash
    <3>1. Run(raw, (n + 1) + 1, k + 1)
      BY <2>1, <2>2, RunLonger
    <3> QED
      BY <3>1
  <2>3. CASE raw[n + 1] # Backslash
    <3>1. ((n + 1) + 1) - 1 = n + 1
      OBVIOUS
    <3>2. Run(raw, (n + 1) + 1, 0)
      BY <2>3, <3>1, RunEmpty
    <3> QED
      BY <3>2
  <2> QED
    BY <2>2, <2>3
<1>3. i - 1 \in S
  <2> HIDE DEF S
  <2> QED
    BY <1>1, <1>2, SetInduction
<1>4. (i - 1) + 1 = i
  OBVIOUS
<1> QED
  BY <1>3, <1>4

\* The reading of RFC 8259 by counting backslashes is the one of a reader who
\* goes from left to right: a backslash begins an escape unless the one before
\* it does.
LEMMA EscapesStep ==
    ASSUME NEW raw \in Seq(Byte), NEW i \in 1 .. Len(raw)
    PROVE  i \in Escapes(raw) <=> raw[i] = Backslash /\ i - 1 \notin Escapes(raw)
<1>1. \A j \in 1 .. Len(raw) :
        j \in Escapes(raw) <=> raw[j] = Backslash /\ \E k \in 0 .. j - 1 : k % 2 = 0 /\ Run(raw, j, k)
  BY DEF Escapes, Run
<1>2. CASE i = 1 \/ raw[i - 1] # Backslash
  <2>1. Run(raw, i, 0) /\ 0 \in 0 .. i - 1 /\ 0 % 2 = 0
    BY <1>2, RunEmpty
  <2>2. i - 1 \notin Escapes(raw)
    BY <1>2 DEF Escapes
  <2> QED
    BY <1>1, <2>1, <2>2
<1>3. CASE i # 1 /\ raw[i - 1] = Backslash
  <2>1. i - 1 \in 1 .. Len(raw) /\ i - 1 \in Nat \ {0} /\ (i - 1) + 1 = i /\ i \in Nat
    BY <1>3
  <2>2. PICK k \in Nat : Run(raw, i - 1, k)
    BY <2>1, RunExists
  <2>3. Run(raw, i, k + 1)
    BY <1>3, <2>1, <2>2, RunLonger
  <2>4. i - 1 \in Escapes(raw) <=> k % 2 = 0
    <3>1. k \in 0 .. (i - 1) - 1
      BY <2>2 DEF Run
    <3> QED
      BY <1>1, <1>3, <2>1, <2>2, <3>1, RunOnce
  <2>5. i \in Escapes(raw) <=> raw[i] = Backslash /\ (k + 1) % 2 = 0
    <3>1. k + 1 \in 0 .. i - 1
      BY <2>3 DEF Run
    <3> QED
      BY <1>1, <2>1, <2>3, <3>1, RunOnce
  <2>6. (k + 1) % 2 = 0 <=> ~(k % 2 = 0)
    OBVIOUS
  <2> QED
    BY <2>4, <2>5, <2>6
<1> QED
  BY <1>2, <1>3

\* What the loop of json_parse_string_token keeps.
TokenState == [out : Seq(Byte), escaping : BOOLEAN, ok : BOOLEAN]
TokenStart == [out |-> <<>>, escaping |-> FALSE, ok |-> TRUE]

\* The table of escapes has bytes in it, and no "u".
LEMMA EscapeType ==
    /\ DOMAIN Escape = {110, 114, 116, Quote, Backslash, Slash}
    /\ DOMAIN Escape \subseteq {c \in Byte : c >= Space /\ c # 117}
    /\ \A c \in DOMAIN Escape : Escape[c] \in Byte
<1>1. DOMAIN Escape = {110, 114, 116, Quote, Backslash, Slash}
  BY DEF Escape
<1>2. \A c \in {110, 114, 116, Quote, Backslash, Slash} :
         Escape[c] = CASE c = 110 -> LF [] c = 114 -> CR [] c = 116 -> HT [] OTHER -> c
  BY DEF Escape
<1>3. \A c \in {110, 114, 116, Quote, Backslash, Slash} : c \in Byte /\ c >= Space /\ c # 117
  BY DEF Byte, Quote, Backslash, Slash, Space
<1>4. \A c \in {110, 114, 116, Quote, Backslash, Slash} : Escape[c] \in {LF, CR, HT, c}
  BY <1>2
<1>5. LF \in Byte /\ CR \in Byte /\ HT \in Byte
  BY DEF Byte, LF, CR, HT
<1> QED
  BY <1>1, <1>3, <1>4, <1>5

\* A turn of the loop: a byte is stored, opens an escape, or ends the reading.
LEMMA TurnCases ==
    ASSUME NEW t \in TokenState, NEW c \in Byte, NEW size \in Nat,
           NEW u, u = TokenTurn(t, c, size)
    PROVE  /\ u \in TokenState
           /\ ~t.ok => ~u.ok
           /\ t.ok /\ t.escaping /\ c \notin DOMAIN Escape => ~u.ok
           /\ t.ok /\ t.escaping /\ c \in DOMAIN Escape =>
                 /\ u.out = Append(t.out, Escape[c]) /\ ~u.escaping
                 /\ u.ok <=> Len(t.out) + 1 < size
           /\ t.ok /\ ~t.escaping /\ c = Backslash => u.out = t.out /\ u.escaping /\ u.ok
           /\ t.ok /\ ~t.escaping /\ c # Backslash =>
                 /\ u.out = Append(t.out, c) /\ ~u.escaping
                 /\ u.ok <=> c >= Space /\ Len(t.out) + 1 < size
<1> DEFINE store(b, fits) == [t EXCEPT !.out = Append(@, b), !.escaping = FALSE, !.ok = fits]
           room == Len(t.out) + 1 < size
<1>1. t.out \in Seq(Byte)
  BY DEF TokenState
<1>2. ASSUME NEW b \in Byte, NEW fits \in BOOLEAN
      PROVE  /\ store(b, fits).out = Append(t.out, b) /\ ~store(b, fits).escaping
             /\ store(b, fits).ok <=> fits
             /\ store(b, fits) \in TokenState
  <2>1. Append(t.out, b) \in Seq(Byte)
    BY <1>1
  <2> QED
    BY <2>1 DEF TokenState
<1>3. [t EXCEPT !.ok = FALSE] \in TokenState /\ ~[t EXCEPT !.ok = FALSE].ok
  BY DEF TokenState
<1>4. LET v == [t EXCEPT !.escaping = TRUE]
      IN v \in TokenState /\ v.out = t.out /\ v.escaping /\ (v.ok <=> t.ok)
  BY DEF TokenState
<1>5. room \in BOOLEAN /\ (c >= Space /\ room) \in BOOLEAN
  OBVIOUS
<1>6. /\ ~t.ok => u = t
      /\ t.ok /\ t.escaping /\ c \notin DOMAIN Escape => u = [t EXCEPT !.ok = FALSE]
      /\ t.ok /\ t.escaping /\ c \in DOMAIN Escape => u = store(Escape[c], room)
      /\ t.ok /\ ~t.escaping /\ c = Backslash => u = [t EXCEPT !.escaping = TRUE]
      /\ t.ok /\ ~t.escaping /\ c # Backslash => u = store(c, c >= Space /\ room)
  BY Zenon DEF TokenTurn
<1> HIDE DEF store, room
<1>7. CASE ~t.ok
  BY <1>6, <1>7
<1>8. CASE t.ok /\ t.escaping /\ c \notin DOMAIN Escape
  BY <1>3, <1>6, <1>8
<1>9. CASE t.ok /\ t.escaping /\ c \in DOMAIN Escape
  <2>1. Escape[c] \in Byte
    BY <1>9, EscapeType
  <2>2. u = store(Escape[c], room)
    BY <1>6, <1>9
  <2> QED
    BY <1>2, <1>5, <1>9, <2>1, <2>2 DEF room
<1>10. CASE t.ok /\ ~t.escaping /\ c = Backslash
  BY <1>4, <1>6, <1>10
<1>11. CASE t.ok /\ ~t.escaping /\ c # Backslash
  <2>1. u = store(c, c >= Space /\ room)
    BY <1>6, <1>11
  <2> QED
    BY <1>2, <1>5, <1>11, <2>1 DEF room
<1> QED
  BY <1>7, <1>8, <1>9, <1>10, <1>11

\* The loop, byte by byte.
LEMMA TurnsUnfold ==
    ASSUME NEW raw \in Seq(Byte), NEW size \in Nat
    PROVE  /\ TokenTurns(raw, size) \in [0 .. Len(raw) -> TokenState]
           /\ TokenTurns(raw, size)[0] = TokenStart
           /\ \A k \in 1 .. Len(raw) :
                 TokenTurns(raw, size)[k] = TokenTurn(TokenTurns(raw, size)[k - 1], raw[k], size)
<1> DEFINE step == [k \in 1 .. Len(raw) |-> [t \in TokenState |-> TokenTurn(t, raw[k], size)]]
           L == Len(raw)
<1>1. L \in Nat /\ \A k \in 1 .. L : raw[k] \in Byte
  OBVIOUS
<1>2. \A k \in 1 .. L, t \in TokenState : TokenTurn(t, raw[k], size) \in TokenState
  BY <1>1, TurnCases
<1>3. step \in [1 .. L -> [TokenState -> TokenState]]
  BY <1>2
<1>4. TokenStart \in TokenState
  BY DEF TokenStart, TokenState
<1>5. PICK f \in [0 .. L -> TokenState] : /\ f[0] = TokenStart
                                          /\ \A k \in 1 .. L : f[k] = step[k][f[k - 1]]
  <2>1. Iterates(TokenState, TokenStart, L, step) # {}
    <3> HIDE DEF step
    <3> QED
      BY <1>1, <1>3, <1>4, PrimitiveRecursion
  <2> QED
    BY <2>1 DEF Iterates
<1>6. \A k \in 1 .. L : f[k - 1] \in TokenState
  BY <1>1
<1>7. \A k \in 1 .. L : f[k] = TokenTurn(f[k - 1], raw[k], size)
  BY <1>5, <1>6
<1> DEFINE body(g) == [k \in 0 .. L |-> IF k = 0 THEN TokenStart
                                        ELSE TokenTurn(g[k - 1], raw[k], size)]
<1>8. f = body(f)
  <2>1. \A k \in 0 .. L : f[k] = IF k = 0 THEN TokenStart ELSE TokenTurn(f[k - 1], raw[k], size)
    BY <1>1, <1>5, <1>7
  <2>2. f = [k \in 0 .. L |-> f[k]]
    OBVIOUS
  <2> QED
    BY <2>1, <2>2
<1>9. TokenTurns(raw, size) = CHOOSE g : g = body(g)
  BY DEF TokenTurns, TokenStart
<1>10. TokenTurns(raw, size) = body(TokenTurns(raw, size))
  <2> HIDE DEF body
  <2> QED
    BY <1>8, <1>9
<1>11. \A k \in 1 .. L :
          TokenTurns(raw, size)[k] = TokenTurn(TokenTurns(raw, size)[k - 1], raw[k], size)
  BY <1>1, <1>10
<1>12. TokenTurns(raw, size)[0] = TokenStart
  BY <1>1, <1>10
<1> DEFINE T == {k \in 0 .. L : TokenTurns(raw, size)[k] \in TokenState}
<1>13. 0 \in T
  BY <1>1, <1>4, <1>12
<1>14. \A k \in 0 .. L - 1 : k \in T => k + 1 \in T
  <2> SUFFICES ASSUME NEW k \in 0 .. L - 1, k \in T PROVE k + 1 \in T
    OBVIOUS
  <2>1. k + 1 \in 1 .. L /\ (k + 1) - 1 = k
    BY <1>1
  <2>2. TokenTurns(raw, size)[k + 1] = TokenTurn(TokenTurns(raw, size)[k], raw[k + 1], size)
    BY <1>11, <2>1
  <2>3. TokenTurns(raw, size)[k + 1] \in TokenState
    BY <1>2, <2>1, <2>2
  <2> QED
    BY <1>1, <2>1, <2>3
<1>15. \A k \in 0 .. L : k \in T
  <2> HIDE DEF T
  <2> QED
    BY <1>1, <1>13, <1>14, BoundedInduction
<1>16. TokenTurns(raw, size) \in [0 .. L -> TokenState]
  <2>1. TokenTurns(raw, size) = [k \in 0 .. L |-> TokenTurns(raw, size)[k]]
    BY <1>10
  <2> QED
    BY <1>15, <2>1
<1> QED
  BY <1>11, <1>12, <1>16

\* The bytes a raw string stands for, one unit after the other.
UnitOf(raw, i) == IF i \in Escapes(raw) THEN EscapeValue(raw, i) ELSE raw[i]
TextOf(raw) ==
    CHOOSE g : g = [i \in 0 .. Len(raw) |->
                      IF i = 0 THEN <<>>
                      ELSE IF i \in Covered(raw) THEN g[i - 1] ELSE Append(g[i - 1], UnitOf(raw, i))]

\* The recursion of Meaning describes a function.
LEMMA TextUnfold ==
    ASSUME NEW raw \in Seq(Byte)
    PROVE  /\ TextOf(raw)[0] = <<>>
           /\ \A i \in 0 .. Len(raw) : Len(TextOf(raw)[i]) \in Nat
           /\ \A i \in 1 .. Len(raw) :
                 /\ i \in Covered(raw) => TextOf(raw)[i] = TextOf(raw)[i - 1]
                 /\ i \notin Covered(raw) =>
                       /\ TextOf(raw)[i] = Append(TextOf(raw)[i - 1], UnitOf(raw, i))
                       /\ Len(TextOf(raw)[i]) = Len(TextOf(raw)[i - 1]) + 1
           /\ Meaning(raw) = TextOf(raw)[Len(raw)]
<1> DEFINE L == Len(raw)
           U == {UnitOf(raw, i) : i \in 1 .. L}
           turn(i, t) == IF i \in Covered(raw) THEN t ELSE Append(t, UnitOf(raw, i))
           step == [i \in 1 .. L |-> [t \in Seq(U) |-> turn(i, t)]]
<1>1. L \in Nat
  OBVIOUS
<1>2. \A i \in 1 .. L, t \in Seq(U) : turn(i, t) \in Seq(U) /\ Append(t, UnitOf(raw, i)) \in Seq(U)
  <2> TAKE i \in 1 .. L, t \in Seq(U)
  <2>1. UnitOf(raw, i) \in U
    OBVIOUS
  <2> HIDE DEF U
  <2> QED
    BY <2>1
<1> HIDE DEF U
<1>3. step \in [1 .. L -> [Seq(U) -> Seq(U)]]
  BY <1>2
<1>4. <<>> \in Seq(U)
  OBVIOUS
<1>5. PICK f \in [0 .. L -> Seq(U)] : f[0] = <<>> /\ \A i \in 1 .. L : f[i] = step[i][f[i - 1]]
  <2>1. Iterates(Seq(U), <<>>, L, step) # {}
    <3> HIDE DEF step
    <3> QED
      BY <1>1, <1>3, <1>4, PrimitiveRecursion
  <2> QED
    BY <2>1 DEF Iterates
<1>6. \A i \in 1 .. L : f[i - 1] \in Seq(U)
  BY <1>1
<1>7. \A i \in 1 .. L : f[i] = turn(i, f[i - 1])
  <2> HIDE DEF turn
  <2> QED
    BY <1>5, <1>6
<1> DEFINE body(g) == [i \in 0 .. L |-> IF i = 0 THEN <<>> ELSE turn(i, g[i - 1])]
<1>8. f = body(f)
  <2> HIDE DEF turn
  <2>1. \A i \in 0 .. L : f[i] = IF i = 0 THEN <<>> ELSE turn(i, f[i - 1])
    BY <1>1, <1>5, <1>7
  <2>2. f = [i \in 0 .. L |-> f[i]]
    OBVIOUS
  <2> QED
    BY <2>1, <2>2
<1>9. TextOf(raw) = CHOOSE g : g = body(g)
  BY DEF TextOf
<1>10. TextOf(raw) = body(TextOf(raw))
  <2> HIDE DEF body
  <2> QED
    BY <1>8, <1>9
<1> DEFINE t == TextOf(raw)
<1>11. t[0] = <<>> /\ \A i \in 1 .. L : t[i] = turn(i, t[i - 1])
  <2> HIDE DEF turn
  <2> QED
    BY <1>1, <1>10
<1> HIDE DEF t
<1> DEFINE T == {i \in 0 .. L : t[i] \in Seq(U)}
<1>12. 0 \in T
  <2>1. t[0] \in Seq(U)
    BY <1>4, <1>11, Zenon
  <2>2. 0 \in 0 .. L
    BY <1>1
  <2> QED
    BY <2>1, <2>2, Zenon
<1>13. \A i \in 0 .. L - 1 : i \in T => i + 1 \in T
  <2> SUFFICES ASSUME NEW i \in 0 .. L - 1, i \in T PROVE i + 1 \in T
    OBVIOUS
  <2>1. i + 1 \in 1 .. L /\ (i + 1) - 1 = i
    BY <1>1
  <2>2. t[i + 1] = turn(i + 1, t[i])
    BY <1>11, <2>1
  <2>3. t[i + 1] \in Seq(U)
    BY <1>2, <2>1, <2>2
  <2> QED
    BY <1>1, <2>1, <2>3
<1>14. \A i \in 0 .. L : i \in T
  <2> HIDE DEF T
  <2> QED
    BY <1>1, <1>12, <1>13, BoundedInduction
<1>15. \A i \in 0 .. L : t[i] \in Seq(U) /\ Len(t[i]) \in Nat
  BY <1>14
<1>16. ASSUME NEW i \in 1 .. L
       PROVE  /\ i \in Covered(raw) => t[i] = t[i - 1]
              /\ i \notin Covered(raw) => /\ t[i] = Append(t[i - 1], UnitOf(raw, i))
                                          /\ Len(t[i]) = Len(t[i - 1]) + 1
  <2>1. t[i] = turn(i, t[i - 1])
    BY <1>11
  <2>2. t[i - 1] \in Seq(U)
    BY <1>1, <1>15
  <2>3. \A u : Len(Append(t[i - 1], u)) = Len(t[i - 1]) + 1
    BY <2>2
  <2> QED
    BY <2>1, <2>3
<1>17. Meaning(raw) = t[L]
  BY DEF Meaning, TextOf, UnitOf, t
<1> QED
  BY <1>11, <1>15, <1>16, <1>17 DEF t

\* Up to byte k every escape is one of the table.
TableTo(raw, k) == \A i \in Escapes(raw) : i + 1 <= k => raw[i + 1] \in DOMAIN Escape

\* What is read of the first k bytes: a backslash at the end is not read yet.
ReadTo(raw, k) == TextOf(raw)[IF k \in Escapes(raw) THEN k - 1 ELSE k]

\* What the reader asks of the first k bytes.
ReadableTo(raw, k, size) ==
    /\ \A i \in 1 .. k : raw[i] >= Space
    /\ TableTo(raw, k)
    /\ Len(ReadTo(raw, k)) < size

\* Escapes of the table are two bytes long.
LEMMA CoveredByTable ==
    ASSUME NEW raw \in Seq(Byte), NEW k \in 0 .. Len(raw), TableTo(raw, k),
           NEW i \in 1 .. Len(raw), i <= k \/ (i = k + 1 /\ k \notin Escapes(raw))
    PROVE  i \in Covered(raw) <=> i - 1 \in Escapes(raw)
<1> DEFINE cover(e) == IF e < Len(raw) /\ raw[e + 1] = 117 THEN e + 1 .. e + 5 ELSE {e + 1}
<1>1. Escapes(raw) \subseteq 1 .. Len(raw)
  BY DEF Escapes
<1>2. i \in Covered(raw) <=> \E e \in Escapes(raw) : i \in cover(e)
  BY DEF Covered
<1>3. \A e \in 1 .. Len(raw) : e + 1 \in cover(e) /\ \A x \in cover(e) : x >= e + 1
  OBVIOUS
<1>4. ASSUME i - 1 \in Escapes(raw)
      PROVE  i \in Covered(raw)
  <2>1. i \in cover(i - 1)
    BY <1>1, <1>4
  <2> HIDE DEF cover
  <2> QED
    BY <1>2, <1>4, <2>1
<1>5. ASSUME NEW e \in Escapes(raw), i \in cover(e)
      PROVE  e = i - 1
  <2>1. e \in 1 .. Len(raw) /\ e + 1 <= i
    BY <1>1, <1>3, <1>5
  <2>2. CASE e + 1 <= k
    <3>1. raw[e + 1] # 117
      BY <2>2, EscapeType DEF TableTo
    <3> QED
      BY <1>5, <2>1, <3>1
  <2>3. CASE e + 1 > k
    BY <2>1, <2>3
  <2> QED
    BY <2>1, <2>2, <2>3
<1> HIDE DEF cover
<1> QED
  BY <1>2, <1>4, <1>5

\* What is read grows.
LEMMA ReadGrows ==
    ASSUME NEW raw \in Seq(Byte), NEW k \in 0 .. Len(raw) - 1
    PROVE  /\ Len(ReadTo(raw, k)) \in Nat
           /\ Len(ReadTo(raw, k)) <= Len(ReadTo(raw, k + 1))
<1> DEFINE n == [i \in 0 .. Len(raw) |-> Len(TextOf(raw)[i])]
<1>1. \A i \in 0 .. Len(raw) : n[i] \in Nat /\ n[i] = Len(TextOf(raw)[i])
  BY TextUnfold
<1>2. \A i \in 1 .. Len(raw) : n[i - 1] <= n[i]
  <2> TAKE i \in 1 .. Len(raw)
  <2>1. i - 1 \in 0 .. Len(raw) /\ i \in 0 .. Len(raw)
    OBVIOUS
  <2>2. Len(TextOf(raw)[i]) = Len(TextOf(raw)[i - 1]) \/ Len(TextOf(raw)[i]) = Len(TextOf(raw)[i - 1]) + 1
    BY TextUnfold
  <2> HIDE DEF n
  <2> QED
    BY <1>1, <2>1, <2>2
<1> HIDE DEF n
<1>3. Escapes(raw) \subseteq 1 .. Len(raw)
  BY DEF Escapes
<1>4. ~(k \in Escapes(raw) /\ k + 1 \in Escapes(raw))
  <2>1. k + 1 \in 1 .. Len(raw) /\ (k + 1) - 1 = k
    OBVIOUS
  <2> QED
    BY <2>1, EscapesStep
<1> DEFINE at(j) == IF j \in Escapes(raw) THEN j - 1 ELSE j
<1>5. at(k) \in 0 .. Len(raw) /\ at(k + 1) \in 0 .. Len(raw)
      /\ at(k) \in {k - 1, k} /\ at(k + 1) \in {k, k + 1}
      /\ (at(k) = k - 1 => k \in 1 .. Len(raw))
  BY <1>3
<1>6. Len(ReadTo(raw, k)) = n[at(k)] /\ Len(ReadTo(raw, k + 1)) = n[at(k + 1)]
  BY <1>1, <1>5 DEF ReadTo
<1>7. n[at(k)] <= n[k] /\ n[k] <= n[at(k + 1)] /\ n[k] \in Nat
  <2>1. (k + 1) - 1 = k /\ k + 1 \in 1 .. Len(raw) /\ k \in 0 .. Len(raw)
    OBVIOUS
  <2>2. n[k] <= n[k + 1] /\ n[k] \in Nat
    BY <1>1, <1>2, <2>1
  <2> HIDE DEF at
  <2> QED
    BY <1>2, <1>5, <2>2
<1> QED
  BY <1>1, <1>5, <1>6, <1>7

\* The token reader and the RFC agree byte by byte: the loop goes on as long as
\* what it has seen is readable, and holds the text it stands for.
ReaderAt(raw, size, k) ==
    LET t == TokenTurns(raw, size)[k]
    IN /\ t.ok <=> ReadableTo(raw, k, size)
       /\ t.ok => /\ t.escaping <=> k \in Escapes(raw)
                  /\ t.out = ReadTo(raw, k)

\* One more byte keeps them together.
LEMMA ReaderStep ==
    ASSUME NEW raw \in Seq(Byte), NEW size \in Nat \ {0}, NEW k \in 0 .. Len(raw) - 1,
           ReaderAt(raw, size, k)
    PROVE  ReaderAt(raw, size, k + 1)
<1> DEFINE E == Escapes(raw)
<1>1. k + 1 \in 1 .. Len(raw) /\ (k + 1) - 1 = k /\ k \in 0 .. Len(raw)
  OBVIOUS
<1>2. PICK t \in TokenState : t = TokenTurns(raw, size)[k]
  BY <1>1, TurnsUnfold
<1>3. PICK c \in Byte : c = raw[k + 1]
  BY <1>1
<1>4. PICK u \in TokenState : u = TokenTurn(t, c, size)
  BY TurnCases
<1>5. TokenTurns(raw, size)[k + 1] = u
  BY <1>1, <1>2, <1>3, <1>4, TurnsUnfold
<1>6. /\ t.ok <=> ReadableTo(raw, k, size)
      /\ t.ok => (t.escaping <=> k \in E) /\ t.out = ReadTo(raw, k)
  BY <1>2 DEF ReaderAt
<1>7. SUFFICES /\ u.ok <=> ReadableTo(raw, k + 1, size)
               /\ u.ok => (u.escaping <=> k + 1 \in E) /\ u.out = ReadTo(raw, k + 1)
  BY <1>5 DEF ReaderAt
<1>8. E \subseteq 1 .. Len(raw)
  BY DEF Escapes
<1>9. k + 1 \in E <=> c = Backslash /\ k \notin E
  BY <1>1, <1>3, EscapesStep
<1>10. Len(ReadTo(raw, k)) \in Nat /\ Len(ReadTo(raw, k)) <= Len(ReadTo(raw, k + 1))
       /\ Len(ReadTo(raw, k + 1)) \in Nat
  <2>1. Len(ReadTo(raw, k + 1)) \in Nat
    <3>1. (IF k + 1 \in E THEN (k + 1) - 1 ELSE k + 1) \in 0 .. Len(raw)
      BY <1>1
    <3> QED
      BY <3>1, TextUnfold DEF ReadTo
  <2> QED
    BY <2>1, ReadGrows
<1>11. (\A i \in 1 .. k + 1 : raw[i] >= Space) <=> (\A i \in 1 .. k : raw[i] >= Space) /\ c >= Space
  <2>1. \A i \in 1 .. k + 1 : i \in 1 .. k \/ i = k + 1
    BY <1>1
  <2>2. \A i \in 1 .. k : i \in 1 .. k + 1
    BY <1>1
  <2> QED
    BY <1>1, <1>3, <2>1, <2>2
<1>12. TableTo(raw, k + 1) <=> TableTo(raw, k) /\ (k \in E => c \in DOMAIN Escape)
  <2>1. \A i \in E : i + 1 <= k + 1 <=> i + 1 <= k \/ i = k
    BY <1>1, <1>8
  <2> QED
    BY <1>1, <1>3, <2>1 DEF TableTo
<1>13. CASE ~t.ok
  <2>1. ~u.ok
    BY <1>4, <1>13, TurnCases
  <2>2. ~ReadableTo(raw, k + 1, size)
    BY <1>6, <1>10, <1>11, <1>12, <1>13 DEF ReadableTo
  <2> QED
    BY <2>1, <2>2
<1>14. CASE t.ok /\ k \in E /\ c \notin DOMAIN Escape
  <2>1. ~u.ok
    BY <1>4, <1>6, <1>14, TurnCases
  <2> QED
    BY <1>12, <1>14, <2>1 DEF ReadableTo
<1>15. CASE t.ok /\ k \in E /\ c \in DOMAIN Escape
  <2>1. k + 1 \notin E /\ k \in 1 .. Len(raw) /\ c >= Space /\ c # 117
    BY <1>8, <1>9, <1>15, EscapeType
  <2>2. TableTo(raw, k) /\ TableTo(raw, k + 1)
    BY <1>6, <1>12, <1>15 DEF ReadableTo
  <2>3. k + 1 \in Covered(raw)
    BY <1>1, <1>15, <2>2, CoveredByTable
  <2>4. k \notin Covered(raw)
    <3>1. k - 1 \notin E
      BY <1>15, <2>1, EscapesStep
    <3> QED
      BY <2>1, <2>2, <3>1, CoveredByTable
  <2>5. TextOf(raw)[k + 1] = TextOf(raw)[k]
    BY <1>1, <2>3, TextUnfold
  <2>6. /\ TextOf(raw)[k] = Append(TextOf(raw)[k - 1], UnitOf(raw, k))
        /\ Len(TextOf(raw)[k]) = Len(TextOf(raw)[k - 1]) + 1
    BY <2>1, <2>4, TextUnfold
  <2>7. UnitOf(raw, k) = Escape[c]
    <3>1. UnitOf(raw, k) = EscapeValue(raw, k)
      BY <1>15 DEF UnitOf
    <3>2. c \in {110, 114, 116, Quote, Backslash, Slash}
      BY <1>15, EscapeType
    <3>3. c # 98 /\ c # 102
      BY <3>2 DEF Quote, Backslash, Slash
    <3>4. Escape[c] = CASE c = 110 -> LF [] c = 114 -> CR [] c = 116 -> HT [] OTHER -> c
      BY <3>2 DEF Escape
    <3> QED
      BY <1>3, <2>1, <3>1, <3>3, <3>4 DEF EscapeValue
  <2>8. ReadTo(raw, k) = TextOf(raw)[k - 1] /\ ReadTo(raw, k + 1) = TextOf(raw)[k + 1]
    BY <1>15, <2>1 DEF ReadTo
  <2>9. u.out = Append(t.out, Escape[c]) /\ ~u.escaping /\ (u.ok <=> Len(t.out) + 1 < size)
    BY <1>4, <1>6, <1>15, TurnCases
  <2>10. u.out = ReadTo(raw, k + 1) /\ (u.ok <=> Len(ReadTo(raw, k + 1)) < size)
    BY <1>6, <1>15, <2>5, <2>6, <2>7, <2>8, <2>9
  <2> QED
    BY <1>6, <1>11, <1>12, <1>15, <2>1, <2>9, <2>10 DEF ReadableTo
<1>16. CASE t.ok /\ k \notin E /\ c = Backslash
  <2>1. k + 1 \in E
    BY <1>9, <1>16
  <2>2. ReadTo(raw, k + 1) = ReadTo(raw, k)
    BY <1>1, <1>16, <2>1 DEF ReadTo
  <2>3. u.out = t.out /\ u.escaping /\ u.ok
    BY <1>4, <1>6, <1>16, TurnCases
  <2>4. c >= Space
    BY <1>16 DEF Backslash, Space
  <2> QED
    BY <1>6, <1>11, <1>12, <1>16, <2>1, <2>2, <2>3, <2>4 DEF ReadableTo
<1>17. CASE t.ok /\ k \notin E /\ c # Backslash
  <2>1. k + 1 \notin E
    BY <1>9, <1>17
  <2>2. TableTo(raw, k)
    BY <1>6, <1>17 DEF ReadableTo
  <2>3. k + 1 \notin Covered(raw)
    BY <1>1, <1>17, <2>2, CoveredByTable
  <2>4. /\ TextOf(raw)[k + 1] = Append(TextOf(raw)[k], UnitOf(raw, k + 1))
        /\ Len(TextOf(raw)[k + 1]) = Len(TextOf(raw)[k]) + 1
    BY <1>1, <2>3, TextUnfold
  <2>5. UnitOf(raw, k + 1) = c
    BY <1>3, <2>1 DEF UnitOf
  <2>6. ReadTo(raw, k) = TextOf(raw)[k] /\ ReadTo(raw, k + 1) = TextOf(raw)[k + 1]
    BY <1>17, <2>1 DEF ReadTo
  <2>7. u.out = Append(t.out, c) /\ ~u.escaping /\ (u.ok <=> c >= Space /\ Len(t.out) + 1 < size)
    BY <1>4, <1>6, <1>17, TurnCases
  <2>8. u.out = ReadTo(raw, k + 1) /\ (u.ok <=> c >= Space /\ Len(ReadTo(raw, k + 1)) < size)
    BY <1>6, <1>17, <2>4, <2>5, <2>6, <2>7
  <2> QED
    BY <1>6, <1>11, <1>12, <1>17, <2>1, <2>7, <2>8 DEF ReadableTo
<1> QED
  BY <1>13, <1>14, <1>15, <1>16, <1>17

\* For every string and every buffer: the token reader stores exactly the text
\* RFC 8259 makes of a string, if its escapes are of the table, no byte of it
\* is a control byte and the text fits with its terminator; otherwise it
\* stores nothing.
THEOREM TokenIsMeaning ==
    ASSUME NEW raw \in Seq(Byte), NEW closed \in BOOLEAN, NEW size \in Nat \ {0},
           Delimited(raw, closed)
    PROVE  /\ StringToken(raw, closed, size) =
                 IF Readable(raw, closed, size) THEN Meaning(raw) ELSE Unset
           /\ Readable(raw, closed, size) => Meaning(raw) \in Seq(Byte)
<1> DEFINE T == {k \in 0 .. Len(raw) : ReaderAt(raw, size, k)}
           last == TokenTurns(raw, size)[Len(raw)]
<1>1. Len(raw) \in Nat
  OBVIOUS
<1>2. Escapes(raw) \subseteq 1 .. Len(raw)
  BY DEF Escapes
<1>3. 0 \in T
  <2>1. ReadTo(raw, 0) = <<>>
    BY <1>2, TextUnfold DEF ReadTo
  <2>2. TableTo(raw, 0)
    BY <1>2 DEF TableTo
  <2>3. ReadableTo(raw, 0, size)
    BY <2>1, <2>2 DEF ReadableTo
  <2>4. TokenTurns(raw, size)[0] = TokenStart
    BY TurnsUnfold
  <2>5. ReaderAt(raw, size, 0)
    BY <1>2, <2>1, <2>3, <2>4 DEF ReaderAt, TokenStart
  <2> QED
    BY <1>1, <2>5
<1>4. \A k \in 0 .. Len(raw) - 1 : k \in T => k + 1 \in T
  BY <1>1, ReaderStep
<1>5. ReaderAt(raw, size, Len(raw))
  <2>1. \A k \in 0 .. Len(raw) : k \in T
    <3> HIDE DEF T
    <3> QED
      BY <1>1, <1>3, <1>4, BoundedInduction
  <2> QED
    BY <1>1, <2>1
<1>6. CASE closed
  <2>1. Len(raw) \notin Escapes(raw)
    BY <1>6 DEF Delimited
  <2>2. ReadTo(raw, Len(raw)) = Meaning(raw)
    BY <2>1, TextUnfold DEF ReadTo
  <2>3. TableTo(raw, Len(raw)) <=>
           \A i \in Escapes(raw) : raw[i + 1] \in {110, 114, 116, Quote, Backslash, Slash}
    <3>1. \A i \in Escapes(raw) : i + 1 <= Len(raw)
      BY <1>1, <1>2, <2>1
    <3> QED
      BY <3>1, EscapeType DEF TableTo
  <2>4. ReadableTo(raw, Len(raw), size) <=> Readable(raw, closed, size)
    BY <1>6, <2>2, <2>3 DEF ReadableTo, Readable, NoControl
  <2>5. last.ok <=> Readable(raw, closed, size)
    BY <1>5, <2>4 DEF ReaderAt
  <2>6. last.ok => ~last.escaping /\ last.out = Meaning(raw)
    BY <1>5, <2>1, <2>2 DEF ReaderAt
  <2>7. last.out \in Seq(Byte)
    <3>1. last \in TokenState
      BY <1>1, TurnsUnfold
    <3> QED
      BY <3>1 DEF TokenState
  <2> HIDE DEF last
  <2> QED
    BY <1>6, <2>5, <2>6, <2>7 DEF StringToken, last
<1>7. CASE ~closed
  BY <1>7 DEF StringToken, Readable
<1> QED
  BY <1>6, <1>7

-----------------------------------------------------------------------------
(* Documents: where the cursor stands among the lexemes that are no blanks.  *)

\* The lexemes before each place that are not blank.
SolidTo(d) ==
    CHOOSE g : g = [i \in 0 .. Len(d) |->
                      IF i = 0 THEN <<>>
                      ELSE IF d[i].kind \in Blank THEN g[i - 1] ELSE Append(g[i - 1], d[i])]

\* The recursion of Solid describes a function.
LEMMA SolidUnfold ==
    ASSUME NEW d \in Seq(Lexeme)
    PROVE  /\ SolidTo(d) \in [0 .. Len(d) -> Seq(Lexeme)]
           /\ SolidTo(d)[0] = <<>>
           /\ \A i \in 1 .. Len(d) :
                 /\ d[i].kind \in Blank => SolidTo(d)[i] = SolidTo(d)[i - 1]
                 /\ d[i].kind \notin Blank => SolidTo(d)[i] = Append(SolidTo(d)[i - 1], d[i])
           /\ Solid(d) = SolidTo(d)[Len(d)]
<1> DEFINE L == Len(d)
           turn(i, t) == IF d[i].kind \in Blank THEN t ELSE Append(t, d[i])
           step == [i \in 1 .. L |-> [t \in Seq(Lexeme) |-> turn(i, t)]]
<1>1. L \in Nat /\ \A i \in 1 .. L : d[i] \in Lexeme
  OBVIOUS
<1>2. \A i \in 1 .. L, t \in Seq(Lexeme) : turn(i, t) \in Seq(Lexeme)
  BY <1>1
<1>3. step \in [1 .. L -> [Seq(Lexeme) -> Seq(Lexeme)]]
  BY <1>2
<1>4. <<>> \in Seq(Lexeme)
  OBVIOUS
<1>5. PICK f \in [0 .. L -> Seq(Lexeme)] : f[0] = <<>> /\ \A i \in 1 .. L : f[i] = step[i][f[i - 1]]
  <2>1. Iterates(Seq(Lexeme), <<>>, L, step) # {}
    <3> HIDE DEF step
    <3> QED
      BY <1>1, <1>3, <1>4, PrimitiveRecursion
  <2> QED
    BY <2>1 DEF Iterates
<1>6. \A i \in 1 .. L : f[i - 1] \in Seq(Lexeme)
  BY <1>1
<1>7. \A i \in 1 .. L : f[i] = turn(i, f[i - 1])
  <2> HIDE DEF turn
  <2> QED
    BY <1>5, <1>6
<1> DEFINE body(g) == [i \in 0 .. L |-> IF i = 0 THEN <<>> ELSE turn(i, g[i - 1])]
<1>8. f = body(f)
  <2> HIDE DEF turn
  <2>1. \A i \in 0 .. L : f[i] = IF i = 0 THEN <<>> ELSE turn(i, f[i - 1])
    BY <1>1, <1>5, <1>7
  <2>2. f = [i \in 0 .. L |-> f[i]]
    OBVIOUS
  <2> QED
    BY <2>1, <2>2
<1>9. SolidTo(d) = CHOOSE g : g = body(g)
  BY DEF SolidTo
<1>10. SolidTo(d) = body(SolidTo(d))
  <2> HIDE DEF body
  <2> QED
    BY <1>8, <1>9
<1>11. SolidTo(d)[0] = <<>> /\ \A i \in 1 .. L : SolidTo(d)[i] = turn(i, SolidTo(d)[i - 1])
  <2> HIDE DEF turn
  <2>1. \A g : \A i \in 0 .. L : body(g)[i] = IF i = 0 THEN <<>> ELSE turn(i, g[i - 1])
    OBVIOUS
  <2> HIDE DEF body
  <2>2. \A i \in 0 .. L : SolidTo(d)[i] = IF i = 0 THEN <<>> ELSE turn(i, SolidTo(d)[i - 1])
    BY <1>10, <2>1, Zenon
  <2>3. 0 \in 0 .. L /\ \A i \in 1 .. L : i \in 0 .. L /\ i # 0
    BY <1>1
  <2> QED
    BY <2>2, <2>3
<1> DEFINE T == {i \in 0 .. L : SolidTo(d)[i] \in Seq(Lexeme)}
<1>12. 0 \in T
  <2>1. SolidTo(d)[0] \in Seq(Lexeme)
    BY <1>4, <1>11, Zenon
  <2>2. 0 \in 0 .. L
    BY <1>1
  <2> QED
    BY <2>1, <2>2, Zenon
<1>13. \A i \in 0 .. L - 1 : i \in T => i + 1 \in T
  <2> SUFFICES ASSUME NEW i \in 0 .. L - 1, i \in T PROVE i + 1 \in T
    OBVIOUS
  <2>1. i + 1 \in 1 .. L /\ (i + 1) - 1 = i
    BY <1>1
  <2>2. SolidTo(d)[i + 1] = turn(i + 1, SolidTo(d)[i])
    BY <1>11, <2>1
  <2>3. SolidTo(d)[i + 1] \in Seq(Lexeme)
    BY <1>2, <2>1, <2>2
  <2> QED
    BY <1>1, <2>1, <2>3
<1>14. \A i \in 0 .. L : i \in T
  <2> HIDE DEF T
  <2> QED
    BY <1>1, <1>12, <1>13, BoundedInduction
<1>15. SolidTo(d) \in [0 .. L -> Seq(Lexeme)]
  <2>1. SolidTo(d) = [i \in 0 .. L |-> SolidTo(d)[i]]
    BY <1>10
  <2> QED
    BY <1>14, <2>1
<1>16. Solid(d) = SolidTo(d)[L]
  BY DEF Solid, SolidTo
<1> QED
  BY <1>11, <1>15, <1>16

\* What stands before a place stays where it is.
LEMMA SolidPrefix ==
    ASSUME NEW d \in Seq(Lexeme), NEW i \in 0 .. Len(d)
    PROVE  /\ Len(SolidTo(d)[i]) \in Nat /\ Len(Solid(d)) \in Nat
           /\ Len(SolidTo(d)[i]) <= Len(Solid(d))
           /\ \A m \in 1 .. Len(SolidTo(d)[i]) : Solid(d)[m] = SolidTo(d)[i][m]
<1> DEFINE g == SolidTo(d)
           L == Len(d)
           T == {u \in 0 .. L - i : /\ Len(g[i]) <= Len(g[i + u])
                                    /\ \A m \in 1 .. Len(g[i]) : g[i + u][m] = g[i][m]}
<1>1. /\ g \in [0 .. L -> Seq(Lexeme)] /\ Solid(d) = g[L]
      /\ \A j \in 1 .. L : \/ g[j] = g[j - 1]
                           \/ g[j] = Append(g[j - 1], d[j])
  BY SolidUnfold
<1>2. L \in Nat /\ L - i \in Nat
  OBVIOUS
<1> HIDE DEF g
<1>3. \A j \in 0 .. L : g[j] \in Seq(Lexeme) /\ Len(g[j]) \in Nat
  BY <1>1
<1>4. 0 \in T
  <2>1. i + 0 = i /\ 0 \in 0 .. L - i
    BY <1>2
  <2> QED
    BY <1>3, <2>1
<1>5. \A u \in 0 .. (L - i) - 1 : u \in T => u + 1 \in T
  <2> SUFFICES ASSUME NEW u \in 0 .. (L - i) - 1, u \in T PROVE u + 1 \in T
    OBVIOUS
  <2>1. /\ i + (u + 1) \in 1 .. L /\ (i + (u + 1)) - 1 = i + u /\ i + u \in 0 .. L
        /\ u + 1 \in 0 .. L - i
    BY <1>2
  <2>2. CASE g[i + (u + 1)] = g[i + u]
    BY <2>1, <2>2
  <2>3. CASE g[i + (u + 1)] = Append(g[i + u], d[i + (u + 1)])
    <3>1. PICK a \in Seq(Lexeme) : a = g[i + u]
      BY <1>3, <2>1
    <3>2. Len(Append(a, d[i + (u + 1)])) = Len(a) + 1
          /\ \A m \in 1 .. Len(a) : Append(a, d[i + (u + 1)])[m] = a[m]
      OBVIOUS
    <3>3. Len(g[i]) \in Nat /\ Len(a) \in Nat /\ Len(g[i]) <= Len(a)
      BY <1>3, <3>1
    <3>4. \A m \in 1 .. Len(g[i]) : m \in 1 .. Len(a) /\ a[m] = g[i][m]
      BY <3>1, <3>3
    <3>5. PICK b : b = g[i + (u + 1)] /\ b = Append(a, d[i + (u + 1)])
      BY <2>3, <3>1
    <3>6. Len(g[i]) <= Len(b) /\ \A m \in 1 .. Len(g[i]) : b[m] = g[i][m]
      BY <3>2, <3>3, <3>4, <3>5
    <3> QED
      BY <2>1, <3>5, <3>6
  <2> QED
    BY <1>1, <2>1, <2>2, <2>3
<1>6. \A u \in 0 .. L - i : u \in T
  <2> HIDE DEF T
  <2> QED
    BY <1>2, <1>4, <1>5, BoundedInduction
<1>7. L - i \in T /\ i + (L - i) = L
  BY <1>2, <1>6
<1> QED
  BY <1>1, <1>2, <1>3, <1>7 DEF g

\* Before c there are so many lexemes that are not blank.
Before(d, c) == Len(SolidTo(d)[c - 1])

\* The cursor stands at the m-th of them, or at the NUL behind the last.
Stands(d, c, m) ==
    c \in 1 .. Len(d) + 1 /\ (c <= Len(d) => d[c].kind \notin Blank) /\ Before(d, c) = m - 1

\* The m-th of them, or the NUL.
Look(d, m) == IF m <= Len(Solid(d)) THEN Solid(d)[m] ELSE Mark("NUL")

\* Where the cursor stands, it sees the m-th lexeme, and behind it the next one
\* is the next.
LEMMA StandsAt ==
    ASSUME doc \in Seq(Lexeme), NEW c, NEW m \in Nat \ {0}, Stands(doc, c, m)
    PROVE  /\ c \in 1 .. Len(doc) + 1
           /\ At(c) = Look(doc, m)
           /\ m \in 1 .. Len(Solid(doc)) + 1
           /\ c <= Len(doc) <=> m <= Len(Solid(doc))
           /\ c <= Len(doc) => c + 1 \in 1 .. Len(doc) + 1 /\ Before(doc, c + 1) = m
<1>1. c \in 1 .. Len(doc) + 1 /\ Len(doc) \in Nat /\ c - 1 \in 0 .. Len(doc)
      /\ Len(SolidTo(doc)[c - 1]) = m - 1
  BY DEF Stands, Before
<1>2. Len(Solid(doc)) \in Nat /\ m - 1 <= Len(Solid(doc))
  BY <1>1, SolidPrefix
<1>3. CASE c <= Len(doc)
  <2>1. c \in 1 .. Len(doc) /\ c \in 0 .. Len(doc) /\ (c + 1) - 1 = c
    BY <1>1, <1>3
  <2>2. doc[c].kind \notin Blank
    BY <1>3 DEF Stands
  <2>3. PICK a \in Seq(Lexeme) : a = SolidTo(doc)[c - 1]
    BY <1>1, SolidUnfold
  <2>4. SolidTo(doc)[c] = Append(a, doc[c])
    BY <2>1, <2>2, <2>3, SolidUnfold
  <2>5. Len(a) = m - 1
    BY <1>1, <2>3
  <2>6. doc[c] \in Lexeme
    BY <2>1
  <2>7. Len(Append(a, doc[c])) = m /\ Append(a, doc[c])[m] = doc[c]
    BY <2>5, <2>6
  <2>8. m <= Len(Solid(doc)) /\ Solid(doc)[m] = doc[c]
    <3>1. m \in 1 .. Len(SolidTo(doc)[c])
      BY <2>4, <2>7
    <3> QED
      BY <2>1, <2>4, <2>7, <3>1, SolidPrefix
  <2> QED
    BY <1>1, <1>2, <1>3, <2>1, <2>4, <2>7, <2>8 DEF At, Look, Before
<1>4. CASE ~(c <= Len(doc))
  <2>1. c - 1 = Len(doc)
    BY <1>1, <1>4
  <2>2. Len(Solid(doc)) = m - 1
    BY <1>1, <2>1, SolidUnfold
  <2> QED
    BY <1>1, <1>2, <1>4, <2>2 DEF At, Look
<1> QED
  BY <1>3, <1>4

\* The kinds of lexemes.
LEMMA Kinds ==
    /\ DOMAIN MarkByte = {"{", "}", ":", ",", "other", "space", "vtab"}
    /\ Blank = {"space", "vtab"}
    /\ \A x \in Lexeme : x.kind \in DOMAIN MarkByte \cup {"string"} /\ x.kind # "NUL"
    /\ Mark("NUL").kind = "NUL"
<1>1. DOMAIN MarkByte = {"{", "}", ":", ",", "other"} \cup Blank
  BY DEF MarkByte
<1> QED
  BY <1>1 DEF Blank, Lexeme, Mark

\* json_skip_ws passes the blanks and nothing else.
LEMMA SkipStands ==
    ASSUME doc \in Seq(Lexeme), NEW c \in 1 .. Len(doc) + 1, NEW m \in Nat \ {0},
           Before(doc, c) = m - 1
    PROVE  /\ Stands(doc, Skip(c), m) /\ Skip(c) \in c .. Len(doc) + 1
           /\ \A i \in c .. Skip(c) - 1 : i \in 1 .. Len(doc) /\ doc[i].kind \in Blank
<1> DEFINE L == Len(doc)
           T == {j \in c .. L + 1 : At(j).kind \notin Blank}
<1>1. L \in Nat /\ T \subseteq Nat
  OBVIOUS
<1>2. L + 1 \in T
  <2>1. ~(L + 1 <= L)
    BY <1>1
  <2>2. At(L + 1) = Mark("NUL")
    BY <2>1 DEF At
  <2>3. At(L + 1).kind \notin Blank
    BY <2>2, Kinds
  <2>4. L + 1 \in c .. L + 1
    BY <1>1
  <2> QED
    BY <2>3, <2>4
<1>3. PICK j \in T : \A k \in T : j <= k
  <2> HIDE DEF T
  <2> QED
    BY <1>1, <1>2, LeastElement
<1>4. At(j).kind \notin Blank /\ \A k \in c .. j - 1 : At(k).kind \in Blank
  <2>1. ASSUME NEW k \in c .. j - 1, At(k).kind \notin Blank PROVE FALSE
    <3>1. k \in c .. L + 1 /\ k < j
      BY <1>1
    <3>2. k \in T
      BY <2>1, <3>1
    <3> HIDE DEF T
    <3> QED
      BY <1>3, <1>1, <3>1, <3>2
  <2> QED
    BY <1>3, <2>1
<1>5. PICK k \in c .. L + 1 : /\ k = Skip(c)
                              /\ At(k).kind \notin Blank
                              /\ \A i \in c .. k - 1 : At(i).kind \in Blank
  BY <1>3, <1>4 DEF Skip
<1>6. \A i \in c .. k - 1 : i \in 1 .. L /\ doc[i].kind \in Blank
  BY <1>1, <1>5 DEF At
<1> DEFINE U == {u \in 0 .. k - c : SolidTo(doc)[(c + u) - 1] = SolidTo(doc)[c - 1]}
<1>7. k - c \in Nat
  OBVIOUS
<1>8. 0 \in U
  <2>1. (c + 0) - 1 = c - 1 /\ 0 \in 0 .. k - c
    BY <1>7
  <2> QED
    BY <2>1
<1>9. \A u \in 0 .. (k - c) - 1 : u \in U => u + 1 \in U
  <2> SUFFICES ASSUME NEW u \in 0 .. (k - c) - 1, u \in U PROVE u + 1 \in U
    OBVIOUS
  <2>1. (c + (u + 1)) - 1 = c + u /\ c + u \in c .. k - 1 /\ u + 1 \in 0 .. k - c
    BY <1>7
  <2>2. c + u \in 1 .. L /\ doc[c + u].kind \in Blank
    BY <1>6, <2>1
  <2>3. SolidTo(doc)[c + u] = SolidTo(doc)[(c + u) - 1]
    BY <2>2, SolidUnfold
  <2> QED
    BY <2>1, <2>3
<1>10. \A u \in 0 .. k - c : u \in U
  <2> HIDE DEF U
  <2> QED
    BY <1>7, <1>8, <1>9, BoundedInduction
<1>11. SolidTo(doc)[k - 1] = SolidTo(doc)[c - 1]
  <2>1. k - c \in 0 .. k - c /\ c + (k - c) = k
    BY <1>7
  <2>2. k - c \in U
    BY <1>10, <2>1
  <2> QED
    BY <2>1, <2>2
<1>12. k <= L => doc[k].kind \notin Blank
  BY <1>5 DEF At
<1> QED
  BY <1>5, <1>6, <1>11, <1>12, <1>1 DEF Stands, Before

-----------------------------------------------------------------------------
(* Strings of a document, and what is left of them.                          *)

\* A document as the parser is called with it.
IsDocument(d) == d \in Seq(Lexeme) /\ \A i \in 1 .. Len(d) : IsLexeme(d[i])

\* The reader takes a string of the document for what it says, exactly if it
\* fits the buffer.
LEMMA StoredAt ==
    ASSUME IsDocument(doc), NEW c \in 1 .. Len(doc) + 1, NEW size \in Nat \ {0}
    PROVE  /\ Stored(c, size) # Unset <=> IsString(At(c), size)
           /\ Stored(c, size) # Unset => /\ c <= Len(doc)
                                         /\ Stored(c, size) = Meaning(At(c).raw)
                                         /\ Stored(c, size) \in Seq(Byte)
                                         /\ Len(Stored(c, size)) < size
<1>1. doc \in Seq(Lexeme) /\ Len(doc) \in Nat
  BY DEF IsDocument
<1>2. CASE c <= Len(doc) /\ doc[c].kind = "string"
  <2>1. At(c) = doc[c] /\ c \in 1 .. Len(doc)
    BY <1>1, <1>2 DEF At
  <2>2. doc[c] \in Lexeme /\ IsLexeme(doc[c])
    BY <1>1, <2>1 DEF IsDocument
  <2>3. doc[c].raw \in Seq(Byte) /\ doc[c].closed \in BOOLEAN /\ Delimited(doc[c].raw, doc[c].closed)
    BY <1>2, <2>2 DEF IsLexeme, Lexeme
  <2>4. PICK raw \in Seq(Byte), closed \in BOOLEAN :
           raw = doc[c].raw /\ closed = doc[c].closed /\ Delimited(raw, closed)
    BY <2>3
  <2>5. Stored(c, size) = StringToken(raw, closed, size)
    BY <1>2, <2>1, <2>4 DEF Stored
  <2>6. IsString(At(c), size) <=> Readable(raw, closed, size)
    BY <1>2, <2>1, <2>4 DEF IsString
  <2>7. /\ StringToken(raw, closed, size) =
              IF Readable(raw, closed, size) THEN Meaning(raw) ELSE Unset
        /\ Readable(raw, closed, size) => Meaning(raw) \in Seq(Byte)
    BY <2>4, TokenIsMeaning
  <2>8. Readable(raw, closed, size) => Meaning(raw) # Unset
    BY <2>7, UnsetAssumption
  <2>9. Readable(raw, closed, size) => Len(Meaning(raw)) < size
    BY DEF Readable
  <2> QED
    BY <1>2, <2>1, <2>4, <2>5, <2>6, <2>7, <2>8, <2>9
<1>3. CASE ~(c <= Len(doc) /\ doc[c].kind = "string")
  <2>1. At(c).kind # "string"
    BY <1>3, Kinds DEF At
  <2>2. Stored(c, size) = Unset
    BY <2>1 DEF Stored
  <2>3. ~IsString(At(c), size)
    BY <2>1 DEF IsString
  <2> QED
    BY <2>2, <2>3
<1> QED
  BY <1>2, <1>3

\* Trimming leaves nothing of a text of blanks, and of any other text no more
\* than there was.
LEMMA TrimLeaves ==
    ASSUME NEW t \in Seq(Byte)
    PROVE  /\ Trim(t) \in Seq(Byte) /\ Len(Trim(t)) <= Len(t)
           /\ Trim(t) = <<>> <=> \A i \in 1 .. Len(t) : t[i] \in Blanks
<1> DEFINE solid == {i \in 1 .. Len(t) : t[i] \notin Blanks}
<1>1. Len(t) \in Nat /\ solid \subseteq 0 .. Len(t) /\ solid \subseteq Nat
  OBVIOUS
<1>2. CASE solid = {}
  <2>1. Trim(t) = <<>>
    BY <1>2 DEF Trim
  <2> QED
    BY <1>1, <1>2, <2>1
<1>3. CASE solid # {}
  <2>1. \E i \in solid : \A j \in solid : i <= j
    <3> HIDE DEF solid
    <3> QED
      BY <1>1, <1>3, LeastElement
  <2>2. \E i \in solid : \A j \in solid : j <= i
    <3> HIDE DEF solid
    <3> QED
      BY <1>1, <1>3, GreatestElement
  <2> DEFINE a == CHOOSE i \in solid : \A j \in solid : i <= j
             b == CHOOSE i \in solid : \A j \in solid : i >= j
  <2>3. a \in solid /\ b \in solid /\ a <= b
    <3>1. a \in solid /\ \A j \in solid : a <= j
      <4> HIDE DEF solid
      <4> QED
        BY <2>1
    <3>2. PICK m \in solid : \A j \in solid : j <= m
      BY <2>2
    <3>3. \A j \in solid : m >= j
      BY <1>1, <3>2
    <3>4. b \in solid
      <4> HIDE DEF solid
      <4> QED
        BY <3>2, <3>3
    <3> HIDE DEF a, b
    <3> QED
      BY <3>1, <3>4
  <2>4. Trim(t) = SubSeq(t, a, b)
    BY <1>3 DEF Trim
  <2>5. a \in 1 .. Len(t) /\ b \in 1 .. Len(t) /\ a <= b
    BY <2>3
  <2> HIDE DEF a, b
  <2>6. SubSeq(t, a, b) \in Seq(Byte) /\ Len(SubSeq(t, a, b)) = b - a + 1
    BY <2>5
  <2> QED
    BY <1>3, <2>3, <2>4, <2>5, <2>6
<1> QED
  BY <1>2, <1>3

-----------------------------------------------------------------------------
(* Objects, field by field.                                                  *)

\* What stands at a place.
Opens(s, m) == s[m].kind = "{"
Closes(s, m) == s[m].kind = "}"
IsColon(s, m) == s[m].kind = ":"
IsComma(s, m) == s[m].kind = ","

NameOf(s, i) == Meaning(NameAt(s, i).raw)
ValueOf(s, i) == Meaning(ValueAt(s, i).raw)

\* The i-th field is one the parser knows.
FieldAt(s, i) ==
    /\ IsColon(s, 4 * i - 1)
    /\ \/ IsName(NameAt(s, i), KEY) /\ IsString(ValueAt(s, i), KeySize)
       \/ IsName(NameAt(s, i), KEY_ID) /\ IsString(ValueAt(s, i), KeyIdSize)

\* The value v is what the first n fields say of a name.
Holds(s, n, name, v) ==
    \/ v = Unset /\ \A i \in 1 .. n : NameOf(s, i) # name
    \/ v \in Seq(Byte) /\ \E i \in 1 .. n : NameOf(s, i) = name /\ v = ValueOf(s, i)

\* n fields have been read.
FieldsRead(s, n, k, id) ==
    /\ n \in 0 .. 2 /\ 1 <= Len(s) /\ 4 * n <= Len(s) /\ Opens(s, 1)
    /\ \A i \in 1 .. n : FieldAt(s, i)
    /\ n = 2 => IsComma(s, 5) /\ NameOf(s, 1) # NameOf(s, 2)
    /\ Holds(s, n, KEY, k) /\ Holds(s, n, KEY_ID, id)

\* An object of n fields, as the grammar has it.
ObjectOf(s, n) ==
    /\ Len(s) = 4 * n + 1
    /\ Opens(s, 1) /\ Closes(s, 4 * n + 1)
    /\ \A i \in 1 .. n :
          /\ IsColon(s, 4 * i - 1)
          /\ \/ /\ IsName(NameAt(s, i), KEY) /\ IsString(ValueAt(s, i), KeySize)
                /\ ~(ToSet(ValueOf(s, i)) \subseteq Blanks)
             \/ IsName(NameAt(s, i), KEY_ID) /\ IsString(ValueAt(s, i), KeyIdSize)
    /\ n = 2 => IsComma(s, 5) /\ NameOf(s, 1) # NameOf(s, 2)
    /\ \E i \in 1 .. n : IsName(NameAt(s, i), KEY)

\* The grammar's objects, in these words.
LEMMA KeyObjects == ASSUME NEW d PROVE IsKeyObject(d) <=> \E n \in 1 .. 2 : ObjectOf(Solid(d), n)
BY Zenon DEF IsKeyObject, ObjectOf, NameOf, ValueOf, Opens, Closes, IsColon, IsComma

\* The two names differ.
LEMMA TwoNames == KEY # KEY_ID
<1>1. Len(KEY) = 3 /\ Len(KEY_ID) = 6
  BY DEF KEY, KEY_ID
<1> QED
  BY <1>1

\* A field the parser knows has one of them.
LEMMA NamesOf ==
    ASSUME NEW s, NEW i, FieldAt(s, i)
    PROVE  /\ NameOf(s, i) \in {KEY, KEY_ID}
           /\ NameOf(s, i) = KEY => IsString(ValueAt(s, i), KeySize)
           /\ IsString(NameAt(s, i), FieldSize)
BY TwoNames DEF FieldAt, IsName, NameOf

\* A field more.
LEMMA FieldMore ==
    ASSUME NEW s \in Seq(Lexeme), NEW n \in 0 .. 2, NEW k, NEW id, FieldsRead(s, n, k, id),
           4 * (n + 1) <= Len(s), n > 0 => IsComma(s, 4 * n + 1),
           IsColon(s, 4 * (n + 1) - 1), IsString(NameAt(s, n + 1), FieldSize)
    PROVE  /\ NameOf(s, n + 1) = KEY /\ k = Unset /\ IsString(ValueAt(s, n + 1), KeySize)
                 /\ ValueOf(s, n + 1) \in Seq(Byte)
              => n + 1 \in 1 .. 2 /\ FieldsRead(s, n + 1, ValueOf(s, n + 1), id)
           /\ NameOf(s, n + 1) = KEY_ID /\ id = Unset /\ IsString(ValueAt(s, n + 1), KeyIdSize)
                 /\ ValueOf(s, n + 1) \in Seq(Byte)
              => n + 1 \in 1 .. 2 /\ FieldsRead(s, n + 1, k, ValueOf(s, n + 1))
<1>1. n + 1 \in 1 .. 3 /\ \A i \in 1 .. n + 1 : i \in 1 .. n \/ i = n + 1
  OBVIOUS
<1>2. \A i \in 1 .. n : FieldAt(s, i) /\ NameOf(s, i) \in {KEY, KEY_ID} /\ i \in 1 .. n + 1
  <2>1. \A i \in 1 .. n : i \in 1 .. n + 1
    OBVIOUS
  <2>2. \A i \in 1 .. n : FieldAt(s, i)
    BY DEF FieldsRead
  <2> QED
    BY <2>1, <2>2, NamesOf
<1>3. Holds(s, n, KEY, k) /\ Holds(s, n, KEY_ID, id)
  BY DEF FieldsRead
<1>4. n = 2 => k # Unset /\ id # Unset
  <2> SUFFICES ASSUME n = 2 PROVE k # Unset /\ id # Unset
    OBVIOUS
  <2>1. NameOf(s, 1) # NameOf(s, 2) /\ 1 \in 1 .. n /\ 2 \in 1 .. n
    BY DEF FieldsRead
  <2>2. /\ NameOf(s, 1) = KEY \/ NameOf(s, 2) = KEY
        /\ NameOf(s, 1) = KEY_ID \/ NameOf(s, 2) = KEY_ID
    BY <1>2, <2>1
  <2> QED
    BY <1>3, <2>1, <2>2, UnsetAssumption DEF Holds
<1>5. ASSUME NEW name \in {KEY, KEY_ID}, NEW size, NameOf(s, n + 1) = name,
             Holds(s, n, name, Unset), IsString(ValueAt(s, n + 1), size),
             ValueOf(s, n + 1) \in Seq(Byte), n # 2,
             NEW other \in {KEY, KEY_ID} \ {name}, NEW v, Holds(s, n, other, v),
             size = IF name = KEY THEN KeySize ELSE KeyIdSize
      PROVE  /\ \A i \in 1 .. n + 1 : FieldAt(s, i)
             /\ n + 1 = 2 => IsComma(s, 5) /\ NameOf(s, 1) # NameOf(s, 2)
             /\ Holds(s, n + 1, name, ValueOf(s, n + 1)) /\ Holds(s, n + 1, other, v)
  <2>1. \A i \in 1 .. n : NameOf(s, i) # name
    BY <1>5, UnsetAssumption DEF Holds
  <2>2. FieldAt(s, n + 1)
    BY <1>5, TwoNames DEF FieldAt, IsName, NameOf
  <2>3. n + 1 = 2 => IsComma(s, 5) /\ NameOf(s, 1) # NameOf(s, 2)
    <3> SUFFICES ASSUME n = 1 PROVE IsComma(s, 5) /\ NameOf(s, 1) # NameOf(s, 2)
      OBVIOUS
    <3>1. 4 * n + 1 = 5 /\ n + 1 = 2 /\ 1 \in 1 .. n
      OBVIOUS
    <3>2. IsComma(s, 5)
      BY <3>1
    <3> QED
      BY <1>5, <2>1, <3>1, <3>2
  <2>4. n + 1 \in 1 .. n + 1
    BY <1>1
  <2>5. Holds(s, n + 1, name, ValueOf(s, n + 1))
    BY <1>5, <2>4 DEF Holds
  <2>6. Holds(s, n + 1, other, v)
    BY <1>1, <1>2, <1>5 DEF Holds
  <2> QED
    BY <1>1, <1>2, <2>2, <2>3, <2>5, <2>6
<1>6. Opens(s, 1) /\ 1 <= Len(s)
  BY DEF FieldsRead
<1>7. ASSUME NameOf(s, n + 1) = KEY, k = Unset, IsString(ValueAt(s, n + 1), KeySize),
             ValueOf(s, n + 1) \in Seq(Byte)
      PROVE  n + 1 \in 1 .. 2 /\ FieldsRead(s, n + 1, ValueOf(s, n + 1), id)
  <2>1. n # 2 /\ n + 1 \in 1 .. 2 /\ n + 1 \in 0 .. 2
    BY <1>4, <1>7
  <2>2. /\ \A i \in 1 .. n + 1 : FieldAt(s, i)
        /\ n + 1 = 2 => IsComma(s, 5) /\ NameOf(s, 1) # NameOf(s, 2)
        /\ Holds(s, n + 1, KEY, ValueOf(s, n + 1)) /\ Holds(s, n + 1, KEY_ID, id)
    BY <1>3, <1>5, <1>7, <2>1, TwoNames
  <2> QED
    BY <1>6, <2>1, <2>2 DEF FieldsRead
<1>8. ASSUME NameOf(s, n + 1) = KEY_ID, id = Unset, IsString(ValueAt(s, n + 1), KeyIdSize),
             ValueOf(s, n + 1) \in Seq(Byte)
      PROVE  n + 1 \in 1 .. 2 /\ FieldsRead(s, n + 1, k, ValueOf(s, n + 1))
  <2>1. n # 2 /\ n + 1 \in 1 .. 2 /\ n + 1 \in 0 .. 2
    BY <1>4, <1>8
  <2>2. /\ \A i \in 1 .. n + 1 : FieldAt(s, i)
        /\ n + 1 = 2 => IsComma(s, 5) /\ NameOf(s, 1) # NameOf(s, 2)
        /\ Holds(s, n + 1, KEY_ID, ValueOf(s, n + 1)) /\ Holds(s, n + 1, KEY, k)
    BY <1>3, <1>5, <1>8, <2>1, TwoNames
  <2> QED
    BY <1>6, <2>1, <2>2 DEF FieldsRead
<1> QED
  BY <1>7, <1>8

\* An object has fields to come as long as no brace closes it, and the parser
\* has room for each.
LEMMA FieldToCome ==
    ASSUME NEW s \in Seq(Lexeme), NEW n \in 0 .. 2, NEW k, NEW id, FieldsRead(s, n, k, id),
           NEW N \in 1 .. 2, ObjectOf(s, N),
           n > 0 => 4 * n + 1 <= Len(s) /\ ~Closes(s, 4 * n + 1)
    PROVE  /\ 4 * (n + 1) + 1 <= Len(s) /\ n + 1 \in 1 .. 2
           /\ FieldAt(s, n + 1)
           /\ NameOf(s, n + 1) = KEY => k = Unset
           /\ NameOf(s, n + 1) = KEY_ID => id = Unset
<1>1. Len(s) = 4 * N + 1 /\ Closes(s, 4 * N + 1) /\ \A i \in 1 .. N : FieldAt(s, i)
  BY DEF ObjectOf, FieldAt
<1>2. n < N
  BY <1>1
<1>3. n + 1 \in 1 .. N /\ n + 1 \in 1 .. 2 /\ 4 * (n + 1) + 1 <= Len(s)
  BY <1>1, <1>2
<1>4. \A i \in 1 .. n : NameOf(s, i) # NameOf(s, n + 1)
  <2> SUFFICES ASSUME NEW i \in 1 .. n PROVE NameOf(s, i) # NameOf(s, n + 1)
    OBVIOUS
  <2>1. N = 2 /\ i = 1 /\ n + 1 = 2
    BY <1>2
  <2>2. NameOf(s, 1) # NameOf(s, 2)
    BY <2>1 DEF ObjectOf
  <2> QED
    BY <2>1, <2>2
<1>5. Holds(s, n, KEY, k) /\ Holds(s, n, KEY_ID, id)
  BY DEF FieldsRead
<1>6. /\ NameOf(s, n + 1) = KEY => k = Unset
      /\ NameOf(s, n + 1) = KEY_ID => id = Unset
  BY <1>4, <1>5 DEF Holds
<1> QED
  BY <1>1, <1>3, <1>6

\* What an object needs behind its last field, and all it needs.
LEMMA ObjectEnds ==
    ASSUME NEW s \in Seq(Lexeme), NEW n \in 1 .. 2, NEW k, NEW id, FieldsRead(s, n, k, id),
           4 * n + 1 <= Len(s), Closes(s, 4 * n + 1)
    PROVE  (\E N \in 1 .. 2 : ObjectOf(s, N)) <=>
              Len(s) = 4 * n + 1 /\ k # Unset /\ Trim(k) # <<>>
<1>1. Holds(s, n, KEY, k) /\ \A i \in 1 .. n : FieldAt(s, i)
  BY DEF FieldsRead
<1>2. \A i \in 1 .. n : NameOf(s, i) = KEY <=> IsName(NameAt(s, i), KEY)
  BY <1>1, NamesOf DEF IsName, NameOf
<1>3. ASSUME NEW i \in 1 .. n, NEW j \in 1 .. n, NameOf(s, i) = NameOf(s, j)
      PROVE  i = j
  <2>1. CASE n = 2
    BY <1>3, <2>1 DEF FieldsRead
  <2>2. CASE n = 1
    BY <2>2
  <2> QED
    BY <2>1, <2>2
<1>4. \A t \in Seq(Byte) : Trim(t) = <<>> <=> ToSet(t) \subseteq Blanks
  BY TrimLeaves DEF ToSet
<1>5. ASSUME NEW N \in 1 .. 2, ObjectOf(s, N)
      PROVE  Len(s) = 4 * n + 1 /\ k # Unset /\ Trim(k) # <<>>
  <2>1. Len(s) = 4 * N + 1
    BY <1>5 DEF ObjectOf
  <2>2. N = n
    <3>1. CASE n < N
      <4>1. n = 1 /\ N = 2 /\ 4 * n + 1 = 5
        BY <3>1
      <4>2. IsComma(s, 5)
        BY <1>5, <4>1 DEF ObjectOf
      <4> QED
        BY <4>1, <4>2 DEF Closes, IsComma
    <3>2. CASE n > N
      BY <2>1, <3>2
    <3> QED
      BY <3>1, <3>2
  <2>3. PICK i \in 1 .. n : IsName(NameAt(s, i), KEY)
    BY <1>5, <2>2 DEF ObjectOf
  <2>4. NameOf(s, i) = KEY
    BY <1>2, <2>3
  <2>5. k \in Seq(Byte) /\ k = ValueOf(s, i)
    BY <1>1, <1>3, <2>4 DEF Holds
  <2>6. ~(ToSet(ValueOf(s, i)) \subseteq Blanks)
    <3>1. ~IsName(NameAt(s, i), KEY_ID)
      BY <2>4, TwoNames DEF IsName, NameOf
    <3> QED
      BY <1>5, <2>2, <3>1 DEF ObjectOf
  <2> QED
    BY <1>4, <2>1, <2>2, <2>5, <2>6, UnsetAssumption
<1>6. ASSUME Len(s) = 4 * n + 1, k # Unset, Trim(k) # <<>>
      PROVE  ObjectOf(s, n)
  <2>1. PICK i \in 1 .. n : NameOf(s, i) = KEY /\ k = ValueOf(s, i) /\ k \in Seq(Byte)
    BY <1>1, <1>6 DEF Holds
  <2>2. IsName(NameAt(s, i), KEY)
    BY <1>2, <2>1
  <2>3. ~(ToSet(k) \subseteq Blanks)
    BY <1>4, <1>6, <2>1
  <2>4. ASSUME NEW j \in 1 .. n
        PROVE  /\ IsColon(s, 4 * j - 1)
               /\ \/ /\ IsName(NameAt(s, j), KEY) /\ IsString(ValueAt(s, j), KeySize)
                     /\ ~(ToSet(ValueOf(s, j)) \subseteq Blanks)
                  \/ IsName(NameAt(s, j), KEY_ID) /\ IsString(ValueAt(s, j), KeyIdSize)
    <3>1. FieldAt(s, j)
      BY <1>1
    <3>2. IsName(NameAt(s, j), KEY) => j = i
      BY <1>2, <1>3, <2>1
    <3> QED
      BY <2>1, <2>3, <3>1, <3>2 DEF FieldAt
  <2>5. Opens(s, 1) /\ (n = 2 => IsComma(s, 5) /\ NameOf(s, 1) # NameOf(s, 2))
    BY DEF FieldsRead
  <2> QED
    BY <1>6, <2>2, <2>4, <2>5 DEF ObjectOf
<1> QED
  BY <1>5, <1>6

\* The text of a field is what has been read for it.
LEMMA FieldIs ==
    ASSUME NEW d, NEW n \in 1 .. 2, NEW name, NEW v, Holds(Solid(d), n, name, v),
           Len(Solid(d)) = 4 * n + 1,
           n = 2 => NameOf(Solid(d), 1) # NameOf(Solid(d), 2)
    PROVE  FieldOf(d, name) = v
<1> DEFINE s == Solid(d)
           at == {i \in 1 .. 2 : 4 * i < Len(s) /\ NameOf(s, i) = name}
<1>1. at = {i \in 1 .. n : NameOf(s, i) = name}
  <2>1. \A i \in 1 .. 2 : 4 * i < 4 * n + 1 <=> i \in 1 .. n
    OBVIOUS
  <2>2. \A i \in 1 .. n : i \in 1 .. 2
    OBVIOUS
  <2> QED
    BY <2>1, <2>2
<1>2. FieldOf(d, name) = IF at = {} THEN Unset ELSE ValueOf(s, CHOOSE i \in at : TRUE)
  BY DEF FieldOf, NameOf, ValueOf
<1>3. CASE v = Unset /\ \A i \in 1 .. n : NameOf(s, i) # name
  BY <1>1, <1>2, <1>3
<1>4. CASE \E i \in 1 .. n : NameOf(s, i) = name /\ v = ValueOf(s, i)
  <2>1. PICK i \in 1 .. n : NameOf(s, i) = name /\ v = ValueOf(s, i)
    BY <1>4
  <2>2. \A j \in at : j = i
    BY <1>1, <2>1
  <2>3. i \in at
    BY <1>1, <2>1
  <2> HIDE DEF at, s
  <2>4. (CHOOSE j \in at : TRUE) = i
    BY <2>2, <2>3
  <2> QED
    BY <1>2, <2>1, <2>3, <2>4
<1> QED
  BY <1>3, <1>4 DEF Holds

-----------------------------------------------------------------------------
(* Texts put together of pieces.                                             *)

\* f holds the pieces ss put together, after each number of them.
Flattens(f, S, ss) ==
    /\ f \in [0 .. Len(ss) -> Seq(S)] /\ f[0] = <<>>
    /\ \A i \in 1 .. Len(ss) : f[i] = f[i - 1] \o ss[i]

\* FlattenSeq puts them together from left to right.
LEMMA FlattenUnfold ==
    ASSUME NEW S, NEW ss \in Seq(Seq(S))
    PROVE  \E f : Flattens(f, S, ss) /\ FlattenSeq(ss) = f[Len(ss)]
<1> DEFINE L == Len(ss)
           Q == Seq(S)
           step == [i \in 1 .. L |-> [t \in Q |-> t \o ss[i]]]
<1>1. L \in Nat /\ \A i \in 1 .. L : ss[i] \in Q
  OBVIOUS
<1>2. \A i \in 1 .. L, t \in Q : t \o ss[i] \in Q
  <2> TAKE i \in 1 .. L, t \in Q
  <2>1. PICK x \in Seq(S) : x = ss[i]
    BY <1>1
  <2> QED
    BY <2>1
<1>3. step \in [1 .. L -> [Q -> Q]] /\ <<>> \in Q
  <2>1. step \in [1 .. L -> [Q -> Q]]
    <3> HIDE DEF Q
    <3> QED
      BY <1>2
  <2> QED
    BY <2>1
<1>4. PICK f \in [0 .. L -> Q] : f[0] = <<>> /\ \A i \in 1 .. L : f[i] = step[i][f[i - 1]]
  <2>1. Iterates(Q, <<>>, L, step) # {}
    <3> HIDE DEF step, Q
    <3> QED
      BY <1>1, <1>3, PrimitiveRecursion
  <2> QED
    BY <2>1 DEF Iterates
<1> HIDE DEF Q
<1>5. \A i \in 1 .. L : f[i - 1] \in Q /\ f[i] = f[i - 1] \o ss[i]
  <2> TAKE i \in 1 .. L
  <2>1. f[i - 1] \in Q
    <3>1. i - 1 \in 0 .. L
      BY <1>1
    <3> QED
      BY <3>1, Zenon
  <2>2. step[i][f[i - 1]] = f[i - 1] \o ss[i]
    BY <2>1, Zenon
  <2> HIDE DEF step
  <2> QED
    BY <1>4, <2>1, <2>2
<1>6. Flattens(f, S, ss)
  BY <1>4, <1>5 DEF Flattens, Q
<1>7. CASE L = 0
  BY <1>4, <1>6, <1>7 DEF FlattenSeq
<1>8. CASE L # 0
  <2> DEFINE body(g) == [i \in 1 .. L |-> IF i = 1 THEN ss[i] ELSE g[i - 1] \o ss[i]]
             h == [i \in 1 .. L |-> f[i]]
             flatten == CHOOSE g : g = body(g)
  <2>1. f[1] = ss[1]
    <3>1. 1 \in 1 .. L /\ 1 - 1 = 0
      BY <1>1, <1>8
    <3>2. PICK x \in Seq(S) : x = ss[1]
      BY <1>1, <3>1 DEF Q
    <3>3. f[1] = <<>> \o x
      BY <1>4, <1>5, <3>1, <3>2
    <3> QED
      BY <3>2, <3>3
  <2>2. h = body(h)
    <3>1. ASSUME NEW i \in 1 .. L PROVE h[i] = IF i = 1 THEN ss[i] ELSE h[i - 1] \o ss[i]
      <4>1. CASE i = 1
        BY <2>1, <4>1
      <4>2. CASE i # 1
        <5>1. i - 1 \in 1 .. L
          BY <4>2
        <5> QED
          BY <1>5, <4>2, <5>1
      <4> QED
        BY <4>1, <4>2
    <3>2. h = [i \in 1 .. L |-> h[i]]
      OBVIOUS
    <3> HIDE DEF h
    <3> QED
      BY <3>1, <3>2
  <2>3. flatten = body(flatten)
    <3> HIDE DEF body, h
    <3> QED
      BY <2>2
  <2>4. \A i \in 1 .. L : flatten[i] = IF i = 1 THEN ss[i] ELSE flatten[i - 1] \o ss[i]
    <3> HIDE DEF flatten
    <3> QED
      BY <2>3
  <2>5. FlattenSeq(ss) = flatten[L]
    BY <1>8 DEF FlattenSeq
  <2> HIDE DEF flatten
  <2> DEFINE T == {i \in 0 .. L - 1 : flatten[i + 1] = f[i + 1]}
  <2>6. 0 \in T
    <3>1. 0 \in 0 .. L - 1 /\ 0 + 1 = 1 /\ 1 \in 1 .. L
      BY <1>1, <1>8
    <3>2. flatten[1] = ss[1]
      BY <2>4, <3>1
    <3> QED
      BY <2>1, <3>1, <3>2
  <2>7. \A i \in 0 .. (L - 1) - 1 : i \in T => i + 1 \in T
    <3> SUFFICES ASSUME NEW i \in 0 .. (L - 1) - 1, i \in T PROVE i + 1 \in T
      OBVIOUS
    <3>1. /\ (i + 1) + 1 \in 1 .. L /\ (i + 1) + 1 # 1 /\ ((i + 1) + 1) - 1 = i + 1
          /\ i + 1 \in 0 .. L - 1
      BY <1>1
    <3>2. flatten[(i + 1) + 1] = flatten[i + 1] \o ss[(i + 1) + 1]
      BY <2>4, <3>1
    <3>3. f[(i + 1) + 1] = f[i + 1] \o ss[(i + 1) + 1]
      BY <1>5, <3>1
    <3> QED
      BY <3>1, <3>2, <3>3
  <2>8. \A i \in 0 .. L - 1 : i \in T
    <3>1. L - 1 \in Nat
      BY <1>1, <1>8
    <3> HIDE DEF T
    <3> QED
      BY <2>6, <2>7, <3>1, BoundedInduction
  <2>9. L - 1 \in T /\ (L - 1) + 1 = L
    <3>1. L - 1 \in 0 .. L - 1 /\ (L - 1) + 1 = L
      BY <1>1, <1>8
    <3> HIDE DEF T
    <3> QED
      BY <2>8, <3>1
  <2>10. flatten[L] = f[L]
    BY <2>9
  <2> QED
    BY <1>6, <2>5, <2>10
<1> QED
  BY <1>7, <1>8

\* There is one such function.
LEMMA FlattensOnce ==
    ASSUME NEW S, NEW ss \in Seq(Seq(S)), NEW f, Flattens(f, S, ss)
    PROVE  FlattenSeq(ss) = f[Len(ss)]
<1>1. PICK h : Flattens(h, S, ss) /\ FlattenSeq(ss) = h[Len(ss)]
  BY FlattenUnfold
<1> DEFINE T == {i \in 0 .. Len(ss) : f[i] = h[i]}
<1>2. Len(ss) \in Nat
  OBVIOUS
<1>3. 0 \in T
  BY <1>1, <1>2 DEF Flattens
<1>4. \A i \in 0 .. Len(ss) - 1 : i \in T => i + 1 \in T
  <2> SUFFICES ASSUME NEW i \in 0 .. Len(ss) - 1, i \in T PROVE i + 1 \in T
    OBVIOUS
  <2>1. i + 1 \in 1 .. Len(ss) /\ (i + 1) - 1 = i /\ i + 1 \in 0 .. Len(ss)
    BY <1>2
  <2>2. f[i + 1] = f[i] \o ss[i + 1]
    BY <2>1 DEF Flattens
  <2>3. h[i + 1] = h[i] \o ss[i + 1]
    BY <1>1, <2>1 DEF Flattens
  <2> QED
    BY <2>1, <2>2, <2>3
<1>5. \A i \in 0 .. Len(ss) : i \in T
  <2> HIDE DEF T
  <2> QED
    BY <1>2, <1>3, <1>4, BoundedInduction
<1> QED
  BY <1>1, <1>2, <1>5

\* Three sequences, put together from the left or from the right.
LEMMA Associate ==
    ASSUME NEW S
    PROVE  \A r \in Seq(S), s \in Seq(S), t \in Seq(S) : (r \o s) \o t = r \o (s \o t)
<1> TAKE r \in Seq(S), s \in Seq(S), t \in Seq(S)
<1> QED
  BY ConcatAssociative, SMT

\* Putting together goes piece by piece.
LEMMA FlattenConcat ==
    ASSUME NEW S, NEW a \in Seq(Seq(S)), NEW b \in Seq(Seq(S))
    PROVE  /\ FlattenSeq(a) \in Seq(S)
           /\ FlattenSeq(a \o b) = FlattenSeq(a) \o FlattenSeq(b)
<1>0. \A r \in Seq(S), s \in Seq(S), t \in Seq(S) : (r \o s) \o t = r \o (s \o t)
  BY Associate
<1> DEFINE m == Len(a)
           n == Len(b)
<1>1. m \in Nat /\ n \in Nat
  OBVIOUS
<1>2. PICK f : Flattens(f, S, a) /\ FlattenSeq(a) = f[m]
  BY FlattenUnfold
<1>3. PICK h : Flattens(h, S, b) /\ FlattenSeq(b) = h[n]
  BY FlattenUnfold
<1>4. PICK ab \in Seq(Seq(S)) : ab = a \o b
  <2> DEFINE Q == Seq(S)
  <2>1. a \o b \in Seq(Q)
    <3>1. a \in Seq(Q) /\ b \in Seq(Q)
      OBVIOUS
    <3> HIDE DEF Q
    <3> QED
      BY <3>1
  <2> QED
    BY <2>1
<1>5. /\ Len(ab) = m + n
      /\ \A i \in 1 .. m : ab[i] = a[i]
      /\ \A i \in m + 1 .. m + n : ab[i] = b[i - m]
  <2> DEFINE Q == Seq(S)
  <2>1. a \in Seq(Q) /\ b \in Seq(Q)
    OBVIOUS
  <2> HIDE DEF Q
  <2> QED
    BY <1>4, <2>1
<1>7. \A i \in 0 .. n : h[i] \in Seq(S)
  <2>1. h \in [0 .. n -> Seq(S)]
    BY <1>3 DEF Flattens
  <2> QED
    BY <2>1, Zenon
<1>8. \A i \in 0 .. m : f[i] \in Seq(S)
  <2>1. f \in [0 .. m -> Seq(S)]
    BY <1>2 DEF Flattens
  <2> QED
    BY <2>1, Zenon
<1>6. PICK x \in Seq(S) : x = f[m]
  BY <1>1, <1>8
<1>9. \A i \in 1 .. n : b[i] \in Seq(S) /\ h[i] = h[i - 1] \o b[i]
  <2>1. \A i \in 1 .. n : b[i] \in Seq(S)
    <3> DEFINE Q == Seq(S)
    <3>1. b \in Seq(Q)
      OBVIOUS
    <3> HIDE DEF Q
    <3>2. \A i \in 1 .. n : b[i] \in Q
      BY <3>1
    <3> QED
      BY <3>2 DEF Q
  <2>2. \A i \in 1 .. n : h[i] = h[i - 1] \o b[i]
    BY <1>3, Zenon DEF Flattens
  <2> QED
    BY <2>1, <2>2, Zenon
<1> DEFINE q == [i \in 0 .. m + n |-> IF i <= m THEN f[i] ELSE x \o h[i - m]]
<1> HIDE DEF m, n
<1>10. q \in [0 .. m + n -> Seq(S)]
  <2>1. ASSUME NEW i \in 0 .. m + n PROVE (IF i <= m THEN f[i] ELSE x \o h[i - m]) \in Seq(S)
    <3>1. CASE i <= m
      BY <1>1, <1>8, <3>1
    <3>2. CASE ~(i <= m)
      <4>1. i - m \in 0 .. n
        BY <1>1, <3>2
      <4>2. PICK y \in Seq(S) : y = h[i - m]
        BY <1>7, <4>1
      <4> QED
        BY <3>2, <4>2
    <3> QED
      BY <3>1, <3>2
  <2> QED
    BY <2>1
<1>11. \A i \in 0 .. m : q[i] = f[i]
  BY <1>1
<1>12. \A i \in 0 .. n : q[m + i] = x \o h[i]
  <2> TAKE i \in 0 .. n
  <2>1. CASE i = 0
    <3>1. q[m + i] = x
      BY <1>1, <1>6, <2>1
    <3>2. h[i] = <<>>
      BY <1>3, <2>1 DEF Flattens
    <3>3. x \o <<>> = x
      OBVIOUS
    <3> QED
      BY <3>1, <3>2, <3>3
  <2>2. CASE i # 0
    <3>1. m + i \in 0 .. m + n /\ ~(m + i <= m) /\ (m + i) - m = i
      BY <1>1, <2>2
    <3> QED
      BY <3>1
  <2> QED
    BY <2>1, <2>2
<1> HIDE DEF q
<1>13. ASSUME NEW i \in 1 .. m + n PROVE q[i] = q[i - 1] \o ab[i]
  <2>1. CASE i <= m
    <3>1. i \in 1 .. m /\ i \in 0 .. m /\ i - 1 \in 0 .. m
      BY <1>1, <2>1
    <3>2. f[i] = f[i - 1] \o a[i]
      BY <1>2, <3>1 DEF Flattens, m
    <3> QED
      BY <1>5, <1>11, <3>1, <3>2
  <2>2. CASE ~(i <= m)
    <3>1. PICK j \in 1 .. n : j = i - m
      BY <1>1, <2>2
    <3>2. i \in m + 1 .. m + n /\ i = m + j /\ i - 1 = m + (j - 1) /\ j - 1 \in 0 .. n /\ j \in 0 .. n
      BY <1>1, <2>2, <3>1
    <3>3. q[i] = x \o h[j] /\ q[i - 1] = x \o h[j - 1] /\ ab[i] = b[j]
      BY <1>5, <1>12, <3>1, <3>2
    <3>4. PICK y \in Seq(S), z \in Seq(S) : y = h[j - 1] /\ z = b[j] /\ h[j] = y \o z
      BY <1>7, <1>9, <3>2
    <3>5. (x \o y) \o z = x \o (y \o z)
      BY <1>0, Zenon
    <3>6. q[i] = x \o (y \o z) /\ q[i - 1] \o ab[i] = (x \o y) \o z
      BY <3>3, <3>4, Zenon
    <3> QED
      BY <3>5, <3>6, Zenon
  <2> QED
    BY <2>1, <2>2
<1>14. Flattens(q, S, ab)
  <2>1. q[0] = <<>>
    BY <1>1, <1>2, <1>11 DEF Flattens
  <2>2. \A i \in 1 .. Len(ab) : q[i] = q[i - 1] \o ab[i]
    BY <1>5, <1>13
  <2> QED
    BY <1>5, <1>10, <2>1, <2>2 DEF Flattens
<1>15. FlattenSeq(ab) = q[m + n]
  BY <1>5, <1>14, FlattensOnce
<1>16. q[m + n] = x \o h[n]
  <2>1. n \in 0 .. n
    BY <1>1
  <2> QED
    BY <1>12, <2>1
<1> QED
  BY <1>2, <1>3, <1>4, <1>6, <1>15, <1>16

\* What is put together of nothing, and of one piece.
LEMMA FlattenShort ==
    ASSUME NEW S
    PROVE  /\ FlattenSeq(<<>>) = <<>>
           /\ \A x \in Seq(S) : FlattenSeq(<<x>>) = x
<1>1. FlattenSeq(<<>>) = <<>>
  BY DEF FlattenSeq
<1>2. ASSUME NEW x \in Seq(S) PROVE FlattenSeq(<<x>>) = x
  <2> DEFINE ss == <<x>>
             f == [i \in 0 .. 1 |-> IF i = 0 THEN <<>> ELSE x]
  <2>1. ss \in Seq(Seq(S)) /\ Len(ss) = 1 /\ ss[1] = x
    OBVIOUS
  <2>2. f \in [0 .. 1 -> Seq(S)] /\ f[0] = <<>> /\ f[1] = x
    OBVIOUS
  <2>3. <<>> \o x = x
    OBVIOUS
  <2> HIDE DEF ss, f
  <2>4. \A i \in 1 .. 1 : i = 1 /\ i - 1 = 0
    OBVIOUS
  <2>5. Flattens(f, S, ss)
    BY <2>1, <2>2, <2>3, <2>4 DEF Flattens
  <2> QED
    BY <2>1, <2>2, <2>5, FlattensOnce DEF ss
<1> QED
  BY <1>1, <1>2

-----------------------------------------------------------------------------
(* Key text: the bytes of a document.                                        *)

BytesOf(x) ==
    CASE x.kind # "string" -> <<MarkByte[x.kind]>>
      [] OTHER -> <<Quote>> \o x.raw \o (IF x.closed THEN <<Quote>> ELSE <<>>)
Pieces(d) == [i \in 1 .. Len(d) |-> BytesOf(d[i])]

\* The bytes of the marks.
LEMMA MarkBytes ==
    \A m \in DOMAIN MarkByte : /\ MarkByte[m] \in Byte
                               /\ m \in Blank <=> MarkByte[m] \in Blanks
<1>1. TAKE m \in DOMAIN MarkByte
<1>2. m \in {"{", "}", ":", ",", "other", "space", "vtab"}
  BY Kinds
<1>3. MarkByte[m] = CASE m = "{" -> 123 [] m = "}" -> 125 [] m = ":" -> 58 [] m = "," -> 44
                      [] m = "space" -> Space [] m = "vtab" -> VT [] m = "other" -> 120
  BY <1>2 DEF MarkByte, Blank
<1>4. MarkByte[m] \in Byte
  <2>1. MarkByte[m] \in {123, 125, 58, 44, 120, Space, VT}
    BY <1>2, <1>3
  <2> QED
    BY <2>1 DEF Byte, Space, VT
<1>5. CASE m \in {"space", "vtab"}
  <2>1. MarkByte[m] \in {Space, VT}
    BY <1>3, <1>5
  <2> QED
    BY <1>4, <1>5, <2>1 DEF Blank, Blanks
<1>6. CASE m \notin {"space", "vtab"}
  <2>1. MarkByte[m] \in {123, 125, 58, 44, 120}
    BY <1>2, <1>3, <1>6
  <2>2. MarkByte[m] \notin Blanks
    BY <2>1 DEF Blanks, Space, VT, HT, LF, FF, CR
  <2> QED
    BY <1>4, <1>6, <2>2 DEF Blank
<1> QED
  BY <1>5, <1>6

\* A lexeme is a byte at least, and its first one tells whether it is blank.
LEMMA PieceType ==
    ASSUME NEW x \in Lexeme
    PROVE  /\ BytesOf(x) \in Seq(Byte) /\ BytesOf(x) # <<>> /\ Len(BytesOf(x)) >= 1
           /\ x.kind \in Blank => BytesOf(x) \in Seq(Blanks)
           /\ x.kind \notin Blank => BytesOf(x)[1] \notin Blanks
<1>1. x.kind \in DOMAIN MarkByte \cup {"string"} /\ x.raw \in Seq(Byte)
  BY DEF Lexeme
<1>2. CASE x.kind # "string"
  <2>1. PICK b \in Byte : b = MarkByte[x.kind] /\ (x.kind \in Blank <=> b \in Blanks)
    BY <1>1, <1>2, MarkBytes
  <2>2. BytesOf(x) = <<b>>
    BY <1>2, <2>1 DEF BytesOf
  <2>3. <<b>> \in Seq(Byte) /\ Len(<<b>>) = 1 /\ <<b>>[1] = b /\ <<b>> # <<>>
    OBVIOUS
  <2>4. b \in Blanks => <<b>> \in Seq(Blanks)
    OBVIOUS
  <2> QED
    BY <2>1, <2>2, <2>3, <2>4
<1>3. CASE x.kind = "string"
  <2>1. Quote \in Byte /\ Quote \notin Blanks
    BY DEF Quote, Byte, Blanks, HT, LF, VT, FF, CR, Space
  <2>2. PICK raw \in Seq(Byte) : raw = x.raw
    BY <1>1
  <2>3. PICK tail \in Seq(Byte) : tail = IF x.closed THEN <<Quote>> ELSE <<>>
    <3>1. <<Quote>> \in Seq(Byte) /\ <<>> \in Seq(Byte)
      BY <2>1
    <3> QED
      BY <3>1, Zenon
  <2>4. BytesOf(x) = <<Quote>> \o raw \o tail
    BY <1>3, <2>2, <2>3 DEF BytesOf
  <2>5. PICK q \in Byte : q = Quote
    BY <2>1
  <2>6. <<q>> \o raw \in Seq(Byte) /\ Len(<<q>> \o raw) >= 1 /\ (<<q>> \o raw)[1] = q
    OBVIOUS
  <2>7. PICK front \in Seq(Byte) : front = <<q>> \o raw
    BY <2>6
  <2>8. front \o tail \in Seq(Byte) /\ Len(front \o tail) >= 1 /\ (front \o tail)[1] = q
    BY <2>6, <2>7
  <2>9. front \o tail # <<>>
    BY <2>8
  <2>10. "string" \notin Blank
    BY DEF Blank
  <2> QED
    BY <1>3, <2>1, <2>4, <2>5, <2>7, <2>8, <2>9, <2>10
<1> QED
  BY <1>2, <1>3

\* The bytes of a document are those of its lexemes.
LEMMA SpellingPieces ==
    ASSUME NEW d \in Seq(Lexeme)
    PROVE  /\ Spelling(d) = FlattenSeq(Pieces(d))
           /\ Pieces(d) \in Seq(Seq(Byte))
           /\ Len(Pieces(d)) = Len(d)
           /\ \A i \in 1 .. Len(d) : Pieces(d)[i] = BytesOf(d[i])
           /\ Spelling(d) \in Seq(Byte)
<1>1. Len(d) \in Nat /\ \A i \in 1 .. Len(d) : d[i] \in Lexeme
  OBVIOUS
<1>2. \A i \in 1 .. Len(d) : BytesOf(d[i]) \in Seq(Byte)
  BY <1>1, PieceType
<1>3. Pieces(d) \in Seq(Seq(Byte)) /\ Len(Pieces(d)) = Len(d)
  <2> DEFINE Q == Seq(Byte)
             b(i) == BytesOf(d[i])
  <2>1. \A i \in 1 .. Len(d) : b(i) \in Q
    BY <1>2
  <2> HIDE DEF Q, b
  <2>2. [i \in 1 .. Len(d) |-> b(i)] \in Seq(Q) /\ Len([i \in 1 .. Len(d) |-> b(i)]) = Len(d)
    BY <1>1, <2>1
  <2> QED
    BY <2>2 DEF Q, b, Pieces
<1>4. Spelling(d) = FlattenSeq(Pieces(d))
  BY DEF Spelling, Pieces, BytesOf
<1>5. \A i \in 1 .. Len(d) : Pieces(d)[i] = BytesOf(d[i])
  BY DEF Pieces
<1>6. FlattenSeq(Pieces(d)) \in Seq(Byte)
  BY <1>3, FlattenConcat
<1> QED
  BY <1>3, <1>4, <1>5, <1>6

\* Part of a sequence.
LEMMA PartOf ==
    ASSUME NEW S, NEW s \in Seq(S), NEW a \in 1 .. Len(s) + 1, NEW b \in a - 1 .. Len(s)
    PROVE  /\ SubSeq(s, a, b) \in Seq(S) /\ Len(SubSeq(s, a, b)) = b - a + 1
           /\ \A i \in 1 .. b - a + 1 : a + i - 1 \in 1 .. Len(s) /\ SubSeq(s, a, b)[i] = s[a + i - 1]
<1>1. Len(s) \in Nat /\ a \in Int /\ b \in Int
  OBVIOUS
<1>2. \A i \in a .. b : i \in 1 .. Len(s) /\ s[i] \in S
  <2>1. \A i \in a .. b : i \in 1 .. Len(s)
    BY <1>1
  <2> QED
    BY <2>1, ElementOfSeq
<1>3. /\ SubSeq(s, a, b) \in Seq(S)
      /\ Len(SubSeq(s, a, b)) = IF a <= b THEN b - a + 1 ELSE 0
      /\ \A i \in 1 .. b - a + 1 : SubSeq(s, a, b)[i] = s[a + i - 1]
  BY <1>1, <1>2, SubSeqProperties
<1>4. Len(SubSeq(s, a, b)) = b - a + 1
  <2>1. CASE a <= b
    BY <1>3, <2>1
  <2>2. CASE ~(a <= b)
    <3>1. b - a + 1 = 0
      BY <1>1, <2>2
    <3> QED
      BY <1>3, <2>2, <3>1
  <2> QED
    BY <2>1, <2>2
<1>5. \A i \in 1 .. b - a + 1 : a + i - 1 \in 1 .. Len(s)
  BY <1>1
<1> QED
  BY <1>3, <1>4, <1>5

\* The bytes of a document are those of its blanks, then those of the rest.
LEMMA SpellingSplit ==
    ASSUME NEW d \in Seq(Lexeme), NEW c \in 1 .. Len(d) + 1
    PROVE  /\ SubSeq(d, 1, c - 1) \in Seq(Lexeme) /\ SubSeq(d, c, Len(d)) \in Seq(Lexeme)
           /\ Spelling(d) = Spelling(SubSeq(d, 1, c - 1)) \o Spelling(SubSeq(d, c, Len(d)))
<1> DEFINE Q == Seq(Byte)
           L == Len(d)
<1>1. L \in Nat /\ c - 1 \in 0 .. L /\ c - 1 \in c - 1 .. L /\ L \in c - 1 .. L
      /\ 1 \in 1 .. L + 1 /\ c - 1 \in 1 - 1 .. L /\ (c - 1) + 1 = c
  OBVIOUS
<1>2. PICK pd \in Seq(Q) : pd = Pieces(d) /\ Len(pd) = L /\ \A i \in 1 .. L : pd[i] = BytesOf(d[i])
  BY SpellingPieces
<1>3. ASSUME NEW a \in 1 .. L + 1, NEW b \in a - 1 .. L
      PROVE  SubSeq(d, a, b) \in Seq(Lexeme) /\ Pieces(SubSeq(d, a, b)) = SubSeq(pd, a, b)
  <2>1. PICK x \in Seq(Lexeme) :
           /\ x = SubSeq(d, a, b) /\ Len(x) = b - a + 1
           /\ \A i \in 1 .. b - a + 1 : a + i - 1 \in 1 .. L /\ x[i] = d[a + i - 1]
    <3>1. /\ SubSeq(d, a, b) \in Seq(Lexeme) /\ Len(SubSeq(d, a, b)) = b - a + 1
          /\ \A i \in 1 .. b - a + 1 : a + i - 1 \in 1 .. L /\ SubSeq(d, a, b)[i] = d[a + i - 1]
      <4> HIDE DEF Q
      <4> QED
        BY PartOf, Zenon
    <3> HIDE DEF L
    <3> QED
      BY <3>1, Zenon
  <2>2. PICK px \in Seq(Q) : /\ px = Pieces(x) /\ Len(px) = Len(x)
                             /\ \A i \in 1 .. Len(x) : px[i] = BytesOf(x[i])
    BY SpellingPieces
  <2>3. PICK y \in Seq(Q) : /\ y = SubSeq(pd, a, b) /\ Len(y) = b - a + 1
                            /\ \A i \in 1 .. b - a + 1 : y[i] = pd[a + i - 1]
    <3>1. /\ SubSeq(pd, a, b) \in Seq(Q) /\ Len(SubSeq(pd, a, b)) = b - a + 1
          /\ \A i \in 1 .. b - a + 1 : SubSeq(pd, a, b)[i] = pd[a + i - 1]
      <4> HIDE DEF Q, L
      <4> QED
        BY <1>2, PartOf, Zenon
    <3> HIDE DEF L, Q
    <3> QED
      BY <3>1, Zenon
  <2> HIDE DEF Q, L
  <2>4. \A i \in 1 .. Len(px) : px[i] = y[i]
    BY <1>2, <2>1, <2>2, <2>3
  <2>5. px = y
    BY <2>1, <2>2, <2>3, <2>4, SeqEqual
  <2> QED
    BY <2>1, <2>2, <2>3, <2>5
<1>4. Pieces(SubSeq(d, 1, c - 1)) = SubSeq(pd, 1, c - 1) /\ SubSeq(d, 1, c - 1) \in Seq(Lexeme)
  BY <1>1, <1>3
<1>5. Pieces(SubSeq(d, c, L)) = SubSeq(pd, c, L) /\ SubSeq(d, c, L) \in Seq(Lexeme)
  BY <1>1, <1>3
<1>6. SubSeq(pd, 1, c - 1) \o SubSeq(pd, c, L) = pd
  <2> HIDE DEF Q, L
  <2>1. SubSeq(pd, 1, c - 1) \o SubSeq(pd, (c - 1) + 1, L) = SubSeq(pd, 1, L)
    BY <1>1, <1>2, ConcatAdjacentSubSeq
  <2>2. SubSeq(pd, 1, L) = pd
    BY <1>2, SubSeqFull
  <2> QED
    BY <1>1, <2>1, <2>2
<1> DEFINE x == SubSeq(d, 1, c - 1)
           y == SubSeq(d, c, L)
<1>7. Spelling(x) = FlattenSeq(Pieces(x)) /\ Spelling(y) = FlattenSeq(Pieces(y))
      /\ Pieces(x) \in Seq(Seq(Byte)) /\ Pieces(y) \in Seq(Seq(Byte))
  BY <1>4, <1>5, SpellingPieces
<1>8. Spelling(d) = FlattenSeq(Pieces(x) \o Pieces(y))
  BY <1>2, <1>4, <1>5, <1>6, SpellingPieces
<1> HIDE DEF x, y
<1>9. Spelling(d) = Spelling(x) \o Spelling(y)
  <2>1. FlattenSeq(Pieces(x) \o Pieces(y)) = FlattenSeq(Pieces(x)) \o FlattenSeq(Pieces(y))
    BY <1>7, FlattenConcat
  <2> QED
    BY <1>7, <1>8, <2>1, Zenon
<1> QED
  BY <1>4, <1>5, <1>9 DEF x, y

\* Blanks ahead of a text are trimmed.
LEMMA TrimAhead ==
    ASSUME NEW x \in Seq(Blanks), NEW y \in Seq(Byte), x \o y \in Seq(Byte)
    PROVE  Trim(x \o y) = Trim(y)
<1> DEFINE m == Len(x)
           n == Len(y)
           ahead == {i \in 1 .. Len(x \o y) : (x \o y)[i] \notin Blanks}
           solid == {i \in 1 .. n : y[i] \notin Blanks}
           first(S) == CHOOSE i \in S : \A j \in S : i <= j
           last(S) == CHOOSE i \in S : \A j \in S : i >= j
<1>1. m \in Nat /\ n \in Nat /\ solid \subseteq 0 .. n /\ solid \subseteq Nat
  OBVIOUS
<1>2. Len(x \o y) = m + n /\ \A i \in 1 .. m + n : (x \o y)[i] = IF i <= m THEN x[i] ELSE y[i - m]
  OBVIOUS
<1>3. \A i \in 1 .. m : x[i] \in Blanks
  OBVIOUS
<1>4. \A i \in 1 .. m + n : i \in ahead <=> i > m /\ i - m \in solid
  <2> TAKE i \in 1 .. m + n
  <2>1. CASE i <= m
    <3>1. i \in 1 .. m
      BY <1>1, <2>1
    <3>2. (x \o y)[i] = x[i]
      BY <1>2, <2>1
    <3> QED
      BY <1>1, <1>3, <2>1, <3>1, <3>2
  <2>2. CASE ~(i <= m)
    <3>1. i - m \in 1 .. n /\ i > m
      BY <1>1, <2>2
    <3>2. (x \o y)[i] = y[i - m]
      BY <1>2, <2>2
    <3> QED
      BY <1>2, <3>1, <3>2
  <2> QED
    BY <2>1, <2>2
<1>5. ahead \subseteq 1 .. m + n
  BY <1>2
<1> HIDE DEF ahead, solid
<1>6. \A i \in solid : m + i \in ahead /\ m + i \in m + 1 .. m + n
  <2> TAKE i \in solid
  <2>1. i \in 1 .. n
    BY DEF solid
  <2>2. m + i \in 1 .. m + n /\ m + i > m /\ (m + i) - m = i
    BY <1>1, <2>1
  <2> QED
    BY <1>1, <1>4, <2>1, <2>2
<1>7. \A i \in ahead : i - m \in solid /\ i \in m + 1 .. m + n
  BY <1>1, <1>4, <1>5
<1>8. CASE solid = {}
  <2>1. ahead = {}
    BY <1>7, <1>8
  <2> QED
    BY <1>8, <2>1 DEF Trim, ahead, solid
<1>9. CASE solid # {}
  <2>1. PICK a \in solid : \A j \in solid : a <= j
    BY <1>1, <1>9, LeastElement
  <2>2. PICK b \in solid : \A j \in solid : j <= b
    BY <1>1, <1>9, GreatestElement
  <2>3. a \in 1 .. n /\ b \in 1 .. n /\ a <= b /\ solid \subseteq 1 .. n
    BY <2>1, <2>2 DEF solid
  <2>4. first(solid) = a
    <3>1. \A i \in solid : (\A j \in solid : i <= j) <=> i = a
      BY <2>1, <2>3
    <3> QED
      BY <3>1
  <2>5. last(solid) = b
    <3>1. \A i \in solid : (\A j \in solid : i >= j) <=> i = b
      BY <2>2, <2>3
    <3> QED
      BY <3>1
  <2>6. m + a \in ahead /\ m + b \in ahead /\ ahead # {}
    BY <1>6
  <2>7. \A j \in ahead : m + a <= j /\ j <= m + b /\ j \in Nat
    <3> TAKE j \in ahead
    <3>1. j - m \in solid /\ j \in m + 1 .. m + n
      BY <1>7
    <3>2. a <= j - m /\ j - m <= b
      BY <2>1, <2>2, <3>1
    <3> QED
      BY <1>1, <2>3, <3>1, <3>2
  <2>8. first(ahead) = m + a
    <3>1. \A i \in ahead : (\A j \in ahead : i <= j) <=> i = m + a
      BY <1>1, <2>3, <2>6, <2>7
    <3> QED
      BY <2>6, <3>1
  <2>9. last(ahead) = m + b
    <3>1. \A i \in ahead : (\A j \in ahead : i >= j) <=> i = m + b
      BY <1>1, <2>3, <2>6, <2>7
    <3> QED
      BY <2>6, <3>1
  <2>10. Trim(y) = SubSeq(y, first(solid), last(solid))
    BY <1>9 DEF Trim, solid
  <2>11. Trim(x \o y) = SubSeq(x \o y, first(ahead), last(ahead))
    BY <2>6 DEF Trim, ahead
  <2>12. SubSeq(x \o y, m + a, m + b) = SubSeq(y, a, b)
    <3> DEFINE S == Byte \cup Blanks
    <3>1. x \in Seq(S) /\ y \in Seq(S)
      OBVIOUS
    <3> HIDE DEF S
    <3>2. m + a \in Len(x) + 1 .. Len(x) + Len(y) /\ m + b \in Len(x) + 1 .. Len(x) + Len(y)
          /\ (m + a) - Len(x) = a /\ (m + b) - Len(x) = b
      BY <1>1, <2>3
    <3>3. SubSeq(x \o y, m + a, m + b) = SubSeq(y, (m + a) - Len(x), (m + b) - Len(x))
      <4> HIDE DEF m, n
      <4> QED
        BY <3>1, <3>2, SubSeqOfConcat2
    <3> QED
      BY <3>2, <3>3
  <2> QED
    BY <2>4, <2>5, <2>8, <2>9, <2>10, <2>11, <2>12
<1> QED
  BY <1>8, <1>9

\* What salt_cli_copy_base64_key_input copies is the text from the first byte
\* on that is not blank, and that is what the grammar asks to fit.
LEMMA KeyTextRead ==
    ASSUME doc \in Seq(Lexeme), NEW text, text = Spelling(SubSeq(doc, Skip(1), Len(doc)))
    PROVE  /\ text \in Seq(Byte) /\ Len(text) \in Nat
           /\ Len(text) < KeySize /\ Trim(text) # <<>> <=> IsKeyText(doc)
           /\ Trim(text) = Trim(Spelling(doc))
           /\ Trim(text) \in Seq(Byte) /\ Len(Trim(text)) <= Len(text)
<1> DEFINE L == Len(doc)
<1>1. L \in Nat /\ 1 \in 1 .. L + 1 /\ \A i \in 1 .. L : doc[i] \in Lexeme
  OBVIOUS
<1>2. PICK c \in 1 .. L + 1 : /\ c = Skip(1) /\ Stands(doc, c, 1)
                              /\ \A i \in 1 .. c - 1 : i \in 1 .. L /\ doc[i].kind \in Blank
  <2>1. SolidTo(doc)[0] = <<>> /\ 1 - 1 = 0
    BY SolidUnfold
  <2>2. Before(doc, 1) = 1 - 1
    BY <2>1 DEF Before
  <2> QED
    BY <1>1, <2>2, SkipStands
<1>3. c - 1 \in 0 .. L /\ c - 1 \in 1 - 1 .. L /\ L \in c - 1 .. L
  BY <1>1
<1>4. PICK x \in Seq(Lexeme) : /\ x = SubSeq(doc, 1, c - 1) /\ Len(x) = c - 1
                               /\ \A i \in 1 .. c - 1 : x[i].kind \in Blank
  <2>1. /\ SubSeq(doc, 1, c - 1) \in Seq(Lexeme) /\ Len(SubSeq(doc, 1, c - 1)) = (c - 1) - 1 + 1
        /\ \A i \in 1 .. (c - 1) - 1 + 1 : SubSeq(doc, 1, c - 1)[i] = doc[1 + i - 1]
    BY <1>1, <1>3, PartOf
  <2>2. (c - 1) - 1 + 1 = c - 1 /\ \A i \in 1 .. c - 1 : 1 + i - 1 = i
    BY <1>3
  <2>3. \A i \in 1 .. c - 1 : SubSeq(doc, 1, c - 1)[i].kind \in Blank
    BY <1>2, <2>1, <2>2
  <2> QED
    BY <2>1, <2>2, <2>3
<1>5. PICK y \in Seq(Lexeme) : /\ y = SubSeq(doc, c, L) /\ Len(y) = L - c + 1
                               /\ c <= L => y[1].kind \notin Blank
  <2>1. /\ SubSeq(doc, c, L) \in Seq(Lexeme) /\ Len(SubSeq(doc, c, L)) = L - c + 1
        /\ \A i \in 1 .. L - c + 1 : SubSeq(doc, c, L)[i] = doc[c + i - 1]
    BY <1>1, <1>3, PartOf
  <2>2. c <= L => 1 \in 1 .. L - c + 1 /\ c + 1 - 1 = c
    BY <1>1
  <2>3. c <= L => SubSeq(doc, c, L)[1].kind \notin Blank
    BY <1>2, <2>1, <2>2 DEF Stands
  <2> QED
    BY <2>1, <2>3
<1>6. PICK t \in Seq(Byte) : t = text /\ t = Spelling(y)
  BY <1>2, <1>5, SpellingPieces
<1>7. PICK b \in Seq(Blanks) : b = Spelling(x) /\ b \in Seq(Byte)
  <2>1. Pieces(x) \in Seq(Seq(Blanks))
    <3> DEFINE Q == Seq(Blanks)
               p(i) == BytesOf(x[i])
    <3>1. \A i \in 1 .. Len(x) : p(i) \in Q
      <4> TAKE i \in 1 .. Len(x)
      <4>1. x[i] \in Lexeme /\ x[i].kind \in Blank
        BY <1>4
      <4> QED
        BY <4>1, PieceType
    <3> HIDE DEF p, Q
    <3>2. Len(x) \in Nat
      OBVIOUS
    <3>3. [i \in 1 .. Len(x) |-> p(i)] \in Seq(Q)
      BY <3>1, <3>2
    <3> QED
      BY <3>3 DEF p, Q, Pieces
  <2>2. FlattenSeq(Pieces(x)) \in Seq(Blanks)
    BY <2>1, FlattenConcat
  <2> QED
    BY <2>2, SpellingPieces
<1>8. PICK whole \in Seq(Byte) : whole = Spelling(doc) /\ whole = b \o t
  <2>1. Spelling(doc) = Spelling(SubSeq(doc, 1, c - 1)) \o Spelling(SubSeq(doc, c, L))
    BY SpellingSplit
  <2>2. Spelling(doc) = b \o t
    BY <1>4, <1>5, <1>6, <1>7, <2>1
  <2>3. Spelling(doc) \in Seq(Byte)
    BY SpellingPieces
  <2> QED
    BY <2>2, <2>3
<1>9. Trim(t) = Trim(whole)
  BY <1>8, TrimAhead
<1>10. t # <<>> => t[1] \notin Blanks /\ Len(t) >= 1
  <2>1. CASE c <= L
    <3>1. Len(y) >= 1 /\ 1 \in 1 .. Len(y) + 1 /\ 2 \in 1 .. Len(y) + 1 /\ 2 - 1 = 1
      BY <1>1, <1>5, <2>1
    <3>2. /\ SubSeq(y, 1, 1) \in Seq(Lexeme) /\ SubSeq(y, 2, Len(y)) \in Seq(Lexeme)
          /\ t = Spelling(SubSeq(y, 1, 1)) \o Spelling(SubSeq(y, 2, Len(y)))
      BY <1>6, <3>1, SpellingSplit
    <3>3. y[1] \in Lexeme /\ y[1].kind \notin Blank
      BY <1>5, <2>1, <3>1
    <3>4. PICK p \in Seq(Byte) : p = BytesOf(y[1]) /\ Len(p) >= 1 /\ p[1] \notin Blanks
      BY <3>3, PieceType
    <3>5. Spelling(SubSeq(y, 1, 1)) = p
      <4>1. PICK z \in Seq(Lexeme) : z = SubSeq(y, 1, 1)
        BY <3>2
      <4>2. Len(z) = 1 /\ z[1] = y[1]
        BY <3>1, <4>1
      <4>3. Pieces(z) = [i \in 1 .. 1 |-> p]
        BY <3>4, <4>2 DEF Pieces
      <4>4. [i \in 1 .. 1 |-> p] = <<p>>
        OBVIOUS
      <4>5. FlattenSeq(<<p>>) = p
        BY FlattenShort
      <4> QED
        BY <4>1, <4>3, <4>4, <4>5, SpellingPieces
    <3>6. PICK r \in Seq(Byte) : r = Spelling(SubSeq(y, 2, Len(y)))
      BY <3>2, SpellingPieces
    <3>7. (p \o r)[1] = p[1] /\ Len(p \o r) >= 1
      BY <3>4
    <3> QED
      BY <3>2, <3>4, <3>5, <3>6, <3>7
  <2>2. CASE ~(c <= L)
    <3>1. Len(y) = 0
      BY <1>1, <1>5, <2>2
    <3>2. Pieces(y) = <<>>
      <4> DEFINE Q == Seq(Byte)
      <4>1. PICK z \in Seq(Q) : z = Pieces(y) /\ Len(z) = 0
        BY <3>1, SpellingPieces
      <4> HIDE DEF Q
      <4>2. z = <<>>
        BY <4>1
      <4> QED
        BY <4>1, <4>2
    <3>3. t = <<>>
      BY <1>6, <3>2, SpellingPieces, FlattenShort
    <3> QED
      BY <3>3
  <2> QED
    BY <2>1, <2>2
<1>11. Trim(t) # <<>> <=> t # <<>>
  <2>1. CASE t = <<>>
    <3>1. Len(t) = 0
      BY <2>1
    <3>2. \A i \in 1 .. Len(t) : t[i] \in Blanks
      BY <3>1
    <3> QED
      BY <2>1, <3>2, TrimLeaves
  <2>2. CASE t # <<>>
    <3>1. 1 \in 1 .. Len(t) /\ t[1] \notin Blanks
      BY <1>10, <2>2
    <3> QED
      BY <2>2, <3>1, TrimLeaves
  <2> QED
    BY <2>1, <2>2
<1>12. IsKeyText(doc) <=> \E i \in 1 .. Len(whole) : /\ whole[i] \notin Blanks
                                                     /\ \A j \in 1 .. i - 1 : whole[j] \in Blanks
                                                     /\ Len(whole) - i + 1 < KeySize
  BY <1>8 DEF IsKeyText
<1>13. /\ Len(whole) = Len(b) + Len(t) /\ Len(b) \in Nat /\ Len(t) \in Nat
       /\ \A i \in 1 .. Len(b) : whole[i] = b[i] /\ b[i] \in Blanks
       /\ Len(t) >= 1 => whole[Len(b) + 1] = t[1]
  <2>1. /\ Len(b \o t) = Len(b) + Len(t) /\ Len(b) \in Nat /\ Len(t) \in Nat
        /\ \A i \in 1 .. Len(b) : (b \o t)[i] = b[i] /\ b[i] \in Blanks
        /\ Len(t) >= 1 => (b \o t)[Len(b) + 1] = t[1]
    OBVIOUS
  <2> QED
    BY <1>8, <2>1
<1>16. PICK m \in Nat, n \in Nat :
       /\ n = Len(t) /\ Len(whole) = m + n
       /\ \A i \in 1 .. m : whole[i] \in Blanks
       /\ n >= 1 => whole[m + 1] \notin Blanks
       /\ t # <<>> <=> n >= 1
  <2>1. t # <<>> <=> Len(t) >= 1
    BY <1>10
  <2> QED
    BY <1>10, <1>13, <2>1
<1>14. ASSUME IsKeyText(doc) PROVE n >= 1 /\ n < KeySize
  <2>1. ASSUME NEW i \in 1 .. m + n, whole[i] \notin Blanks,
               \A j \in 1 .. i - 1 : whole[j] \in Blanks
        PROVE  n >= 1 /\ m + n - i + 1 = n
    <3>1. i > m /\ n >= 1
      BY <1>16, <2>1
    <3>2. whole[m + 1] \notin Blanks
      BY <1>16, <3>1
    <3>3. ~(m + 1 \in 1 .. i - 1)
      BY <2>1, <3>2
    <3>4. i = m + 1
      BY <1>16, <3>1, <3>3
    <3> QED
      BY <1>16, <3>1, <3>4
  <2>2. \E i \in 1 .. m + n : /\ whole[i] \notin Blanks
                              /\ \A j \in 1 .. i - 1 : whole[j] \in Blanks
                              /\ m + n - i + 1 < KeySize
    BY <1>12, <1>14, <1>16
  <2> QED
    BY <2>1, <2>2, Zenon
<1>15. ASSUME n >= 1, n < KeySize PROVE IsKeyText(doc)
  <2>1. m + 1 \in 1 .. m + n /\ m + n - (m + 1) + 1 = n /\ (m + 1) - 1 = m
    BY <1>15, <1>16
  <2> QED
    BY <1>12, <1>15, <1>16, <2>1
<1> QED
  BY <1>6, <1>9, <1>11, <1>14, <1>15, <1>16, <1>8, TrimLeaves

-----------------------------------------------------------------------------
(* Types, and a call that does not succeed.                                  *)

Labels == {"dispatch", "open", "name", "value", "separator", "finish", "done"}

\* A field as it is stored: with room for its terminator.
Fits(v, size) == v # Unset => v \in Seq(Byte) /\ Len(v) < size

\* The types, and what has been said before the call is done: nothing.
DocTypeInv ==
    /\ IsDocument(doc) /\ format \in Formats /\ pc \in Labels
    /\ cursor \in 1 .. Len(doc) + 1
    /\ Fits(field, FieldSize) /\ Fits(key, KeySize) /\ Fits(keyId, KeyIdSize)
    /\ hasKeyId \in BOOLEAN /\ status \in {OK, ERR_INPUT}
    /\ pc # "done" => ~hasKeyId /\ status = ERR_INPUT
    /\ RejectedNamesNobody

\* Of a document only the parser changes anything.
LEMMA DocSteps == [OutputNext]_allVars => [Next]_docVars
BY DEF OutputNext, Parse, Decide, Write, Flush, allVars, docVars

\* A call begins with what it was called with.
LEMMA CallBegins ==
    ASSUME OutputInit
    PROVE  /\ IsDocument(doc) /\ doc \in Seq(Lexeme) /\ format \in Formats /\ pc = "dispatch"
           /\ cursor = 1 /\ field = Unset /\ key = Unset /\ keyId = Unset
           /\ hasKeyId = FALSE /\ status = ERR_INPUT
           /\ option \in Seq(Byte) \cup {Unset} /\ mode \in {"text", "json"}
           /\ calls = <<>> /\ line = <<>> /\ emission = "waiting"
<1>0. PICK family \in Inputs :
         \E in \in family : CallWith(in) /\ option = in.option /\ mode = in.mode
  BY DEF OutputInit
<1>1. PICK in \in family : CallWith(in) /\ option = in.option /\ mode = in.mode
  BY <1>0
<1>2. in.format \in Formats /\ in.doc \in Seq(Lexeme) /\ \A i \in 1 .. Len(in.doc) : IsLexeme(in.doc[i])
  BY InputsAssumption
<1>3. in.option \in Seq(Byte) \cup {Unset} /\ in.mode \in {"text", "json"}
  BY OptionsAssumption
<1>4. /\ pc = "dispatch" /\ doc = in.doc /\ format = in.format
      /\ cursor = 1 /\ field = Unset /\ key = Unset /\ keyId = Unset
      /\ hasKeyId = FALSE /\ status = ERR_INPUT
  BY <1>1 DEF CallWith
<1>5. IsDocument(doc)
  BY <1>2, <1>4 DEF IsDocument
<1>6. calls = <<>> /\ line = <<>> /\ emission = "waiting"
  BY DEF OutputInit
<1> QED
  BY <1>1, <1>2, <1>3, <1>4, <1>5, <1>6

\* json_skip_ws stays inside the document.
LEMMA SkipType ==
    ASSUME doc \in Seq(Lexeme), NEW c \in 1 .. Len(doc) + 1
    PROVE  Skip(c) \in c .. Len(doc) + 1 /\ Skip(c) \in 1 .. Len(doc) + 1
<1>1. c - 1 \in 0 .. Len(doc)
  OBVIOUS
<1>2. Before(doc, c) \in Nat
  BY <1>1, SolidPrefix DEF Before
<1>3. Before(doc, c) + 1 \in Nat \ {0} /\ Before(doc, c) = (Before(doc, c) + 1) - 1
  BY <1>2
<1>4. Skip(c) \in c .. Len(doc) + 1
  BY <1>3, SkipStands
<1> QED
  BY <1>4

\* What is no NUL is inside.
LEMMA Inside ==
    ASSUME doc \in Seq(Lexeme), NEW c \in 1 .. Len(doc) + 1, At(c).kind # "NUL"
    PROVE  c <= Len(doc) /\ c + 1 \in 1 .. Len(doc) + 1
<1>1. c <= Len(doc)
  BY Kinds DEF At
<1> QED
  BY <1>1

\* Trimmed in place, a text still fits.
LEMMA TrimmedFits ==
    ASSUME NEW v, NEW size \in Nat, Fits(v, size)
    PROVE  /\ Fits(Trimmed(v), size)
           /\ Trimmed(v) \notin {Unset, <<>>} => Trimmed(v) = Trim(v) /\ v \in Seq(Byte)
<1>1. CASE v = Unset
  BY <1>1 DEF Trimmed, Fits
<1>2. CASE v # Unset
  <2>1. v \in Seq(Byte) /\ Len(v) < size /\ Len(v) \in Nat
    BY <1>2 DEF Fits
  <2>2. Trim(v) \in Seq(Byte) /\ Len(Trim(v)) <= Len(v) /\ Len(Trim(v)) \in Nat
    BY <2>1, TrimLeaves
  <2>3. Len(Trim(v)) < size
    BY <2>1, <2>2
  <2> QED
    BY <1>2, <2>1, <2>2, <2>3 DEF Trimmed, Fits
<1> QED
  BY <1>1, <1>2

\* A call that begins says nothing yet,
LEMMA DocTypeInit == OutputInit => DocTypeInv
<1> SUFFICES ASSUME OutputInit PROVE DocTypeInv
  OBVIOUS
<1>1. 1 \in 1 .. Len(doc) + 1
  BY CallBegins
<1> QED
  <2>1. /\ IsDocument(doc) /\ format \in Formats /\ pc = "dispatch" /\ cursor = 1
        /\ field = Unset /\ key = Unset /\ keyId = Unset /\ hasKeyId = FALSE /\ status = ERR_INPUT
    BY CallBegins
  <2> QED
    BY <1>1, <2>1, Zenon DEF DocTypeInv, Labels, Fits, RejectedNamesNobody

\* and none of its steps says something wrong.
LEMMA DocTypeStep == DocTypeInv /\ [Next]_docVars => DocTypeInv'
<1> SUFFICES ASSUME DocTypeInv, [Next]_docVars PROVE DocTypeInv'
  OBVIOUS
<1>0. /\ IsDocument(doc) /\ doc \in Seq(Lexeme) /\ cursor \in 1 .. Len(doc) + 1
      /\ format \in Formats /\ hasKeyId \in BOOLEAN
      /\ Fits(field, FieldSize) /\ Fits(key, KeySize) /\ Fits(keyId, KeyIdSize)
      /\ FieldSize \in Nat \ {0} /\ KeySize \in Nat \ {0} /\ KeyIdSize \in Nat \ {0}
      /\ pc # "done" => ~hasKeyId /\ status = ERR_INPUT
  BY BuffersAssumption DEF DocTypeInv, IsDocument
<1>1. ASSUME NEW c \in 1 .. Len(doc) + 1, NEW size \in Nat \ {0}, Stored(c, size) # Unset
      PROVE  Fits(Stored(c, size), size) /\ c + 1 \in 1 .. Len(doc) + 1
  <2>1. Stored(c, size) \in Seq(Byte) /\ Len(Stored(c, size)) < size /\ c <= Len(doc)
    BY <1>0, <1>1, StoredAt
  <2> QED
    BY <2>1 DEF Fits
<1> DEFINE Moved ==
           /\ doc' = doc /\ format' = format
           /\ pc' \in Labels /\ cursor' \in 1 .. Len(doc) + 1
           /\ Fits(field', FieldSize) /\ Fits(key', KeySize) /\ Fits(keyId', KeyIdSize)
           /\ \/ pc' = "done" /\ status' = OK /\ hasKeyId' \in BOOLEAN
              \/ hasKeyId' = FALSE /\ status' = ERR_INPUT
<1>2. CASE UNCHANGED docVars
  BY <1>2 DEF docVars, DocTypeInv, IsDocument, Fits, RejectedNamesNobody, IsLexeme, Delimited
<1>3. ASSUME Moved PROVE DocTypeInv'
  <2>1. IsDocument(doc)'
    BY <1>0, <1>3 DEF IsDocument
  <2>2. /\ (cursor \in 1 .. Len(doc) + 1)'
        /\ (format \in Formats)' /\ (pc \in Labels)'
    BY <1>0, <1>3
  <2>3. /\ Fits(field, FieldSize)' /\ Fits(key, KeySize)' /\ Fits(keyId, KeyIdSize)'
    BY <1>3 DEF Fits
  <2>4. /\ (hasKeyId \in BOOLEAN /\ status \in {OK, ERR_INPUT})'
        /\ (pc # "done" => ~hasKeyId /\ status = ERR_INPUT)'
        /\ RejectedNamesNobody'
    BY <1>3 DEF RejectedNamesNobody
  <2> QED
    BY <2>1, <2>2, <2>3, <2>4 DEF DocTypeInv
<1>4. ASSUME Fail, pc # "done", UNCHANGED <<doc, format>> PROVE Moved
  BY <1>0, <1>4 DEF Fail, Labels, Fits
<1>5. ASSUME NEW label \in Labels, NEW i \in 1 .. Len(doc) + 1, Advance(label, i), pc # "done",
             UNCHANGED <<doc, format>>,
             Fits(field', FieldSize), Fits(key', KeySize), Fits(keyId', KeyIdSize)
      PROVE  Moved
  BY <1>0, <1>5 DEF Advance
<1> HIDE DEF Moved
<1>7. CASE Dispatch
  <2> DEFINE first == Skip(1)
             text == Spelling(SubSeq(doc, first, Len(doc)))
  <2>1. first \in 1 .. Len(doc) + 1
    BY <1>0, SkipType
  <2>2. text \in Seq(Byte) /\ Trim(text) \in Seq(Byte) /\ Len(Trim(text)) <= Len(text) /\ Len(text) \in Nat
    BY <1>0, KeyTextRead
  <2> HIDE DEF first, text
  <2>3. pc # "done" /\ UNCHANGED <<doc, format>>
    BY <1>7 DEF Dispatch
  <2>4. CASE Advance("open", first) /\ UNCHANGED <<field, key, keyId>>
    <3>1. Fits(field', FieldSize) /\ Fits(key', KeySize) /\ Fits(keyId', KeyIdSize)
      BY <1>0, <2>4
    <3>2. "open" \in Labels
      BY DEF Labels
    <3> QED
      BY <1>3, <1>5, <2>1, <2>3, <2>4, <3>1, <3>2
  <2>5. CASE /\ Len(text) < KeySize /\ key' = Trim(text) /\ status' = OK /\ pc' = "done"
             /\ UNCHANGED <<cursor, field, keyId, hasKeyId>>
    <3>1. Len(Trim(text)) \in Nat
      BY <2>2
    <3>2. Fits(key', KeySize)
      BY <1>0, <2>2, <2>5, <3>1 DEF Fits
    <3>3. Fits(field', FieldSize) /\ Fits(keyId', KeyIdSize)
      BY <1>0, <2>5
    <3>4. Moved
      BY <1>0, <2>3, <2>5, <3>2, <3>3 DEF Moved, Labels
    <3> QED
      BY <1>3, <3>4
  <2>6. CASE Fail
    BY <1>3, <1>4, <2>3, <2>6
  <2> QED
    BY <1>3, <1>7, <2>4, <2>5, <2>6 DEF Dispatch, first, text
<1>8. CASE Open
  <2>1. pc # "done" /\ UNCHANGED <<doc, format>>
    BY <1>8 DEF Open
  <2>2. CASE Fail
    BY <1>3, <1>4, <2>1, <2>2
  <2>3. CASE /\ At(cursor).kind = "{"
             /\ Advance("name", Skip(cursor + 1)) /\ UNCHANGED <<field, key, keyId>>
    <3>1. cursor + 1 \in 1 .. Len(doc) + 1
      BY <1>0, <2>3, Inside
    <3>2. Skip(cursor + 1) \in 1 .. Len(doc) + 1
      BY <1>0, <3>1, SkipType
    <3> QED
      BY <1>0, <1>3, <1>5, <2>1, <2>3, <3>2 DEF Labels
  <2> QED
    BY <1>8, <2>2, <2>3 DEF Open
<1>9. CASE Name
  <2> DEFINE name == Skip(cursor)
             colon == Skip(name + 1)
  <2>1. pc # "done" /\ UNCHANGED <<doc, format>>
    BY <1>9 DEF Name
  <2>2. CASE Fail
    BY <1>3, <1>4, <2>1, <2>2
  <2>3. CASE /\ Stored(name, FieldSize) # Unset /\ At(colon).kind = ":"
             /\ field' = Stored(name, FieldSize) /\ Advance("value", Skip(colon + 1))
             /\ UNCHANGED <<key, keyId>>
    <3>1. name \in 1 .. Len(doc) + 1
      BY <1>0, SkipType
    <3>2. Fits(field', FieldSize) /\ name + 1 \in 1 .. Len(doc) + 1
      <4> HIDE DEF name
      <4> QED
        BY <1>0, <1>1, <2>3, <3>1
    <3>3. colon \in 1 .. Len(doc) + 1
      BY <1>0, <3>2, SkipType
    <3>4. colon + 1 \in 1 .. Len(doc) + 1
      BY <1>0, <2>3, <3>3, Inside
    <3>5. Skip(colon + 1) \in 1 .. Len(doc) + 1
      BY <1>0, <3>4, SkipType
    <3>6. Fits(key', KeySize) /\ Fits(keyId', KeyIdSize)
      BY <1>0, <2>3
    <3> HIDE DEF name, colon
    <3> QED
      BY <1>3, <1>5, <2>1, <2>3, <3>2, <3>5, <3>6 DEF Labels
  <2> QED
    BY <1>9, <2>2, <2>3 DEF Name
<1>10. CASE Value
  <2> DEFINE storesKey == field = KEY /\ key = Unset /\ Stored(cursor, KeySize) # Unset
             storesId  == field = KEY_ID /\ keyId = Unset /\ Stored(cursor, KeyIdSize) # Unset
  <2>1. pc # "done" /\ UNCHANGED <<doc, format>>
    BY <1>10 DEF Value
  <2>2. CASE Fail
    BY <1>3, <1>4, <2>1, <2>2
  <2>3. CASE /\ storesKey \/ storesId
             /\ key' = IF storesKey THEN Stored(cursor, KeySize) ELSE key
             /\ keyId' = IF storesId THEN Stored(cursor, KeyIdSize) ELSE keyId
             /\ Advance("separator", Skip(cursor + 1)) /\ UNCHANGED field
    <3>1. Fits(key', KeySize)
      BY <1>0, <1>1, <2>3
    <3>2. Fits(keyId', KeyIdSize)
      BY <1>0, <1>1, <2>3
    <3>3. Fits(field', FieldSize)
      BY <1>0, <2>3
    <3>4. cursor + 1 \in 1 .. Len(doc) + 1
      BY <1>0, <1>1, <2>3
    <3>5. Skip(cursor + 1) \in 1 .. Len(doc) + 1
      BY <1>0, <3>4, SkipType
    <3> QED
      BY <1>3, <1>5, <2>1, <2>3, <3>1, <3>2, <3>3, <3>5 DEF Labels
  <2> QED
    BY <1>10, <2>2, <2>3 DEF Value
<1>11. CASE Separator
  <2>1. pc # "done" /\ UNCHANGED <<doc, format>>
    BY <1>11 DEF Separator
  <2>2. CASE Fail
    BY <1>3, <1>4, <2>1, <2>2
  <2>3. CASE At(cursor).kind = "," /\ Advance("name", cursor + 1) /\ UNCHANGED <<field, key, keyId>>
    <3>1. cursor + 1 \in 1 .. Len(doc) + 1
      BY <1>0, <2>3, Inside
    <3> QED
      BY <1>0, <1>3, <1>5, <2>1, <2>3, <3>1 DEF Labels
  <2>4. CASE /\ At(cursor).kind = "}"
             /\ Advance("finish", Skip(cursor + 1)) /\ UNCHANGED <<field, key, keyId>>
    <3>1. cursor + 1 \in 1 .. Len(doc) + 1
      BY <1>0, <2>4, Inside
    <3>2. Skip(cursor + 1) \in 1 .. Len(doc) + 1
      BY <1>0, <3>1, SkipType
    <3> QED
      BY <1>0, <1>3, <1>5, <2>1, <2>4, <3>2 DEF Labels
  <2> QED
    BY <1>11, <2>2, <2>3, <2>4 DEF Separator
<1>12. CASE Finish
  <2>1. pc # "done" /\ UNCHANGED <<doc, format>>
    BY <1>12 DEF Finish
  <2>2. CASE Fail
    BY <1>3, <1>4, <2>1, <2>2
  <2>3. CASE /\ Trimmed(key) \notin {Unset, <<>>}
             /\ key' = Trim(key) /\ keyId' = Trimmed(keyId)
             /\ hasKeyId' = (Trimmed(keyId) \notin {Unset, <<>>})
             /\ status' = OK /\ pc' = "done" /\ UNCHANGED <<cursor, field>>
    <3>1. Fits(Trimmed(key), KeySize) /\ Trimmed(key) = Trim(key) /\ Fits(Trimmed(keyId), KeyIdSize)
      BY <1>0, <2>3, TrimmedFits
    <3>2. Fits(key', KeySize) /\ Fits(keyId', KeyIdSize) /\ Fits(field', FieldSize)
      BY <1>0, <2>3, <3>1
    <3>3. hasKeyId' \in BOOLEAN
      BY <2>3
    <3>4. Moved
      BY <1>0, <2>1, <2>3, <3>2, <3>3 DEF Moved, Labels
    <3> QED
      BY <1>3, <3>4
  <2> QED
    BY <1>12, <2>2, <2>3 DEF Finish
<1> QED
  BY <1>2, <1>3, <1>7, <1>8, <1>9, <1>10, <1>11, <1>12 DEF Next

\* So the types of the parser hold throughout.
LEMMA DocTypeInvariant == OutputSpec => []DocTypeInv
<1>1. OutputInit => DocTypeInv
  BY DocTypeInit
<1>2. DocTypeInv /\ [OutputNext]_allVars => DocTypeInv'
  BY DocTypeStep, DocSteps
<1> QED
  BY <1>1, <1>2, PTL DEF OutputSpec

\* For every document and buffers of any size: the parser's variables keep
\* their types, its cursor stays inside the document, and nothing is stored
\* without room for its terminator.
THEOREM KeyDocumentTypeCorrect == OutputSpec => []TypeOK
<1>1. DocTypeInv => TypeOK
  <2> SUFFICES ASSUME DocTypeInv PROVE TypeOK
    OBVIOUS
  <2>1. /\ Fits(field, FieldSize) /\ Fits(key, KeySize) /\ Fits(keyId, KeyIdSize)
        /\ IsDocument(doc) /\ pc \in Labels /\ format \in Formats /\ cursor \in 1 .. Len(doc) + 1
        /\ hasKeyId \in BOOLEAN /\ status \in {OK, ERR_INPUT}
    BY DEF DocTypeInv
  <2>2. \A stored \in {<<field, FieldSize>>, <<key, KeySize>>, <<keyId, KeyIdSize>>} :
           stored[1] # Unset => stored[1] \in Seq(Byte) /\ Len(stored[1]) < stored[2]
    <3>1. ASSUME NEW v, NEW size, Fits(v, size), NEW stored, stored = <<v, size>>
          PROVE  stored[1] # Unset => stored[1] \in Seq(Byte) /\ Len(stored[1]) < stored[2]
      <4>1. stored[1] = v /\ stored[2] = size
        BY <3>1
      <4> QED
        BY <3>1, <4>1 DEF Fits
    <3> QED
      BY <2>1, <3>1
  <2> QED
    BY <2>1, <2>2 DEF TypeOK, IsDocument, Labels
<1> QED
  BY <1>1, DocTypeInvariant, PTL

\* A document that is rejected, at whatever field, never lends its key_id to
\* the output: *has_key_id is set at the very end.
THEOREM RejectedNamesNobodyHolds == OutputSpec => []RejectedNamesNobody
<1>1. DocTypeInv => RejectedNamesNobody
  BY DEF DocTypeInv
<1> QED
  BY <1>1, DocTypeInvariant, PTL

-----------------------------------------------------------------------------
(* The parser, label by label, against the grammar.                          *)

\* What the parser sees of the lexeme it stands at.
LEMMA Sees ==
    ASSUME doc \in Seq(Lexeme), NEW c, NEW m \in Nat \ {0}, Stands(doc, c, m)
    PROVE  /\ At(c).kind = "{" <=> m <= Len(Solid(doc)) /\ Opens(Solid(doc), m)
           /\ At(c).kind = "}" <=> m <= Len(Solid(doc)) /\ Closes(Solid(doc), m)
           /\ At(c).kind = ":" <=> m <= Len(Solid(doc)) /\ IsColon(Solid(doc), m)
           /\ At(c).kind = "," <=> m <= Len(Solid(doc)) /\ IsComma(Solid(doc), m)
           /\ At(c).kind = "NUL" <=> ~(m <= Len(Solid(doc)))
<1>1. At(c) = Look(doc, m) /\ (c <= Len(doc) <=> m <= Len(Solid(doc))) /\ c \in 1 .. Len(doc) + 1
  BY StandsAt
<1>2. CASE m <= Len(Solid(doc))
  <2>1. At(c) = Solid(doc)[m]
    BY <1>1, <1>2, Zenon DEF Look
  <2>2. At(c).kind # "NUL"
    <3>1. c <= Len(doc) /\ c \in 1 .. Len(doc)
      BY <1>1, <1>2
    <3>2. doc[c] \in Lexeme /\ At(c) = doc[c]
      BY <3>1 DEF At
    <3> QED
      BY <3>2, Kinds
  <2> QED
    BY <1>2, <2>1, <2>2, Zenon DEF Opens, Closes, IsColon, IsComma
<1>3. CASE ~(m <= Len(Solid(doc)))
  <2>1. At(c).kind = "NUL"
    BY <1>1, <1>3, Kinds DEF Look
  <2> QED
    BY <1>3, <2>1
<1> QED
  BY <1>2, <1>3

\* No lexeme is two things.
LEMMA NoTwoMarks ==
    ASSUME NEW s, NEW m
    PROVE  /\ ~(IsComma(s, m) /\ Closes(s, m))
           /\ s[m].kind = "string" => ~Opens(s, m) /\ ~Closes(s, m) /\ ~IsColon(s, m) /\ ~IsComma(s, m)
BY DEF Opens, Closes, IsColon, IsComma

\* Behind n fields, at the lexeme the next one begins with (or blanks ahead).
NamePlace(d, c, k, id) ==
    \E n \in 0 .. 2 : /\ FieldsRead(Solid(d), n, k, id) /\ Before(d, c) = 4 * n + 1
                      /\ n > 0 => 4 * n + 1 <= Len(Solid(d)) /\ IsComma(Solid(d), 4 * n + 1)

\* Behind the name f of the next field and its colon.
ValuePlace(d, c, f, k, id) ==
    \E n \in 0 .. 2 : /\ FieldsRead(Solid(d), n, k, id) /\ Stands(d, c, 4 * (n + 1))
                      /\ n > 0 => 4 * n + 1 <= Len(Solid(d)) /\ IsComma(Solid(d), 4 * n + 1)
                      /\ f = NameOf(Solid(d), n + 1) /\ IsString(NameAt(Solid(d), n + 1), FieldSize)
                      /\ IsColon(Solid(d), 4 * (n + 1) - 1)

\* Behind n fields.
SeparatorPlace(d, c, k, id) ==
    \E n \in 1 .. 2 : FieldsRead(Solid(d), n, k, id) /\ Stands(d, c, 4 * n + 1)

\* Behind the closing brace.
FinishPlace(d, c, k, id) ==
    \E n \in 1 .. 2 : /\ FieldsRead(Solid(d), n, k, id) /\ Stands(d, c, 4 * n + 2)
                      /\ 4 * n + 1 <= Len(Solid(d)) /\ Closes(Solid(d), 4 * n + 1)

\* The opening brace.
LEMMA OpenReads ==
    ASSUME IsDocument(doc), NEW c, Stands(doc, c, 1)
    PROVE  /\ At(c).kind = "{" => NamePlace(doc, Skip(c + 1), Unset, Unset)
           /\ At(c).kind = "{" /\ At(Skip(c + 1)).kind = "}" => ~IsKeyObject(doc)
           /\ At(c).kind # "{" => ~IsKeyObject(doc)
<1> DEFINE s == Solid(doc)
<1>1. doc \in Seq(Lexeme) /\ 1 \in Nat \ {0} /\ 2 \in Nat \ {0}
  BY DEF IsDocument
<1>2. At(c).kind = "{" <=> 1 <= Len(s) /\ Opens(s, 1)
  BY <1>1, Sees
<1>3. ASSUME At(c).kind = "{" PROVE Stands(doc, Skip(c + 1), 2)
  <2>1. c <= Len(doc)
    BY <1>1, <1>2, <1>3, StandsAt
  <2>2. c + 1 \in 1 .. Len(doc) + 1 /\ Before(doc, c + 1) = 2 - 1
    BY <1>1, <2>1, StandsAt
  <2> QED
    BY <1>1, <2>2, SkipStands
<1>4. ASSUME At(c).kind = "{" PROVE NamePlace(doc, Skip(c + 1), Unset, Unset)
  <2>1. Before(doc, Skip(c + 1)) = 2 - 1
    BY <1>3, <1>4 DEF Stands
  <2>2. 0 \in 0 .. 2 /\ 4 * 0 + 1 = 2 - 1 /\ 4 * 0 = 0 /\ ~(0 > 0) /\ ~(0 = 2) /\ \A i \in 1 .. 0 : FALSE
    OBVIOUS
  <2>3. Len(s) \in Nat /\ 0 <= Len(s)
    <3>1. 0 \in 0 .. Len(doc)
      BY <1>1
    <3>2. Len(s) \in Nat
      BY <1>1, <3>1, SolidPrefix
    <3> QED
      BY <3>2
  <2>4. FieldsRead(s, 0, Unset, Unset)
    BY <1>2, <1>4, <2>2, <2>3 DEF FieldsRead, Holds
  <2> HIDE DEF s
  <2> QED
    BY <2>1, <2>2, <2>4, Zenon DEF NamePlace, s
<1>5. ASSUME NEW N \in 1 .. 2, ObjectOf(s, N)
      PROVE  At(c).kind = "{" /\ At(Skip(c + 1)).kind # "}"
  <2>1. Len(s) = 4 * N + 1 /\ Opens(s, 1)
    BY <1>5 DEF ObjectOf
  <2>2. 1 <= Len(s) /\ 2 <= Len(s)
    BY <2>1
  <2>3. At(c).kind = "{"
    BY <1>2, <2>1, <2>2
  <2>4. NameAt(s, 1).kind = "string"
    <3>1. 1 \in 1 .. N
      OBVIOUS
    <3> QED
      BY <1>5, <3>1 DEF ObjectOf, IsName, IsString
  <2>5. s[2].kind = "string"
    <3>1. 4 * 1 - 2 = 2
      OBVIOUS
    <3> QED
      BY <2>4, <3>1 DEF NameAt
  <2>6. At(Skip(c + 1)).kind = "}" <=> 2 <= Len(s) /\ Closes(s, 2)
    BY <1>1, <1>3, <2>3, Sees
  <2> QED
    BY <2>3, <2>5, <2>6, NoTwoMarks
<1>6. IsKeyObject(doc) <=> \E N \in 1 .. 2 : ObjectOf(s, N)
  BY KeyObjects
<1> QED
  BY <1>4, <1>5, <1>6

\* What reading on from a string of the document needs.
LEMMA PastStored ==
    ASSUME IsDocument(doc), NEW c, NEW m \in Nat \ {0}, Stands(doc, c, m), NEW size \in Nat \ {0}
    PROVE  /\ Stored(c, size) # Unset <=> m <= Len(Solid(doc)) /\ IsString(Solid(doc)[m], size)
           /\ Stored(c, size) # Unset => /\ Stored(c, size) = Meaning(Solid(doc)[m].raw)
                                         /\ Stored(c, size) \in Seq(Byte)
                                         /\ Stands(doc, Skip(c + 1), m + 1)
<1> DEFINE s == Solid(doc)
<1>1. doc \in Seq(Lexeme)
  BY DEF IsDocument
<1>2. /\ c \in 1 .. Len(doc) + 1 /\ At(c) = Look(doc, m)
      /\ c <= Len(doc) <=> m <= Len(s)
      /\ c <= Len(doc) => c + 1 \in 1 .. Len(doc) + 1 /\ Before(doc, c + 1) = m
  BY <1>1, StandsAt
<1>3. /\ Stored(c, size) # Unset <=> IsString(At(c), size)
      /\ Stored(c, size) # Unset => /\ c <= Len(doc)
                                    /\ Stored(c, size) = Meaning(At(c).raw)
                                    /\ Stored(c, size) \in Seq(Byte)
  BY <1>2, StoredAt
<1>4. CASE m <= Len(s)
  <2>1. At(c) = s[m]
    BY <1>2, <1>4, Zenon DEF Look
  <2>2. Stands(doc, Skip(c + 1), m + 1)
    <3>1. c + 1 \in 1 .. Len(doc) + 1 /\ Before(doc, c + 1) = (m + 1) - 1 /\ m + 1 \in Nat \ {0}
      BY <1>2, <1>4
    <3> QED
      BY <1>1, <3>1, SkipStands
  <2> HIDE DEF s
  <2> QED
    BY <1>3, <1>4, <2>1, <2>2, Zenon DEF s
<1>5. CASE ~(m <= Len(s))
  <2>1. Stored(c, size) = Unset
    BY <1>2, <1>3, <1>5
  <2> QED
    BY <1>5, <2>1
<1> QED
  BY <1>4, <1>5

\* A mark passed.
LEMMA PastMark ==
    ASSUME doc \in Seq(Lexeme), NEW c, NEW m \in Nat \ {0}, Stands(doc, c, m), At(c).kind # "NUL"
    PROVE  /\ m <= Len(Solid(doc)) /\ c + 1 \in 1 .. Len(doc) + 1 /\ Before(doc, c + 1) = m
           /\ Stands(doc, Skip(c + 1), m + 1)
<1>1. m <= Len(Solid(doc))
  BY Sees
<1>2. c + 1 \in 1 .. Len(doc) + 1 /\ Before(doc, c + 1) = m
  BY <1>1, StandsAt
<1>3. m + 1 \in Nat \ {0} /\ (m + 1) - 1 = m
  OBVIOUS
<1> QED
  BY <1>1, <1>2, <1>3, SkipStands

\* A field name and its colon.
LEMMA NameReads ==
    ASSUME IsDocument(doc), NEW c \in 1 .. Len(doc) + 1, NEW k, NEW id, NamePlace(doc, c, k, id),
           NEW name, name = Skip(c), NEW colon, colon = Skip(name + 1)
    PROVE  /\ Stored(name, FieldSize) # Unset /\ At(colon).kind = ":"
              => ValuePlace(doc, Skip(colon + 1), Stored(name, FieldSize), k, id)
           /\ ~(Stored(name, FieldSize) # Unset /\ At(colon).kind = ":") => ~IsKeyObject(doc)
<1>1. doc \in Seq(Lexeme) /\ FieldSize \in Nat \ {0}
  BY BuffersAssumption DEF IsDocument
<1> DEFINE s == Solid(doc)
<1>2. PICK n \in 0 .. 2 : /\ FieldsRead(s, n, k, id) /\ Before(doc, c) = 4 * n + 1
                          /\ n > 0 => 4 * n + 1 <= Len(s) /\ IsComma(s, 4 * n + 1)
  BY DEF NamePlace
<1>3. PICK m \in Nat \ {0} : m = 4 * n + 2 /\ m - 1 = 4 * n + 1 /\ m = 4 * (n + 1) - 2
                             /\ m + 1 = 4 * (n + 1) - 1 /\ m + 1 \in Nat \ {0}
                             /\ (m + 1) + 1 = 4 * (n + 1)
  OBVIOUS
<1>4. Stands(doc, name, m)
  <2>1. Before(doc, c) = m - 1
    BY <1>2, <1>3
  <2> QED
    BY <1>1, <2>1, SkipStands
<1>5. NameAt(s, n + 1) = s[m]
  BY <1>3 DEF NameAt
<1>6. /\ Stored(name, FieldSize) # Unset <=> m <= Len(s) /\ IsString(s[m], FieldSize)
      /\ Stored(name, FieldSize) # Unset => /\ Stored(name, FieldSize) = Meaning(s[m].raw)
                                            /\ Stands(doc, colon, m + 1)
  BY <1>1, <1>4, PastStored
<1>7. Stored(name, FieldSize) # Unset =>
        (At(colon).kind = ":" <=> m + 1 <= Len(s) /\ IsColon(s, m + 1))
  BY <1>1, <1>3, <1>6, Sees
<1>8. ASSUME Stored(name, FieldSize) # Unset, At(colon).kind = ":"
      PROVE  ValuePlace(doc, Skip(colon + 1), Stored(name, FieldSize), k, id)
  <2>1. Stands(doc, colon, m + 1)
    BY <1>6, <1>8
  <2>2. Stands(doc, Skip(colon + 1), (m + 1) + 1)
    BY <1>1, <1>3, <1>8, <2>1, PastMark
  <2>3. Stands(doc, Skip(colon + 1), 4 * (n + 1)) /\ IsColon(s, 4 * (n + 1) - 1)
    BY <1>3, <1>7, <1>8, <2>2
  <2>4. Stored(name, FieldSize) = NameOf(s, n + 1) /\ IsString(NameAt(s, n + 1), FieldSize)
    BY <1>5, <1>6, <1>8 DEF NameOf
  <2> HIDE DEF s
  <2> QED
    BY <1>2, <2>3, <2>4, Zenon DEF ValuePlace, s
<1>9. ASSUME NEW N \in 1 .. 2, ObjectOf(s, N)
      PROVE  Stored(name, FieldSize) # Unset /\ At(colon).kind = ":"
  <2>1. n > 0 => 4 * n + 1 <= Len(s) /\ ~Closes(s, 4 * n + 1)
    BY <1>2, NoTwoMarks
  <2>2. s \in Seq(Lexeme)
    <3>1. Len(doc) \in 0 .. Len(doc)
      BY <1>1
    <3> QED
      BY <1>1, <3>1, SolidUnfold
  <2>3. 4 * (n + 1) + 1 <= Len(s) /\ FieldAt(s, n + 1)
    <3> HIDE DEF s
    <3> QED
      BY <1>2, <1>9, <2>1, <2>2, FieldToCome
  <2>4. Len(s) \in Nat /\ m <= Len(s) /\ m + 1 <= Len(s)
    <3>1. Len(s) \in Nat
      BY <2>2
    <3> QED
      BY <1>3, <2>3, <3>1
  <2>5. IsString(NameAt(s, n + 1), FieldSize) /\ IsColon(s, m + 1)
    BY <1>3, <2>3, NamesOf DEF FieldAt
  <2> QED
    BY <1>5, <1>6, <1>7, <2>4, <2>5
<1> QED
  BY <1>8, <1>9, KeyObjects

\* The lexemes that are not blank are lexemes.
LEMMA SolidType == ASSUME NEW d \in Seq(Lexeme) PROVE Solid(d) \in Seq(Lexeme) /\ Len(Solid(d)) \in Nat
<1>1. Len(d) \in 0 .. Len(d)
  OBVIOUS
<1> QED
  BY <1>1, SolidUnfold

\* The value of a field the parser knows.
LEMMA ValueReads ==
    ASSUME IsDocument(doc), NEW c, NEW f, NEW k, NEW id, ValuePlace(doc, c, f, k, id)
    PROVE  /\ f = KEY /\ k = Unset /\ Stored(c, KeySize) # Unset
              => SeparatorPlace(doc, Skip(c + 1), Stored(c, KeySize), id)
           /\ f = KEY_ID /\ id = Unset /\ Stored(c, KeyIdSize) # Unset
              => SeparatorPlace(doc, Skip(c + 1), k, Stored(c, KeyIdSize))
           /\ ~(f = KEY /\ k = Unset /\ Stored(c, KeySize) # Unset)
              /\ ~(f = KEY_ID /\ id = Unset /\ Stored(c, KeyIdSize) # Unset) => ~IsKeyObject(doc)
<1>1. doc \in Seq(Lexeme) /\ KeySize \in Nat \ {0} /\ KeyIdSize \in Nat \ {0}
  BY BuffersAssumption DEF IsDocument
<1> DEFINE s == Solid(doc)
<1>2. PICK n \in 0 .. 2 : /\ FieldsRead(s, n, k, id) /\ Stands(doc, c, 4 * (n + 1))
                          /\ n > 0 => 4 * n + 1 <= Len(s) /\ IsComma(s, 4 * n + 1)
                          /\ f = NameOf(s, n + 1) /\ IsString(NameAt(s, n + 1), FieldSize)
                          /\ IsColon(s, 4 * (n + 1) - 1)
  BY DEF ValuePlace
<1>3. PICK m \in Nat \ {0} : m = 4 * (n + 1) /\ m + 1 = 4 * (n + 1) + 1
  OBVIOUS
<1>4. ValueAt(s, n + 1) = s[m] /\ ValueOf(s, n + 1) = Meaning(s[m].raw)
  BY <1>3 DEF ValueAt, ValueOf
<1>5. s \in Seq(Lexeme) /\ Len(s) \in Nat
  BY <1>1, SolidType
<1>6. ASSUME NEW size \in Nat \ {0}
      PROVE  /\ Stored(c, size) # Unset <=> m <= Len(s) /\ IsString(ValueAt(s, n + 1), size)
             /\ Stored(c, size) # Unset => /\ Stored(c, size) = ValueOf(s, n + 1)
                                           /\ Stored(c, size) \in Seq(Byte)
                                           /\ Stands(doc, Skip(c + 1), m + 1)
  BY <1>2, <1>3, <1>4, PastStored
<1> HIDE DEF s
<1>7. ASSUME f = KEY, k = Unset, Stored(c, KeySize) # Unset
      PROVE  SeparatorPlace(doc, Skip(c + 1), Stored(c, KeySize), id)
  <2>1. /\ 4 * (n + 1) <= Len(s) /\ IsString(ValueAt(s, n + 1), KeySize)
        /\ Stored(c, KeySize) = ValueOf(s, n + 1) /\ ValueOf(s, n + 1) \in Seq(Byte)
        /\ Stands(doc, Skip(c + 1), 4 * (n + 1) + 1)
    BY <1>1, <1>3, <1>6, <1>7
  <2>2. n + 1 \in 1 .. 2 /\ FieldsRead(s, n + 1, ValueOf(s, n + 1), id)
    BY <1>2, <1>5, <1>7, <2>1, FieldMore
  <2> QED
    BY <2>1, <2>2 DEF SeparatorPlace, s
<1>8. ASSUME f = KEY_ID, id = Unset, Stored(c, KeyIdSize) # Unset
      PROVE  SeparatorPlace(doc, Skip(c + 1), k, Stored(c, KeyIdSize))
  <2>1. /\ 4 * (n + 1) <= Len(s) /\ IsString(ValueAt(s, n + 1), KeyIdSize)
        /\ Stored(c, KeyIdSize) = ValueOf(s, n + 1) /\ ValueOf(s, n + 1) \in Seq(Byte)
        /\ Stands(doc, Skip(c + 1), 4 * (n + 1) + 1)
    BY <1>1, <1>3, <1>6, <1>8
  <2>2. n + 1 \in 1 .. 2 /\ FieldsRead(s, n + 1, k, ValueOf(s, n + 1))
    BY <1>2, <1>5, <1>8, <2>1, FieldMore
  <2> QED
    BY <2>1, <2>2 DEF SeparatorPlace, s
<1>9. ASSUME NEW N \in 1 .. 2, ObjectOf(s, N)
      PROVE  \/ f = KEY /\ k = Unset /\ Stored(c, KeySize) # Unset
             \/ f = KEY_ID /\ id = Unset /\ Stored(c, KeyIdSize) # Unset
  <2>1. n > 0 => 4 * n + 1 <= Len(s) /\ ~Closes(s, 4 * n + 1)
    BY <1>2, NoTwoMarks
  <2>2. /\ 4 * (n + 1) + 1 <= Len(s) /\ FieldAt(s, n + 1)
        /\ NameOf(s, n + 1) = KEY => k = Unset
        /\ NameOf(s, n + 1) = KEY_ID => id = Unset
    BY <1>2, <1>5, <1>9, <2>1, FieldToCome
  <2>3. m <= Len(s)
    BY <1>3, <1>5, <2>2
  <2>4. CASE IsName(NameAt(s, n + 1), KEY) /\ IsString(ValueAt(s, n + 1), KeySize)
    <3>1. NameOf(s, n + 1) = KEY
      BY <2>4 DEF IsName, NameOf
    <3> QED
      BY <1>1, <1>2, <1>6, <2>2, <2>3, <2>4, <3>1
  <2>5. CASE IsName(NameAt(s, n + 1), KEY_ID) /\ IsString(ValueAt(s, n + 1), KeyIdSize)
    <3>1. NameOf(s, n + 1) = KEY_ID
      BY <2>5 DEF IsName, NameOf
    <3> QED
      BY <1>1, <1>2, <1>6, <2>2, <2>3, <2>5, <3>1
  <2> QED
    BY <2>2, <2>4, <2>5 DEF FieldAt
<1>10. IsKeyObject(doc) <=> \E N \in 1 .. 2 : ObjectOf(s, N)
  BY KeyObjects DEF s
<1> QED
  BY <1>7, <1>8, <1>9, <1>10

\* What follows a field.
LEMMA SeparatorReads ==
    ASSUME IsDocument(doc), NEW c, NEW k, NEW id, SeparatorPlace(doc, c, k, id)
    PROVE  /\ At(c).kind = "," => NamePlace(doc, c + 1, k, id) /\ c + 1 \in 1 .. Len(doc) + 1
           /\ At(c).kind = "}" => FinishPlace(doc, Skip(c + 1), k, id)
           /\ At(c).kind # "," /\ At(c).kind # "}" => ~IsKeyObject(doc)
<1>1. doc \in Seq(Lexeme)
  BY DEF IsDocument
<1> DEFINE s == Solid(doc)
<1>2. PICK n \in 1 .. 2 : FieldsRead(s, n, k, id) /\ Stands(doc, c, 4 * n + 1)
  BY DEF SeparatorPlace
<1>3. PICK m \in Nat \ {0} : m = 4 * n + 1 /\ m + 1 = 4 * n + 2
  OBVIOUS
<1>4. s \in Seq(Lexeme) /\ Len(s) \in Nat
  BY <1>1, SolidType
<1>5. /\ At(c).kind = "}" <=> m <= Len(s) /\ Closes(s, m)
      /\ At(c).kind = "," <=> m <= Len(s) /\ IsComma(s, m)
  BY <1>1, <1>2, <1>3, Sees
<1>6. At(c).kind # "NUL" => /\ c + 1 \in 1 .. Len(doc) + 1 /\ Before(doc, c + 1) = m
                            /\ Stands(doc, Skip(c + 1), m + 1)
  BY <1>1, <1>2, <1>3, PastMark
<1>7. ASSUME At(c).kind = "," PROVE NamePlace(doc, c + 1, k, id) /\ c + 1 \in 1 .. Len(doc) + 1
  <2>1. n \in 0 .. 2 /\ n > 0
    OBVIOUS
  <2>2. At(c).kind # "NUL"
    BY <1>7
  <2> HIDE DEF s
  <2>3. c + 1 \in 1 .. Len(doc) + 1 /\ Before(doc, c + 1) = 4 * n + 1
        /\ 4 * n + 1 <= Len(s) /\ IsComma(s, 4 * n + 1)
    BY <1>3, <1>5, <1>6, <1>7, <2>2, Zenon
  <2> QED
    BY <1>2, <2>1, <2>3, Zenon DEF NamePlace, s
<1>8. ASSUME At(c).kind = "}" PROVE FinishPlace(doc, Skip(c + 1), k, id)
  <2>1. At(c).kind # "NUL"
    BY <1>8
  <2> HIDE DEF s
  <2>2. Stands(doc, Skip(c + 1), 4 * n + 2) /\ 4 * n + 1 <= Len(s) /\ Closes(s, 4 * n + 1)
    BY <1>3, <1>5, <1>6, <1>8, <2>1, Zenon
  <2> QED
    BY <1>2, <2>2, Zenon DEF FinishPlace, s
<1>9. ASSUME NEW N \in 1 .. 2, ObjectOf(s, N)
      PROVE  At(c).kind = "," \/ At(c).kind = "}"
  <2> HIDE DEF s
  <2>1. Len(s) = 4 * N + 1 /\ Closes(s, 4 * N + 1) /\ (N = 2 => IsComma(s, 5))
    BY <1>9 DEF ObjectOf
  <2>2. 4 * n <= Len(s)
    BY <1>2 DEF FieldsRead
  <2>3. n <= N
    BY <2>1, <2>2
  <2>4. CASE n = N
    <3>1. m <= Len(s) /\ Closes(s, m)
      BY <1>3, <2>1, <2>4
    <3> QED
      BY <1>5, <3>1
  <2>5. CASE n # N
    <3>1. n = 1 /\ N = 2 /\ m = 5 /\ m <= Len(s)
      BY <1>3, <2>1, <2>3, <2>5
    <3> QED
      BY <1>5, <2>1, <3>1
  <2> QED
    BY <2>4, <2>5
<1>10. IsKeyObject(doc) <=> \E N \in 1 .. 2 : ObjectOf(s, N)
  BY KeyObjects
<1> QED
  BY <1>7, <1>8, <1>9, <1>10

\* The end of the document.
LEMMA FinishReads ==
    ASSUME IsDocument(doc), NEW c, NEW k, NEW id, FinishPlace(doc, c, k, id)
    PROVE  /\ IsKeyObject(doc) <=> At(c).kind = "NUL" /\ Trimmed(k) \notin {Unset, <<>>}
           /\ IsKeyObject(doc) => FieldOf(doc, KEY) = k /\ FieldOf(doc, KEY_ID) = id
           /\ k \in Seq(Byte) \cup {Unset} /\ id \in Seq(Byte) \cup {Unset}
<1>1. doc \in Seq(Lexeme)
  BY DEF IsDocument
<1> DEFINE s == Solid(doc)
<1>2. PICK n \in 1 .. 2 : /\ FieldsRead(s, n, k, id) /\ Stands(doc, c, 4 * n + 2)
                          /\ 4 * n + 1 <= Len(s) /\ Closes(s, 4 * n + 1)
  BY DEF FinishPlace
<1>3. s \in Seq(Lexeme) /\ Len(s) \in Nat
  BY <1>1, SolidType
<1>4. At(c).kind = "NUL" <=> Len(s) = 4 * n + 1
  <2>1. 4 * n + 2 \in Nat \ {0}
    OBVIOUS
  <2>2. At(c).kind = "NUL" <=> ~(4 * n + 2 <= Len(s))
    BY <1>1, <1>2, <2>1, Sees
  <2>3. ~(4 * n + 2 <= Len(s)) <=> Len(s) = 4 * n + 1
    BY <1>2, <1>3
  <2> QED
    BY <2>2, <2>3
<1> HIDE DEF s
<1>5. IsKeyObject(doc) <=> \E N \in 1 .. 2 : ObjectOf(s, N)
  BY KeyObjects DEF s
<1>6. IsKeyObject(doc) <=> Len(s) = 4 * n + 1 /\ k # Unset /\ Trim(k) # <<>>
  BY <1>2, <1>3, <1>5, ObjectEnds
<1>7. Holds(s, n, KEY, k) /\ Holds(s, n, KEY_ID, id) /\ (n = 2 => NameOf(s, 1) # NameOf(s, 2))
  BY <1>2 DEF FieldsRead
<1>8. k \in Seq(Byte) \cup {Unset} /\ id \in Seq(Byte) \cup {Unset}
  BY <1>7 DEF Holds
<1>9. k # Unset /\ Trim(k) # <<>> <=> Trimmed(k) \notin {Unset, <<>>}
  <2>1. CASE k = Unset
    BY <2>1 DEF Trimmed
  <2>2. CASE k # Unset
    <3>1. Trim(k) \in Seq(Byte)
      BY <1>8, <2>2, TrimLeaves
    <3>2. Trim(k) # Unset
      BY <3>1, UnsetAssumption
    <3> QED
      BY <2>2, <3>2 DEF Trimmed
  <2> QED
    BY <2>1, <2>2
<1>10. ASSUME Len(s) = 4 * n + 1 PROVE FieldOf(doc, KEY) = k /\ FieldOf(doc, KEY_ID) = id
  BY <1>7, <1>10, FieldIs DEF s
<1> QED
  BY <1>4, <1>6, <1>8, <1>9, <1>10

-----------------------------------------------------------------------------
(* The parse as a whole.                                                     *)

\* Label by label: where the cursor stands, what has been read so far, and at
\* the end what the grammar says of it.
DocInv ==
    /\ DocTypeInv
    /\ pc \notin {"dispatch", "done"} => ReadsAsObject(doc, format)
    /\ pc = "dispatch" => cursor = 1 /\ key = Unset /\ keyId = Unset
    /\ pc = "open" => Stands(doc, cursor, 1) /\ key = Unset /\ keyId = Unset
    /\ pc = "name" => NamePlace(doc, cursor, key, keyId)
    /\ pc = "value" => ValuePlace(doc, cursor, field, key, keyId)
    /\ pc = "separator" => SeparatorPlace(doc, cursor, key, keyId)
    /\ pc = "finish" => FinishPlace(doc, cursor, key, keyId)
    /\ AcceptsTheGrammar /\ FieldsAsWritten

\* A call starts in front of its document, with nothing read.
LEMMA DocInit == OutputInit => DocInv
<1> SUFFICES ASSUME OutputInit PROVE DocInv
  OBVIOUS
<1>1. DocTypeInv
  BY DocTypeInit
<1>2. pc = "dispatch" /\ cursor = 1 /\ key = Unset /\ keyId = Unset
  BY CallBegins
<1> QED
  BY <1>1, <1>2, Zenon DEF DocInv, AcceptsTheGrammar, FieldsAsWritten

\* Every step of the parser leaves it at a place the document allows.
LEMMA DocStep == DocInv /\ [Next]_docVars => DocInv'
<1> SUFFICES ASSUME DocInv, [Next]_docVars PROVE DocInv'
  OBVIOUS
<1>0. /\ DocTypeInv /\ IsDocument(doc) /\ doc \in Seq(Lexeme) /\ cursor \in 1 .. Len(doc) + 1
      /\ format \in Formats /\ hasKeyId \in BOOLEAN
      /\ pc # "done" => hasKeyId = FALSE /\ status = ERR_INPUT
      /\ pc \notin {"dispatch", "done"} => (Accepted(doc, format) <=> IsKeyObject(doc))
      /\ pc \notin {"dispatch", "done"} => ReadsAsObject(doc, format)
  BY DEF DocInv, DocTypeInv, IsDocument, Accepted
<1>1. DocTypeInv'
  BY <1>0, DocTypeStep
<1>2. CASE UNCHANGED docVars
  BY <1>1, <1>2 DEF docVars, DocInv, AcceptsTheGrammar, FieldsAsWritten
<1>3. ASSUME Fail, pc # "done", UNCHANGED <<doc, format>>, ~Accepted(doc, format)
      PROVE  DocInv'
  <2>1. pc' = "done" /\ status' = ERR_INPUT /\ doc' = doc /\ format' = format
    BY <1>0, <1>3 DEF Fail
  <2>2. ERR_INPUT # OK
    BY DEF ERR_INPUT, OK
  <2>3. AcceptsTheGrammar'
    BY <1>3, <2>1, <2>2 DEF AcceptsTheGrammar
  <2>4. FieldsAsWritten'
    BY <2>1, <2>2 DEF FieldsAsWritten
  <2> QED
    BY <1>1, <2>1, <2>3, <2>4 DEF DocInv
<1>4. ASSUME NEW label \in {"open", "name", "value", "separator", "finish"}, pc' = label,
             UNCHANGED <<doc, format>>, ReadsAsObject(doc, format),
             label = "open" => Stands(doc, cursor', 1) /\ key' = Unset /\ keyId' = Unset,
             label = "name" => NamePlace(doc, cursor', key', keyId'),
             label = "value" => ValuePlace(doc, cursor', field', key', keyId'),
             label = "separator" => SeparatorPlace(doc, cursor', key', keyId'),
             label = "finish" => FinishPlace(doc, cursor', key', keyId')
      PROVE  DocInv'
  BY <1>1, <1>4 DEF DocInv, AcceptsTheGrammar, FieldsAsWritten
<1>5. ASSUME pc' = "done", status' = OK, UNCHANGED <<doc, format>>, Accepted(doc, format),
             IF ReadsAsObject(doc, format)
             THEN /\ key' = Trim(FieldOf(doc, KEY))
                  /\ hasKeyId' <=> NamedBy(doc) # Unset
                  /\ hasKeyId' => keyId' = NamedBy(doc)
             ELSE key' = Trim(Spelling(doc)) /\ ~hasKeyId'
      PROVE  DocInv'
  <2>1. AcceptsTheGrammar'
    BY <1>5 DEF AcceptsTheGrammar
  <2>2. FieldsAsWritten'
    BY <1>5, Zenon DEF FieldsAsWritten
  <2> QED
    BY <1>1, <1>5, <2>1, <2>2 DEF DocInv
<1>6. CASE Dispatch
  <2>0. pc = "dispatch" /\ UNCHANGED <<doc, format>> /\ pc # "done"
    BY <1>6 DEF Dispatch
  <2> DEFINE first == Skip(1)
             text == Spelling(SubSeq(doc, first, Len(doc)))
             asJson == format = "json" \/ (format = "auto" /\ At(first).kind = "{")
             copied == Len(text) < KeySize /\ Trim(text) # <<>>
  <2>1. Stands(doc, first, 1)
    <3>1. 1 \in 1 .. Len(doc) + 1 /\ 1 - 1 = 0 /\ 1 \in Nat \ {0}
      BY <1>0
    <3>2. Before(doc, 1) = 1 - 1
      BY <1>0, <3>1, SolidUnfold DEF Before
    <3> QED
      BY <1>0, <3>1, <3>2, SkipStands
  <2>2. copied <=> IsKeyText(doc)
    BY <1>0, KeyTextRead
  <2>3. Trim(text) = Trim(Spelling(doc))
    BY <1>0, KeyTextRead
  <2>4. asJson <=> ReadsAsObject(doc, format)
    <3>1. At(first).kind = "{" <=> 1 <= Len(Solid(doc)) /\ Opens(Solid(doc), 1)
      <4>1. 1 \in Nat \ {0}
        OBVIOUS
      <4> HIDE DEF first, text, asJson, copied
      <4> QED
        BY <1>0, <2>1, <4>1, Sees
    <3>2. 1 <= Len(Solid(doc)) <=> Solid(doc) # <<>>
      BY <1>0, SolidType
    <3> HIDE DEF first
    <3> QED
      BY <3>1, <3>2, Zenon DEF ReadsAsObject, Opens
  <2>5. \/ asJson /\ Advance("open", first) /\ UNCHANGED <<field, key, keyId>>
        \/ ~asJson /\ copied /\ key' = Trim(text) /\ status' = OK /\ pc' = "done"
           /\ UNCHANGED <<cursor, field, keyId, hasKeyId>>
        \/ ~asJson /\ ~copied /\ Fail
    BY <1>6, Zenon DEF Dispatch
  <2> HIDE DEF first, text, asJson, copied
  <2>6. CASE asJson /\ Advance("open", first) /\ UNCHANGED <<field, key, keyId>>
    <3>1. pc' = "open" /\ cursor' = first /\ key' = key /\ keyId' = keyId
      BY <2>6 DEF Advance
    <3>2. key = Unset /\ keyId = Unset
      BY <2>0 DEF DocInv
    <3> QED
      BY <1>4, <2>0, <2>1, <2>4, <2>6, <3>1, <3>2
  <2>7. CASE ~asJson /\ copied /\ key' = Trim(text) /\ status' = OK /\ pc' = "done"
             /\ UNCHANGED <<cursor, field, keyId, hasKeyId>>
    <3>1. ~ReadsAsObject(doc, format) /\ Accepted(doc, format)
      BY <2>2, <2>4, <2>7 DEF Accepted
    <3>2. hasKeyId' = FALSE
      BY <1>0, <2>0, <2>7
    <3> QED
      BY <1>5, <2>0, <2>3, <2>7, <3>1, <3>2
  <2>8. CASE ~asJson /\ ~copied /\ Fail
    <3>1. ~Accepted(doc, format)
      BY <2>2, <2>4, <2>8 DEF Accepted
    <3> QED
      BY <1>3, <2>0, <2>8, <3>1
  <2> QED
    BY <2>5, <2>6, <2>7, <2>8
<1>7. CASE Open
  <2>0. pc = "open" /\ UNCHANGED <<doc, format>> /\ pc \notin {"dispatch", "done"}
    BY <1>7 DEF Open
  <2>1. Stands(doc, cursor, 1) /\ key = Unset /\ keyId = Unset
    BY <2>0 DEF DocInv
  <2>2. CASE /\ At(cursor).kind = "{" /\ At(Skip(cursor + 1)).kind # "}"
             /\ Advance("name", Skip(cursor + 1)) /\ UNCHANGED <<field, key, keyId>>
    <3>1. NamePlace(doc, Skip(cursor + 1), Unset, Unset)
      BY <1>0, <2>1, <2>2, OpenReads
    <3>2. pc' = "name" /\ cursor' = Skip(cursor + 1) /\ key' = key /\ keyId' = keyId
      BY <2>2 DEF Advance
    <3> QED
      BY <1>0, <1>4, <2>0, <2>1, <3>1, <3>2
  <2>3. CASE ~(At(cursor).kind = "{" /\ At(Skip(cursor + 1)).kind # "}") /\ Fail
    <3>1. ~IsKeyObject(doc)
      BY <1>0, <2>1, <2>3, OpenReads
    <3> QED
      BY <1>0, <1>3, <2>0, <2>3, <3>1
  <2> QED
    BY <1>7, <2>2, <2>3 DEF Open
<1>8. CASE Name
  <2>0. pc = "name" /\ UNCHANGED <<doc, format>> /\ pc \notin {"dispatch", "done"}
    BY <1>8 DEF Name
  <2> DEFINE name == Skip(cursor)
             colon == Skip(name + 1)
             ok == Stored(name, FieldSize) # Unset /\ At(colon).kind = ":"
  <2>1. NamePlace(doc, cursor, key, keyId)
    BY <2>0 DEF DocInv
  <2>2. /\ ok => ValuePlace(doc, Skip(colon + 1), Stored(name, FieldSize), key, keyId)
        /\ ~ok => ~IsKeyObject(doc)
    BY <1>0, <2>1, NameReads
  <2>3. \/ ok /\ field' = Stored(name, FieldSize) /\ Advance("value", Skip(colon + 1))
           /\ UNCHANGED <<key, keyId>>
        \/ ~ok /\ Fail
    BY <1>8 DEF Name
  <2> HIDE DEF ok, name, colon
  <2>4. CASE ok /\ field' = Stored(name, FieldSize) /\ Advance("value", Skip(colon + 1))
             /\ UNCHANGED <<key, keyId>>
    <3>1. pc' = "value" /\ cursor' = Skip(colon + 1) /\ key' = key /\ keyId' = keyId
      BY <2>4 DEF Advance
    <3> QED
      BY <1>0, <1>4, <2>0, <2>2, <2>4, <3>1
  <2>5. CASE ~ok /\ Fail
    BY <1>0, <1>3, <2>0, <2>2, <2>5
  <2> QED
    BY <2>3, <2>4, <2>5
<1>9. CASE Value
  <2>0. pc = "value" /\ UNCHANGED <<doc, format>> /\ pc \notin {"dispatch", "done"}
    BY <1>9 DEF Value
  <2> DEFINE storesKey == field = KEY /\ key = Unset /\ Stored(cursor, KeySize) # Unset
             storesId  == field = KEY_ID /\ keyId = Unset /\ Stored(cursor, KeyIdSize) # Unset
  <2>1. ValuePlace(doc, cursor, field, key, keyId)
    BY <2>0 DEF DocInv
  <2>2. /\ storesKey => SeparatorPlace(doc, Skip(cursor + 1), Stored(cursor, KeySize), keyId)
        /\ storesId => SeparatorPlace(doc, Skip(cursor + 1), key, Stored(cursor, KeyIdSize))
        /\ ~storesKey /\ ~storesId => ~IsKeyObject(doc)
    BY <1>0, <2>1, ValueReads
  <2>3. \/ /\ storesKey \/ storesId
           /\ key' = IF storesKey THEN Stored(cursor, KeySize) ELSE key
           /\ keyId' = IF storesId THEN Stored(cursor, KeyIdSize) ELSE keyId
           /\ Advance("separator", Skip(cursor + 1)) /\ UNCHANGED field
        \/ ~storesKey /\ ~storesId /\ Fail
    BY <1>9 DEF Value
  <2>4. ~(storesKey /\ storesId)
    BY TwoNames
  <2> HIDE DEF storesKey, storesId
  <2>5. CASE /\ storesKey \/ storesId
             /\ key' = IF storesKey THEN Stored(cursor, KeySize) ELSE key
             /\ keyId' = IF storesId THEN Stored(cursor, KeyIdSize) ELSE keyId
             /\ Advance("separator", Skip(cursor + 1)) /\ UNCHANGED field
    <3>1. pc' = "separator" /\ cursor' = Skip(cursor + 1)
      BY <2>5 DEF Advance
    <3>2. SeparatorPlace(doc, Skip(cursor + 1), key', keyId')
      BY <2>2, <2>4, <2>5
    <3> QED
      BY <1>0, <1>4, <2>0, <3>1, <3>2
  <2>6. CASE ~storesKey /\ ~storesId /\ Fail
    BY <1>0, <1>3, <2>0, <2>2, <2>6
  <2> QED
    BY <2>3, <2>5, <2>6
<1>10. CASE Separator
  <2>0. pc = "separator" /\ UNCHANGED <<doc, format>> /\ pc \notin {"dispatch", "done"}
    BY <1>10 DEF Separator
  <2>1. SeparatorPlace(doc, cursor, key, keyId)
    BY <2>0 DEF DocInv
  <2>2. /\ At(cursor).kind = "," => NamePlace(doc, cursor + 1, key, keyId)
        /\ At(cursor).kind = "}" => FinishPlace(doc, Skip(cursor + 1), key, keyId)
        /\ At(cursor).kind # "," /\ At(cursor).kind # "}" => ~IsKeyObject(doc)
    BY <1>0, <2>1, SeparatorReads
  <2>3. CASE At(cursor).kind = "," /\ Advance("name", cursor + 1) /\ UNCHANGED <<field, key, keyId>>
    <3>1. pc' = "name" /\ cursor' = cursor + 1 /\ key' = key /\ keyId' = keyId
      BY <2>3 DEF Advance
    <3> QED
      BY <1>0, <1>4, <2>0, <2>2, <2>3, <3>1
  <2>4. CASE /\ At(cursor).kind = "}"
             /\ Advance("finish", Skip(cursor + 1)) /\ UNCHANGED <<field, key, keyId>>
    <3>1. pc' = "finish" /\ cursor' = Skip(cursor + 1) /\ key' = key /\ keyId' = keyId
      BY <2>4 DEF Advance
    <3> QED
      BY <1>0, <1>4, <2>0, <2>2, <2>4, <3>1
  <2>5. CASE At(cursor).kind \notin {",", "}"} /\ Fail
    BY <1>0, <1>3, <2>0, <2>2, <2>5
  <2> QED
    BY <1>10, <2>3, <2>4, <2>5 DEF Separator
<1>11. CASE Finish
  <2>0. pc = "finish" /\ UNCHANGED <<doc, format>> /\ pc \notin {"dispatch", "done"}
    BY <1>11 DEF Finish
  <2>1. FinishPlace(doc, cursor, key, keyId)
    BY <2>0 DEF DocInv
  <2>2. /\ IsKeyObject(doc) <=> At(cursor).kind = "NUL" /\ Trimmed(key) \notin {Unset, <<>>}
        /\ IsKeyObject(doc) => FieldOf(doc, KEY) = key /\ FieldOf(doc, KEY_ID) = keyId
        /\ key \in Seq(Byte) \cup {Unset} /\ keyId \in Seq(Byte) \cup {Unset}
    BY <1>0, <2>1, FinishReads
  <2>3. CASE /\ At(cursor).kind = "NUL" /\ Trimmed(key) \notin {Unset, <<>>}
             /\ key' = Trim(key) /\ keyId' = Trimmed(keyId)
             /\ hasKeyId' = (Trimmed(keyId) \notin {Unset, <<>>})
             /\ status' = OK /\ pc' = "done" /\ UNCHANGED <<cursor, field>>
    <3>1. FieldOf(doc, KEY) = key /\ FieldOf(doc, KEY_ID) = keyId /\ Accepted(doc, format)
      BY <1>0, <2>0, <2>2, <2>3
    <3>2. keyId # Unset => Trim(keyId) # Unset
      BY <2>2, TrimLeaves, UnsetAssumption
    <3>3. /\ Trimmed(keyId) \notin {Unset, <<>>} <=> NamedBy(doc) # Unset
          /\ Trimmed(keyId) \notin {Unset, <<>>} => Trimmed(keyId) = NamedBy(doc)
      BY <3>1, <3>2 DEF Trimmed, NamedBy
    <3>4. /\ hasKeyId' <=> NamedBy(doc) # Unset
          /\ hasKeyId' => keyId' = NamedBy(doc)
      BY <2>3, <3>3, Zenon
    <3> QED
      BY <1>0, <1>5, <2>0, <2>3, <3>1, <3>4
  <2>4. CASE ~(At(cursor).kind = "NUL" /\ Trimmed(key) \notin {Unset, <<>>}) /\ Fail
    BY <1>0, <1>3, <2>0, <2>2, <2>4
  <2> QED
    BY <1>11, <2>3, <2>4 DEF Finish
<1> QED
  BY <1>2, <1>6, <1>7, <1>8, <1>9, <1>10, <1>11 DEF Next

\* So the place is right throughout a call, and in the output behind it.
LEMMA DocInvariant == OutputSpec => []DocInv
<1>1. OutputInit => DocInv
  BY DocInit
<1>2. DocInv /\ [OutputNext]_allVars => DocInv'
  BY DocStep, DocSteps
<1> QED
  BY <1>1, <1>2, PTL DEF OutputSpec

\* For every document, format and size of the buffers: the parser accepts
\* exactly what the grammar describes, in the reading the format names.
THEOREM AcceptsTheGrammarHolds == OutputSpec => []AcceptsTheGrammar
<1>1. DocInv => AcceptsTheGrammar
  BY DEF DocInv
<1> QED
  BY <1>1, DocInvariant, PTL

\* What is accepted is read as it was written: the key and the key_id are the
\* trimmed texts of their fields, in whatever order they stand, and there is
\* a key_id exactly if something is left of its text.
THEOREM FieldsAsWrittenHolds == OutputSpec => []FieldsAsWritten
<1>1. DocInv => FieldsAsWritten
  BY DEF DocInv
<1> QED
  BY <1>1, DocInvariant, PTL

-----------------------------------------------------------------------------
(* Writing: what the bytes of an escaped string mean.                        *)

\* The bytes of the escape that begins at e.
CoverOf(raw, e) == IF e < Len(raw) /\ raw[e + 1] = 117 THEN e + 1 .. e + 5 ELSE {e + 1}

\* No escape is left open at the end.
Settled(raw) == raw \in Seq(Byte) /\ Len(raw) \notin Escapes(raw) /\ Covered(raw) \subseteq 1 .. Len(raw)

\* The bytes covered are those of the escapes.
LEMMA CoveredIs == ASSUME NEW raw, NEW i PROVE i \in Covered(raw) <=> \E e \in Escapes(raw) : i \in CoverOf(raw, e)
BY DEF Covered, CoverOf

\* Escapes begin inside the string.
LEMMA EscapesInside == ASSUME NEW raw PROVE Escapes(raw) \subseteq 1 .. Len(raw)
BY DEF Escapes

\* What is appended to a settled string leaves its escapes as they are.
LEMMA EscapesKept ==
    ASSUME NEW raw \in Seq(Byte), NEW w \in Seq(Byte), Len(raw) <= Len(w),
           \A i \in 1 .. Len(raw) : w[i] = raw[i]
    PROVE  \A i \in 0 .. Len(raw) : i \in Escapes(w) <=> i \in Escapes(raw)
<1> DEFINE n == Len(raw)
           T == {i \in 0 .. n : i \in Escapes(w) <=> i \in Escapes(raw)}
<1>1. n \in Nat /\ Len(w) \in Nat
  OBVIOUS
<1>2. 0 \in T
  BY <1>1, EscapesInside
<1>3. \A i \in 0 .. n - 1 : i \in T => i + 1 \in T
  <2> SUFFICES ASSUME NEW i \in 0 .. n - 1, i \in T PROVE i + 1 \in T
    OBVIOUS
  <2>1. i + 1 \in 1 .. Len(raw) /\ i + 1 \in 1 .. Len(w) /\ (i + 1) - 1 = i
    BY <1>1
  <2>2. i + 1 \in Escapes(raw) <=> raw[i + 1] = Backslash /\ i \notin Escapes(raw)
    BY <2>1, EscapesStep
  <2>3. i + 1 \in Escapes(w) <=> w[i + 1] = Backslash /\ i \notin Escapes(w)
    BY <2>1, EscapesStep
  <2> QED
    BY <2>1, <2>2, <2>3
<1>4. \A i \in 0 .. n : i \in T
  <2> HIDE DEF T
  <2> QED
    BY <1>1, <1>2, <1>3, BoundedInduction
<1> QED
  BY <1>4

\* and the bytes they cover, and the text read so far.
LEMMA TextKept ==
    ASSUME NEW raw, Settled(raw), NEW w \in Seq(Byte), Len(raw) <= Len(w),
           \A i \in 1 .. Len(raw) : w[i] = raw[i]
    PROVE  /\ \A i \in 1 .. Len(raw) : i \in Covered(raw) => i \in Covered(w)
           /\ \A i \in 1 .. Len(w) :
                 i \in Covered(w) => \/ i \in 1 .. Len(raw) /\ i \in Covered(raw)
                                     \/ \E e \in Escapes(w) : e > Len(raw) /\ i \in CoverOf(w, e)
           /\ TextOf(w)[Len(raw)] = Meaning(raw)
<1> DEFINE n == Len(raw)
           T == {i \in 0 .. n : TextOf(w)[i] = TextOf(raw)[i]}
<1>1. n \in Nat /\ Len(w) \in Nat /\ raw \in Seq(Byte) /\ n \notin Escapes(raw)
      /\ Covered(raw) \subseteq 1 .. n
  BY DEF Settled
<1>2. \A i \in 0 .. n : i \in Escapes(w) <=> i \in Escapes(raw)
  BY <1>1, EscapesKept
<1>3. ASSUME NEW e \in Escapes(raw) PROVE CoverOf(w, e) = CoverOf(raw, e) /\ e \in 1 .. n - 1
  <2>1. e \in 1 .. n /\ e # n
    BY <1>1, EscapesInside
  <2>2. e + 1 \in 1 .. n
    BY <1>1, <2>1
  <2> QED
    BY <1>1, <2>1, <2>2 DEF CoverOf
<1>4. ASSUME NEW i \in 1 .. n, i \in Covered(raw) PROVE i \in Covered(w)
  <2>1. PICK e \in Escapes(raw) : i \in CoverOf(raw, e)
    BY <1>4, CoveredIs
  <2>2. e \in Escapes(w)
    BY <1>1, <1>2, <1>3
  <2> QED
    BY <1>3, <2>1, <2>2, CoveredIs
<1>5. ASSUME NEW i \in 1 .. Len(w), i \in Covered(w),
             ~ \E e \in Escapes(w) : e > n /\ i \in CoverOf(w, e)
      PROVE  i \in 1 .. n /\ i \in Covered(raw)
  <2>1. PICK e \in Escapes(w) : i \in CoverOf(w, e)
    BY <1>5, CoveredIs
  <2>2. e \in 0 .. n
    BY <1>1, <1>5, <2>1, EscapesInside
  <2>3. e \in Escapes(raw)
    BY <1>2, <2>2
  <2>4. i \in Covered(raw)
    BY <1>3, <2>1, <2>3, CoveredIs
  <2> QED
    BY <1>1, <2>4
<1>6. ASSUME NEW i \in 1 .. n PROVE i \in Covered(w) => i \in Covered(raw)
  <2>1. \A e \in Escapes(w) : e > n => i \notin CoverOf(w, e)
    <3> TAKE e \in Escapes(w)
    <3> HAVE e > n
    <3>1. e \in Nat
      BY <1>1, EscapesInside
    <3> QED
      BY <1>1, <3>1 DEF CoverOf
  <2>2. i \in 1 .. Len(w)
    BY <1>1
  <2> QED
    BY <1>5, <2>1, <2>2
<1>7. ASSUME NEW i \in 1 .. n, i \notin Covered(raw) PROVE UnitOf(w, i) = UnitOf(raw, i)
  <2>1. i \in Escapes(w) <=> i \in Escapes(raw)
    BY <1>1, <1>2
  <2>2. CASE i \notin Escapes(raw)
    BY <1>1, <2>1, <2>2 DEF UnitOf
  <2>3. CASE i \in Escapes(raw)
    <3>1. i + 1 \in 1 .. n /\ w[i + 1] = raw[i + 1]
      BY <1>1, <1>3, <2>3
    <3>2. raw[i + 1] = 117 => i + 4 \in 1 .. n /\ i + 5 \in 1 .. n
      <4> SUFFICES ASSUME raw[i + 1] = 117 PROVE i + 4 \in 1 .. n /\ i + 5 \in 1 .. n
        OBVIOUS
      <4>1. i + 4 \in CoverOf(raw, i) /\ i + 5 \in CoverOf(raw, i)
        BY <1>1, <3>1 DEF CoverOf
      <4>2. i + 4 \in Covered(raw) /\ i + 5 \in Covered(raw)
        BY <2>3, <4>1, CoveredIs
      <4> QED
        BY <1>1, <4>2
    <3>3. EscapeValue(w, i) = EscapeValue(raw, i)
      <4>1. CASE raw[i + 1] # 117
        BY <3>1, <4>1 DEF EscapeValue
      <4>2. CASE raw[i + 1] = 117
        <5>1. w[i + 4] = raw[i + 4] /\ w[i + 5] = raw[i + 5]
          BY <3>2, <4>2
        <5> QED
          BY <3>1, <5>1 DEF EscapeValue
      <4> QED
        BY <4>1, <4>2
    <3> QED
      BY <2>1, <2>3, <3>3 DEF UnitOf
  <2> QED
    BY <2>2, <2>3
<1>8. 0 \in T
  BY <1>1, TextUnfold
<1>9. \A i \in 1 .. Len(raw) :
          /\ i \in Covered(raw) => TextOf(raw)[i] = TextOf(raw)[i - 1]
          /\ i \notin Covered(raw) => TextOf(raw)[i] = Append(TextOf(raw)[i - 1], UnitOf(raw, i))
  BY <1>1, TextUnfold, Zenon
<1>10. \A i \in 1 .. Len(w) :
          /\ i \in Covered(w) => TextOf(w)[i] = TextOf(w)[i - 1]
          /\ i \notin Covered(w) => TextOf(w)[i] = Append(TextOf(w)[i - 1], UnitOf(w, i))
  BY <1>1, TextUnfold, Zenon
<1>11. \A i \in 0 .. n - 1 : i \in T => i + 1 \in T
  <2> SUFFICES ASSUME NEW i \in 0 .. n - 1, i \in T PROVE i + 1 \in T
    OBVIOUS
  <2>1. i + 1 \in 1 .. n /\ i + 1 \in 1 .. Len(w) /\ (i + 1) - 1 = i /\ i + 1 \in 0 .. n
    BY <1>1
  <2>2. i + 1 \in Covered(w) <=> i + 1 \in Covered(raw)
    BY <1>4, <1>6, <2>1
  <2>3. /\ i + 1 \in Covered(raw) => TextOf(raw)[i + 1] = TextOf(raw)[i]
        /\ i + 1 \notin Covered(raw) => TextOf(raw)[i + 1] = Append(TextOf(raw)[i], UnitOf(raw, i + 1))
    BY <1>9, <2>1
  <2>4. /\ i + 1 \in Covered(w) => TextOf(w)[i + 1] = TextOf(w)[i]
        /\ i + 1 \notin Covered(w) => TextOf(w)[i + 1] = Append(TextOf(w)[i], UnitOf(w, i + 1))
    BY <1>10, <2>1
  <2>5. TextOf(w)[i] = TextOf(raw)[i]
    OBVIOUS
  <2>6. TextOf(w)[i + 1] = TextOf(raw)[i + 1]
    BY <1>7, <2>1, <2>2, <2>3, <2>4, <2>5, Zenon
  <2> QED
    BY <2>1, <2>6
<1>12. \A i \in 0 .. n : i \in T
  <2> HIDE DEF T
  <2> QED
    BY <1>1, <1>8, <1>11, BoundedInduction
<1>13. TextOf(w)[n] = TextOf(raw)[n] /\ Meaning(raw) = TextOf(raw)[n]
  <2>1. n \in T
    BY <1>1, <1>12
  <2>2. Meaning(raw) = TextOf(raw)[n]
    BY <1>1, TextUnfold
  <2> QED
    BY <2>1, <2>2
<1> QED
  BY <1>4, <1>5, <1>13

\* A raw string that can stand between quotes and means the text t.
Spells(raw, t) ==
    /\ Settled(raw) /\ NoControl(raw) /\ Meaning(raw) = t
    /\ \A i \in 1 .. Len(raw) : raw[i] = Quote => i \in Covered(raw)

\* A byte that needs no escape is written as it is.
LEMMA SpellByte ==
    ASSUME NEW raw, NEW t, Spells(raw, t), NEW c \in Byte, c \notin {Quote, Backslash}, c >= Space
    PROVE  Spells(raw \o <<c>>, Append(t, c))
<1> DEFINE n == Len(raw)
<1>1. /\ n \in Nat /\ raw \in Seq(Byte) /\ n \notin Escapes(raw) /\ Covered(raw) \subseteq 1 .. n
      /\ Settled(raw) /\ NoControl(raw) /\ Meaning(raw) = t
      /\ \A i \in 1 .. n : raw[i] = Quote => i \in Covered(raw)
  BY DEF Spells, Settled
<1>2. PICK w \in Seq(Byte) : /\ w = raw \o <<c>> /\ Len(w) = n + 1 /\ w[n + 1] = c
                             /\ \A i \in 1 .. n : w[i] = raw[i]
  <2>1. raw \o <<c>> \in Seq(Byte) /\ Len(raw \o <<c>>) = n + 1 /\ (raw \o <<c>>)[n + 1] = c
        /\ \A i \in 1 .. n : (raw \o <<c>>)[i] = raw[i]
    BY <1>1
  <2> QED
    BY <2>1
<1> HIDE DEF n
<1>3. Len(raw) <= Len(w) /\ \A i \in 1 .. Len(raw) : w[i] = raw[i]
  BY <1>1, <1>2 DEF n
<1>4. n + 1 \notin Escapes(w) /\ \A i \in 0 .. n : i \in Escapes(w) <=> i \in Escapes(raw)
  <2>1. n + 1 \in 1 .. Len(w)
    BY <1>1, <1>2
  <2> QED
    BY <1>1, <1>2, <1>3, <2>1, EscapesStep, EscapesKept DEF n
<1>5. /\ \A i \in 1 .. n : i \in Covered(raw) => i \in Covered(w)
      /\ \A i \in 1 .. n + 1 : i \in Covered(w) => i \in Covered(raw)
      /\ TextOf(w)[n] = t
  <2>1. ~ \E e \in Escapes(w) : e > n
    <3>1. \A e \in Escapes(w) : e \in 1 .. n + 1
      BY <1>2, EscapesInside
    <3> QED
      BY <1>1, <1>4, <3>1
  <2> QED
    BY <1>1, <1>2, <1>3, <2>1, TextKept DEF n
<1>6. Covered(w) \subseteq 1 .. n + 1
  <2> SUFFICES ASSUME NEW i \in Covered(w) PROVE i \in 1 .. n + 1
    OBVIOUS
  <2>1. PICK e \in Escapes(w) : i \in CoverOf(w, e)
    BY CoveredIs
  <2>2. e \in 1 .. n /\ e \in Escapes(raw) /\ e < n
    <3>1. e \in 1 .. n + 1 /\ e # n + 1
      BY <1>2, <1>4, EscapesInside
    <3>2. e \in 1 .. n /\ e \in 0 .. n
      BY <1>1, <3>1
    <3>3. e \in Escapes(raw)
      BY <1>4, <3>2
    <3> QED
      BY <1>1, <3>2, <3>3
  <2>3. e + 1 \in 1 .. n /\ w[e + 1] = raw[e + 1]
    BY <1>1, <1>2, <2>2
  <2>4. CoverOf(w, e) = CoverOf(raw, e)
    BY <1>1, <1>2, <2>2, <2>3 DEF CoverOf, n
  <2>5. i \in Covered(raw)
    BY <2>1, <2>2, <2>4, CoveredIs
  <2> QED
    BY <1>1, <2>5
<1>7. n + 1 \notin Covered(w)
  BY <1>1, <1>5
<1>8. Meaning(w) = Append(t, c)
  <2>1. Meaning(w) = TextOf(w)[n + 1] /\ TextOf(w)[n + 1] = Append(TextOf(w)[(n + 1) - 1], UnitOf(w, n + 1))
    <3>1. n + 1 \in 1 .. Len(w)
      BY <1>1, <1>2
    <3> QED
      BY <1>2, <1>7, <3>1, TextUnfold
  <2>2. UnitOf(w, n + 1) = c /\ (n + 1) - 1 = n
    BY <1>1, <1>2, <1>4 DEF UnitOf
  <2> QED
    BY <1>5, <2>1, <2>2
<1>9. NoControl(w)
  <2>1. \A i \in 1 .. n : raw[i] >= Space
    BY <1>1 DEF NoControl, n
  <2> QED
    BY <1>1, <1>2, <2>1 DEF NoControl
<1>10. \A i \in 1 .. Len(w) : w[i] = Quote => i \in Covered(w)
  BY <1>1, <1>2, <1>5
<1>11. Settled(w)
  BY <1>2, <1>4, <1>6 DEF Settled
<1> QED
  BY <1>2, <1>8, <1>9, <1>10, <1>11 DEF Spells

\* A whole escape: two bytes, or six of them behind \u.
IsEscape(u) ==
    /\ u \in Seq(Byte) /\ u[1] = Backslash /\ Len(u) = IF u[2] = 117 THEN 6 ELSE 2
    /\ \A j \in 1 .. Len(u) : u[j] >= Space
    /\ \A j \in 3 .. Len(u) : u[j] # Backslash

\* A position behind n lies in what follows.
LEMMA SecondPart ==
    ASSUME NEW n \in Nat, NEW m \in Nat, NEW i \in 1 .. n + m, i > n
    PROVE  \E j \in 1 .. m : n + j = i
<1>1. i - n \in 1 .. m /\ n + (i - n) = i
  OBVIOUS
<1> QED
  BY <1>1

\* A string that goes on with a whole escape means one byte more.
LEMMA EscapeAdded ==
    ASSUME NEW raw, NEW t, Spells(raw, t), NEW u, IsEscape(u), NEW w \in Seq(Byte),
           NEW n \in Nat, n = Len(raw), NEW m \in Nat, m = Len(u), Len(w) = n + m,
           \A i \in 1 .. n : w[i] = raw[i], \A j \in 1 .. m : w[n + j] = u[j]
    PROVE  Spells(w, Append(t, EscapeValue(u, 1)))
<1>1. /\ n \in Nat /\ raw \in Seq(Byte) /\ n \notin Escapes(raw) /\ Covered(raw) \subseteq 1 .. n
      /\ Settled(raw) /\ NoControl(raw) /\ Meaning(raw) = t
      /\ \A i \in 1 .. n : raw[i] = Quote => i \in Covered(raw)
  BY DEF Spells, Settled
<1>2. /\ u \in Seq(Byte) /\ u[1] = Backslash /\ m = IF u[2] = 117 THEN 6 ELSE 2
      /\ \A j \in 1 .. m : u[j] >= Space
      /\ \A j \in 3 .. m : u[j] # Backslash
  BY DEF IsEscape
<1>3. m \in {2, 6}
  BY <1>2
<1>4. /\ Len(w) = n + m /\ \A i \in 1 .. n : w[i] = raw[i]
      /\ \A j \in 1 .. m : w[n + j] = u[j]
  OBVIOUS
<1>5. Len(raw) <= Len(w) /\ \A i \in 1 .. Len(raw) : w[i] = raw[i]
  BY <1>1, <1>3, <1>4
<1>6. \A i \in 0 .. n : i \in Escapes(w) <=> i \in Escapes(raw)
  BY <1>1, <1>5, EscapesKept
<1>7. /\ n + 1 \in Escapes(w)
      /\ \A i \in n + 2 .. n + m : i \notin Escapes(w)
  <2>1. n + 1 \in 1 .. Len(w) /\ (n + 1) - 1 = n /\ n \in 0 .. n /\ 1 \in 1 .. m
    BY <1>1, <1>3, <1>4
  <2>2. n + 1 \in Escapes(w) <=> w[n + 1] = Backslash /\ n \notin Escapes(w)
    BY <2>1, EscapesStep
  <2>3. n + 1 \in Escapes(w)
    BY <1>1, <1>2, <1>4, <1>6, <2>1, <2>2
  <2>4. n + 2 \notin Escapes(w)
    <3>1. n + 2 \in 1 .. Len(w) /\ (n + 2) - 1 = n + 1
      BY <1>1, <1>3, <1>4
    <3>2. n + 2 \in Escapes(w) <=> w[n + 2] = Backslash /\ n + 1 \notin Escapes(w)
      BY <3>1, EscapesStep
    <3> QED
      BY <2>3, <3>2
  <2>5. ASSUME NEW i \in n + 3 .. n + m PROVE i \notin Escapes(w)
    <3>1. i - n \in 1 .. m /\ i - n \in 3 .. m /\ n + (i - n) = i /\ i \in 1 .. Len(w)
      BY <1>1, <1>3, <1>4
    <3>2. w[n + (i - n)] = u[i - n] /\ u[i - n] # Backslash
      BY <1>2, <1>4, <3>1
    <3>3. i \in Escapes(w) <=> w[i] = Backslash /\ i - 1 \notin Escapes(w)
      BY <3>1, EscapesStep
    <3> QED
      BY <3>1, <3>2, <3>3
  <2> QED
    BY <1>1, <1>3, <2>3, <2>4, <2>5
<1>8. CoverOf(w, n + 1) = n + 2 .. n + m
  <2>1. n + 1 < Len(w) /\ (n + 1) + 1 = n + 2 /\ (n + 1) + 5 = n + 6 /\ 2 \in 1 .. m
    BY <1>1, <1>3, <1>4
  <2>2. w[n + 2] = u[2]
    BY <1>4, <2>1
  <2>3. CASE u[2] = 117
    <3>1. m = 6
      BY <1>2, <2>3
    <3> QED
      BY <2>1, <2>2, <2>3, <3>1 DEF CoverOf
  <2>4. CASE u[2] # 117
    <3>1. m = 2
      BY <1>2, <2>4
    <3>2. CoverOf(w, n + 1) = {n + 2}
      BY <2>1, <2>2, <2>4 DEF CoverOf
    <3> QED
      BY <1>1, <3>1, <3>2
  <2> QED
    BY <2>3, <2>4
<1>9. \A e \in Escapes(w) : e > n => e = n + 1
  <2> TAKE e \in Escapes(w)
  <2> HAVE e > n
  <2>1. e \in 1 .. n + m
    BY <1>4, EscapesInside
  <2> QED
    BY <1>1, <1>3, <1>7, <2>1
<1>10. /\ \A i \in 1 .. n : i \in Covered(raw) => i \in Covered(w)
       /\ \A i \in 1 .. Len(w) : i \in Covered(w) => \/ i \in 1 .. n /\ i \in Covered(raw)
                                                     \/ i \in CoverOf(w, n + 1)
       /\ TextOf(w)[n] = t
  <2>1. /\ \A i \in 1 .. Len(raw) : i \in Covered(raw) => i \in Covered(w)
        /\ \A i \in 1 .. Len(w) :
              i \in Covered(w) => \/ i \in 1 .. Len(raw) /\ i \in Covered(raw)
                                  \/ \E e \in Escapes(w) : e > Len(raw) /\ i \in CoverOf(w, e)
        /\ TextOf(w)[Len(raw)] = Meaning(raw)
    BY <1>1, <1>5, TextKept
  <2> QED
    BY <1>1, <1>9, <2>1
<1>11. \A i \in n + 2 .. n + m : i \in Covered(w)
  BY <1>7, <1>8, CoveredIs
<1>12. n + 1 \notin Covered(w)
  <2>1. n + 1 \in 1 .. Len(w) /\ n + 1 \notin 1 .. n /\ n + 1 \notin n + 2 .. n + m
    BY <1>1, <1>3, <1>4
  <2> QED
    BY <1>8, <1>10, <2>1
<1>13. Covered(w) \subseteq 1 .. Len(w)
  <2> SUFFICES ASSUME NEW i \in Covered(w) PROVE i \in 1 .. Len(w)
    OBVIOUS
  <2>1. PICK e \in Escapes(w) : i \in CoverOf(w, e)
    BY CoveredIs
  <2>2. e \in 1 .. n + m
    BY <1>4, EscapesInside
  <2>3. CASE e > n
    BY <1>1, <1>3, <1>4, <1>8, <1>9, <2>1, <2>3
  <2>4. CASE ~(e > n)
    <3>1. e \in 0 .. n /\ e \in Escapes(raw)
      BY <1>1, <1>6, <2>2, <2>4
    <3>2. e # n
      BY <1>1, <3>1
    <3>3. e + 1 \in 1 .. n /\ e < n
      BY <1>1, <2>2, <3>1, <3>2
    <3>4. w[e + 1] = raw[e + 1]
      BY <1>4, <3>3
    <3>5. CoverOf(w, e) = CoverOf(raw, e)
      BY <1>1, <1>3, <1>4, <3>1, <3>3, <3>4 DEF CoverOf
    <3>6. i \in Covered(raw)
      BY <2>1, <3>1, <3>5, CoveredIs
    <3> QED
      BY <1>1, <1>3, <1>4, <3>6
  <2> QED
    BY <2>3, <2>4
<1>14. Settled(w)
  <2>1. Len(w) \in n + 2 .. n + m
    BY <1>1, <1>3, <1>4
  <2> QED
    BY <1>4, <1>7, <1>13, <2>1 DEF Settled
<1>15. EscapeValue(w, n + 1) = EscapeValue(u, 1)
  <2>1. (n + 1) + 1 = n + 2 /\ (n + 1) + 4 = n + 5 /\ (n + 1) + 5 = n + 6 /\ 2 \in 1 .. m
        /\ w[n + 2] = u[1 + 1]
    BY <1>1, <1>3, <1>4
  <2>2. CASE u[2] # 117
    BY <2>1, <2>2 DEF EscapeValue
  <2>3. CASE u[2] = 117
    <3>1. w[n + 5] = u[1 + 4] /\ w[n + 6] = u[1 + 5]
      BY <1>1, <1>2, <1>4, <2>3
    <3> QED
      BY <2>1, <2>3, <3>1 DEF EscapeValue
  <2> QED
    BY <2>2, <2>3
<1>16. Meaning(w) = Append(t, EscapeValue(u, 1))
  <2>1. /\ \A i \in 1 .. Len(w) :
              /\ i \in Covered(w) => TextOf(w)[i] = TextOf(w)[i - 1]
              /\ i \notin Covered(w) => TextOf(w)[i] = Append(TextOf(w)[i - 1], UnitOf(w, i))
        /\ Meaning(w) = TextOf(w)[Len(w)]
    BY TextUnfold, Zenon
  <2>2. TextOf(w)[n + 1] = Append(t, EscapeValue(u, 1))
    <3>1. n + 1 \in 1 .. Len(w) /\ (n + 1) - 1 = n
      BY <1>1, <1>3, <1>4
    <3>2. UnitOf(w, n + 1) = EscapeValue(u, 1)
      BY <1>7, <1>15 DEF UnitOf
    <3> QED
      BY <1>10, <1>12, <2>1, <3>1, <3>2
  <2> DEFINE T == {j \in 0 .. m - 1 : TextOf(w)[n + 1 + j] = TextOf(w)[n + 1]}
  <2>3. 0 \in T
    BY <1>1, <1>3
  <2>4. \A j \in 0 .. (m - 1) - 1 : j \in T => j + 1 \in T
    <3> SUFFICES ASSUME NEW j \in 0 .. (m - 1) - 1, j \in T PROVE j + 1 \in T
      OBVIOUS
    <3>1. n + 1 + (j + 1) \in 1 .. Len(w) /\ n + 1 + (j + 1) \in n + 2 .. n + m
          /\ (n + 1 + (j + 1)) - 1 = n + 1 + j /\ j + 1 \in 0 .. m - 1
      BY <1>1, <1>3, <1>4
    <3>2. TextOf(w)[n + 1 + (j + 1)] = TextOf(w)[n + 1 + j]
      BY <1>11, <2>1, <3>1
    <3> QED
      BY <3>1, <3>2
  <2>5. \A j \in 0 .. m - 1 : j \in T
    <3>1. m - 1 \in Nat
      BY <1>3
    <3> HIDE DEF T
    <3> QED
      BY <2>3, <2>4, <3>1, BoundedInduction
  <2>6. m - 1 \in T /\ n + 1 + (m - 1) = Len(w)
    <3>1. m - 1 \in 0 .. m - 1 /\ n + 1 + (m - 1) = n + m
      BY <1>3
    <3> HIDE DEF T
    <3> QED
      BY <1>4, <2>5, <3>1
  <2> QED
    BY <2>1, <2>2, <2>6
<1>17. NoControl(w)
  <2> SUFFICES ASSUME NEW i \in 1 .. n + m PROVE w[i] >= Space
    BY <1>4 DEF NoControl
  <2>1. CASE i <= n
    <3>1. i \in 1 .. n /\ raw[i] >= Space
      BY <1>1, <2>1 DEF NoControl
    <3> QED
      BY <1>4, <3>1
  <2>2. CASE i > n
    <3>1. PICK j \in 1 .. m : n + j = i
      BY <2>2, SecondPart
    <3>2. w[n + j] = u[j] /\ u[j] >= Space
      BY <1>2, <1>4
    <3> QED
      BY <3>1, <3>2
  <2> QED
    BY <1>1, <2>1, <2>2
<1>18. ASSUME NEW i \in 1 .. Len(w), w[i] = Quote PROVE i \in Covered(w)
  <2>1. CASE i <= n
    <3>1. i \in 1 .. n /\ raw[i] = Quote
      BY <1>1, <1>4, <1>18, <2>1
    <3> QED
      BY <1>1, <1>10, <3>1
  <2>2. CASE i = n + 1
    BY <1>2, <1>3, <1>4, <1>18, <2>2 DEF Quote, Backslash
  <2>3. CASE i > n + 1
    <3>1. i \in n + 2 .. n + m
      BY <1>1, <1>3, <1>4, <2>3
    <3> QED
      BY <1>11, <3>1
  <2> QED
    BY <1>1, <2>1, <2>2, <2>3
<1> QED
  BY <1>4, <1>14, <1>16, <1>17, <1>18 DEF Spells

\* An escape adds the byte it stands for.
LEMMA SpellEscape ==
    ASSUME NEW raw, NEW t, Spells(raw, t), NEW u, IsEscape(u)
    PROVE  Spells(raw \o u, Append(t, EscapeValue(u, 1)))
<1>1. raw \in Seq(Byte) /\ u \in Seq(Byte)
  BY DEF Spells, Settled, IsEscape
<1>2. PICK n \in Nat : n = Len(raw)
  BY <1>1
<1>3. PICK m \in Nat : m = Len(u)
  BY <1>1
<1>4. /\ raw \o u \in Seq(Byte) /\ Len(raw \o u) = n + m
      /\ \A i \in 1 .. n + m : (raw \o u)[i] = IF i <= n THEN raw[i] ELSE u[i - n]
  BY <1>1, <1>2, <1>3, ConcatProperties
<1>5. \A i \in 1 .. n : (raw \o u)[i] = raw[i]
  BY <1>4
<1>6. ASSUME NEW j \in 1 .. m PROVE (raw \o u)[n + j] = u[j]
  <2>1. n + j \in 1 .. n + m /\ ~(n + j <= n) /\ (n + j) - n = j
    OBVIOUS
  <2> QED
    BY <1>4, <2>1
<1> QED
  BY <1>2, <1>3, <1>4, <1>5, <1>6, EscapeAdded

\* The calls for a byte write it, or an escape that stands for it.
LEMMA CallsSpell ==
    ASSUME NEW c \in Byte
    PROVE  /\ CallsFor(c) \in Seq(Seq(Byte))
           /\ \/ FlattenSeq(CallsFor(c)) = <<c>> /\ c \notin {Quote, Backslash} /\ c >= Space
              \/ /\ IsEscape(FlattenSeq(CallsFor(c)))
                 /\ EscapeValue(FlattenSeq(CallsFor(c)), 1) = c
<1> DEFINE Q == Seq(Byte)
<1>1. c \in 1 .. 255
  BY DEF Byte
<1>2. \A x \in Q : <<x>> \in Seq(Q) /\ FlattenSeq(<<x>>) = x
  <2>1. \A x \in Seq(Byte) : FlattenSeq(<<x>>) = x
    BY FlattenShort
  <2>2. \A x \in Q : x \in Seq(Byte)
    OBVIOUS
  <2> HIDE DEF Q
  <2>3. \A x \in Q : <<x>> \in Seq(Q)
    OBVIOUS
  <2> QED
    BY <2>1, <2>2, <2>3, Zenon
<1>3. Quote = 34 /\ Backslash = 92 /\ LF = 10 /\ CR = 13 /\ HT = 9 /\ Space = 32
  BY DEF Quote, Backslash, LF, CR, HT, Space
<1>11. /\ c \in {Quote, Backslash} => CallsFor(c) = << <<Backslash>>, <<c>> >>
       /\ c = LF => CallsFor(c) = << <<Backslash, 110>> >>
       /\ c = CR => CallsFor(c) = << <<Backslash, 114>> >>
       /\ c = HT => CallsFor(c) = << <<Backslash, 116>> >>
       /\ c < Space /\ c \notin {LF, CR, HT} =>
             CallsFor(c) = << <<Backslash, 117, 48, 48, HexDigit(c \div 16), HexDigit(c % 16)>> >>
       /\ c \notin {Quote, Backslash} /\ c >= Space => CallsFor(c) = << <<c>> >>
  <2> DEFINE a == << <<Backslash>>, <<c>> >>
             l == << <<Backslash, 110>> >>
             r == << <<Backslash, 114>> >>
             h == << <<Backslash, 116>> >>
             x == << <<Backslash, 117, 48, 48, HexDigit(c \div 16), HexDigit(c % 16)>> >>
             p == << <<c>> >>
  <2>1. CallsFor(c) = CASE c \in {Quote, Backslash} -> a [] c = LF -> l [] c = CR -> r [] c = HT -> h
                        [] c < Space /\ c \notin {LF, CR, HT} -> x [] OTHER -> p
    BY DEF CallsFor
  <2> HIDE DEF a, l, r, h, x, p
  <2>2. /\ c \in {Quote, Backslash} => CallsFor(c) = a
        /\ c = LF => CallsFor(c) = l
        /\ c = CR => CallsFor(c) = r
        /\ c = HT => CallsFor(c) = h
        /\ c < Space /\ c \notin {LF, CR, HT} => CallsFor(c) = x
        /\ c \notin {Quote, Backslash} /\ c >= Space => CallsFor(c) = p
    BY <1>1, <1>3, <2>1
  <2> QED
    BY <2>2, Zenon DEF a, l, r, h, x, p
<1>4. CASE c \in {Quote, Backslash}
  <2> DEFINE u == <<Backslash>> \o <<c>>
  <2>1. CallsFor(c) = << <<Backslash>>, <<c>> >>
    BY <1>4, <1>11
  <2>2. <<Backslash>> \in Q /\ <<c>> \in Q
    BY <1>1, <1>3 DEF Byte
  <2>3. << <<Backslash>>, <<c>> >> = << <<Backslash>> >> \o << <<c>> >>
        /\ << <<Backslash>>, <<c>> >> \in Seq(Q)
    BY <2>2
  <2>4. FlattenSeq(<< <<Backslash>> >> \o << <<c>> >>) = <<Backslash>> \o <<c>>
    <3>1. << <<Backslash>> >> \in Seq(Q) /\ << <<c>> >> \in Seq(Q)
      BY <1>2, <2>2
    <3>2. FlattenSeq(<< <<Backslash>> >> \o << <<c>> >>)
            = FlattenSeq(<< <<Backslash>> >>) \o FlattenSeq(<< <<c>> >>)
      BY <3>1, FlattenConcat
    <3> HIDE DEF Q
    <3> QED
      BY <1>2, <2>2, <3>2, Zenon
  <2>5. u \in Seq(Byte) /\ Len(u) = 2 /\ u[1] = Backslash /\ u[2] = c
    BY <2>2
  <2>6. c # 117
    BY <1>3, <1>4
  <2>7. IsEscape(u)
    <3> HIDE DEF u
    <3>1. \A j \in 1 .. 2 : u[j] >= Space
      BY <1>3, <1>4, <2>5
    <3> QED
      BY <2>5, <2>6, <3>1 DEF IsEscape
  <2>8. EscapeValue(u, 1) = c
    <3> HIDE DEF u
    <3> QED
      BY <1>3, <1>4, <2>5 DEF EscapeValue
  <2>9. FlattenSeq(CallsFor(c)) = u
    BY <2>1, <2>3, <2>4, Zenon
  <2> QED
    BY <2>1, <2>3, <2>7, <2>8, <2>9
<1>5. ASSUME NEW b \in {110, 114, 116}, CallsFor(c) = << <<Backslash, b>> >>,
             EscapeValue(<<Backslash, b>>, 1) = c
      PROVE  /\ CallsFor(c) \in Seq(Q) /\ IsEscape(FlattenSeq(CallsFor(c)))
             /\ EscapeValue(FlattenSeq(CallsFor(c)), 1) = c
  <2> DEFINE u == <<Backslash, b>>
  <2>1. u \in Q
    BY <1>3 DEF Byte
  <2>2. u \in Seq(Byte) /\ Len(u) = 2 /\ u[1] = Backslash /\ u[2] = b /\ b # 117
    BY <2>1
  <2>3. \A j \in 1 .. 2 : u[j] >= Space
    BY <1>3
  <2>4. FlattenSeq(CallsFor(c)) = u /\ CallsFor(c) \in Seq(Q)
    <3> HIDE DEF Q
    <3> QED
      BY <1>2, <1>5, <2>1
  <2> HIDE DEF u
  <2>5. IsEscape(u)
    BY <2>2, <2>3 DEF IsEscape
  <2> QED
    BY <1>5, <2>4, <2>5 DEF u
<1>6. CASE c = LF
  BY <1>3, <1>5, <1>11, <1>6 DEF EscapeValue
<1>7. CASE c = CR
  BY <1>3, <1>5, <1>11, <1>7 DEF EscapeValue
<1>8. CASE c = HT
  BY <1>3, <1>5, <1>11, <1>8 DEF EscapeValue
<1>9. CASE c < Space /\ c \notin {LF, CR, HT}
  <2>0. CallsFor(c) = << <<Backslash, 117, 48, 48, HexDigit(c \div 16), HexDigit(c % 16)>> >>
    BY <1>9, <1>11
  <2> DEFINE h1 == HexDigit(c \div 16)
             h2 == HexDigit(c % 16)
             u == <<Backslash, 117, 48, 48, h1, h2>>
  <2>1. CallsFor(c) = <<u>>
    BY <2>0
  <2>2. c \div 16 \in 0 .. 15 /\ c % 16 \in 0 .. 15 /\ c = 16 * (c \div 16) + (c % 16)
    BY <1>1
  <2>3. ASSUME NEW d \in 0 .. 15
        PROVE  /\ HexDigit(d) \in 48 .. 102 /\ HexDigit(d) # Backslash /\ HexDigit(d) # 117
               /\ HexValue(HexDigit(d)) = d
    BY <1>3, <2>3 DEF HexDigit, HexValue
  <2>4. h1 \in 48 .. 102 /\ h1 # Backslash /\ h2 \in 48 .. 102 /\ h2 # Backslash
        /\ HexValue(h1) = c \div 16 /\ HexValue(h2) = c % 16
    BY <2>2, <2>3
  <2> HIDE DEF h1, h2
  <2>5. u \in Q /\ Len(u) = 6 /\ u[1] = Backslash /\ u[2] = 117 /\ u[5] = h1 /\ u[6] = h2
    BY <1>3, <2>4 DEF Byte
  <2>6. /\ \A j \in 1 .. 6 : u[j] >= Space
        /\ \A j \in 3 .. 6 : u[j] # Backslash
    BY <1>3, <2>4
  <2>7. FlattenSeq(CallsFor(c)) = u /\ CallsFor(c) \in Seq(Q)
    <3> HIDE DEF Q, u
    <3> QED
      BY <1>2, <2>1, <2>5
  <2> HIDE DEF u
  <2>8. IsEscape(u)
    BY <2>5, <2>6 DEF IsEscape
  <2>9. EscapeValue(u, 1) = c
    <3>1. EscapeValue(u, 1) = 16 * HexValue(u[5]) + HexValue(u[6])
      BY <2>5 DEF EscapeValue
    <3> QED
      BY <1>1, <2>2, <2>4, <2>5, <3>1
  <2> QED
    BY <2>7, <2>8, <2>9
<1>10. CASE c \notin {Quote, Backslash} /\ c >= Space
  <2>1. CallsFor(c) = << <<c>> >>
    BY <1>10, <1>11
  <2>2. <<c>> \in Q
    OBVIOUS
  <2>3. FlattenSeq(CallsFor(c)) = <<c>> /\ CallsFor(c) \in Seq(Q)
    <3> HIDE DEF Q
    <3> QED
      BY <1>2, <2>1, <2>2
  <2> QED
    BY <1>10, <2>3
<1> QED
  BY <1>1, <1>3, <1>4, <1>6, <1>7, <1>8, <1>9, <1>10

\* What write_json_string puts between the quotes.
Escaped(v) == FlattenSeq(FlattenSeq([i \in 1 .. Len(v) |-> CallsFor(v[i])]))

\* Nothing has been written yet.
LEMMA SpellNothing == Spells(<<>>, <<>>)
<1>1. <<>> \in Seq(Byte) /\ Len(<<>>) = 0 /\ 1 .. 0 = {} /\ 0 \in 0 .. 0
  OBVIOUS
<1>2. Escapes(<<>>) = {}
  BY <1>1, EscapesInside
<1>3. Covered(<<>>) = {}
  BY <1>2, CoveredIs
<1>4. Meaning(<<>>) = <<>>
  BY <1>1, TextUnfold
<1> QED
  BY <1>1, <1>2, <1>3, <1>4 DEF Spells, Settled, NoControl

\* A sequence made of a function of its indices, one element longer.
LEMMA OneMore ==
    ASSUME NEW S, NEW n \in Nat, NEW f, \A i \in 1 .. n + 1 : f[i] \in S
    PROVE  /\ [i \in 1 .. n |-> f[i]] \in Seq(S)
           /\ [i \in 1 .. n + 1 |-> f[i]] = [i \in 1 .. n |-> f[i]] \o << f[n + 1] >>
           /\ [i \in 1 .. n + 1 |-> f[i]] = Append([i \in 1 .. n |-> f[i]], f[n + 1])
<1> DEFINE a == [i \in 1 .. n |-> f[i]]
           b == [i \in 1 .. n + 1 |-> f[i]]
<1>1. n + 1 \in 1 .. n + 1 /\ f[n + 1] \in S /\ \A i \in 1 .. n : i \in 1 .. n + 1
  OBVIOUS
<1>2. a \in Seq(S) /\ Len(a) = n /\ b \in Seq(S) /\ Len(b) = n + 1
  BY <1>1
<1>3. (\A i \in 1 .. n : a[i] = f[i]) /\ \A i \in 1 .. n + 1 : b[i] = f[i]
  OBVIOUS
<1> HIDE DEF a, b
<1>4. PICK c \in Seq(S) : /\ c = Append(a, f[n + 1]) /\ Len(c) = n + 1 /\ c[n + 1] = f[n + 1]
                          /\ \A i \in 1 .. n : c[i] = a[i]
  <2>1. /\ Append(a, f[n + 1]) \in Seq(S) /\ Len(Append(a, f[n + 1])) = Len(a) + 1
        /\ \A i \in 1 .. Len(a) : Append(a, f[n + 1])[i] = a[i]
        /\ Append(a, f[n + 1])[Len(a) + 1] = f[n + 1]
    BY <1>1, <1>2, AppendProperties
  <2> QED
    BY <1>2, <2>1
<1>5. \A i \in 1 .. n + 1 : b[i] = c[i]
  BY <1>1, <1>3, <1>4
<1>6. b = c
  BY <1>2, <1>4, <1>5, SeqEqual
<1>7. c = a \o << f[n + 1] >>
  BY <1>1, <1>2, <1>4, AppendIsConcat
<1> QED
  BY <1>2, <1>4, <1>6, <1>7 DEF a, b

\* For every text: what write_json_string puts between the quotes is a string of
\* RFC 8259 that ends where it should, and means the text.
THEOREM EscapedSpells ==
    ASSUME NEW v \in Seq(Byte)
    PROVE  /\ Spells(Escaped(v), v)
           /\ JsonStringCalls(v) \in Seq(Seq(Byte))
           /\ FlattenSeq(JsonStringCalls(v)) = <<Quote>> \o (Escaped(v) \o <<Quote>>)
<1> DEFINE L == Len(v)
           Q == Seq(Byte)
           R == Seq(Q)
           f == [i \in 1 .. L |-> CallsFor(v[i])]
           P(k) == [i \in 1 .. k |-> f[i]]
           t(k) == [i \in 1 .. k |-> v[i]]
           E(k) == FlattenSeq(FlattenSeq(P(k)))
           T == {k \in 0 .. L : Spells(E(k), t(k))}
<1>1. L \in Nat /\ \A i \in 1 .. L : v[i] \in Byte
  OBVIOUS
<1>2. \A i \in 1 .. L : f[i] \in R /\ f[i] = CallsFor(v[i])
  BY <1>1, CallsSpell
<1>3. P(0) = <<>> /\ t(0) = <<>> /\ P(L) = [i \in 1 .. L |-> CallsFor(v[i])] /\ t(L) = v
  BY <1>1
<1>4. P(L) \in Seq(R)
  BY <1>1, <1>2
<1> HIDE DEF Q, R, f
<1>5. 0 \in T
  <2>1. E(0) = <<>>
    BY <1>3, FlattenShort
  <2> QED
    BY <1>1, <1>3, <2>1, SpellNothing
<1>6. \A k \in 0 .. L - 1 : k \in T => k + 1 \in T
  <2> SUFFICES ASSUME NEW k \in 0 .. L - 1, k \in T PROVE k + 1 \in T
    OBVIOUS
  <2>1. k \in Nat /\ k + 1 \in 1 .. L /\ k + 1 \in 0 .. L /\ \A i \in 1 .. k + 1 : i \in 1 .. L
    BY <1>1
  <2>2. PICK c \in Byte : c = v[k + 1]
    BY <1>1, <2>1
  <2>3. Spells(E(k), t(k))
    OBVIOUS
  <2> HIDE DEF T
  <2>4. t(k + 1) = Append(t(k), c)
    <3>1. \A i \in 1 .. k + 1 : v[i] \in Byte
      BY <1>1, <2>1
    <3> QED
      BY <2>1, <2>2, <3>1, OneMore
  <2>5. PICK x \in R : x = f[k + 1] /\ x = CallsFor(c)
    BY <1>2, <2>1, <2>2
  <2>6. P(k) \in Seq(R) /\ P(k + 1) = P(k) \o <<x>>
    <3>1. k \in Nat /\ \A i \in 1 .. k + 1 : f[i] \in R
      BY <1>2, <2>1
    <3>2. P(k) \in Seq(R) /\ P(k + 1) = P(k) \o <<f[k + 1]>>
      BY <3>1, OneMore
    <3> QED
      BY <2>5, <3>2
  <2> HIDE DEF P, t
  <2>7. FlattenSeq(P(k)) \in R /\ FlattenSeq(P(k + 1)) = FlattenSeq(P(k)) \o x
    <3>1. /\ \A a \in Seq(Seq(Q)), b \in Seq(Seq(Q)) : /\ FlattenSeq(a) \in Seq(Q)
                                                       /\ FlattenSeq(a \o b) = FlattenSeq(a) \o FlattenSeq(b)
          /\ \A y \in Seq(Q) : FlattenSeq(<<y>>) = y
      BY FlattenConcat, FlattenShort
    <3>2. <<x>> \in Seq(R)
      BY <2>5
    <3>3. PICK p \in Seq(R) : p = P(k)
      BY <2>6
    <3>4. /\ FlattenSeq(p) \in R /\ FlattenSeq(p \o <<x>>) = FlattenSeq(p) \o FlattenSeq(<<x>>)
          /\ FlattenSeq(<<x>>) = x
      BY <3>1, <3>2 DEF R
    <3> QED
      BY <2>6, <3>3, <3>4, Zenon
  <2>8. E(k + 1) = E(k) \o FlattenSeq(x)
    <3>1. \A a \in Seq(Seq(Byte)), b \in Seq(Seq(Byte)) :
             FlattenSeq(a \o b) = FlattenSeq(a) \o FlattenSeq(b)
      BY FlattenConcat
    <3> QED
      BY <2>5, <2>7, <3>1 DEF R, Q
  <2> HIDE DEF E
  <2>9. Spells(E(k + 1), t(k + 1))
    <3>1. CASE FlattenSeq(x) = <<c>> /\ c \notin {Quote, Backslash} /\ c >= Space
      BY <2>3, <2>4, <2>8, <3>1, SpellByte
    <3>2. CASE IsEscape(FlattenSeq(x)) /\ EscapeValue(FlattenSeq(x), 1) = c
      BY <2>3, <2>4, <2>8, <3>2, SpellEscape
    <3> QED
      BY <2>5, <3>1, <3>2, CallsSpell
  <2> QED
    BY <2>1, <2>9 DEF T
<1>7. \A k \in 0 .. L : k \in T
  <2> HIDE DEF T
  <2> QED
    BY <1>1, <1>5, <1>6, BoundedInduction
<1>8. Spells(E(L), t(L)) /\ E(L) = Escaped(v)
  <2>1. L \in T
    <3> HIDE DEF T
    <3> QED
      BY <1>1, <1>7
  <2> QED
    BY <1>3, <2>1 DEF Escaped
<1>9. /\ JsonStringCalls(v) \in R
      /\ FlattenSeq(JsonStringCalls(v)) = <<Quote>> \o (Escaped(v) \o <<Quote>>)
  <2> DEFINE q == << <<Quote>> >>
             m == FlattenSeq(P(L))
  <2>1. m \in R
    <3>1. \A a \in Seq(Seq(Q)) : FlattenSeq(a) \in Seq(Q)
      BY FlattenConcat
    <3> HIDE DEF P
    <3> QED
      BY <1>4, <3>1 DEF R
  <2>2. <<Quote>> \in Q /\ q \in R /\ FlattenSeq(q) = <<Quote>>
    <3>1. <<Quote>> \in Q
      BY DEF Quote, Byte, Q
    <3>2. q \in R
      BY <3>1 DEF R
    <3>3. \A y \in Seq(Byte) : FlattenSeq(<<y>>) = y
      BY FlattenShort
    <3> QED
      BY <3>1, <3>2, <3>3 DEF Q
  <2>3. JsonStringCalls(v) = q \o m \o q
    BY <1>3 DEF JsonStringCalls
  <2>4. FlattenSeq(m) = Escaped(v)
    BY <1>8
  <2> HIDE DEF q, m, P
  <2>5. q \o m \in R /\ q \o m \o q \in R
    BY <2>1, <2>2 DEF R
  <2>6. \A a \in R, b \in R : /\ FlattenSeq(a) \in Q
                              /\ FlattenSeq(a \o b) = FlattenSeq(a) \o FlattenSeq(b)
    BY FlattenConcat DEF R, Q
  <2>7. FlattenSeq(q \o m \o q) = (<<Quote>> \o Escaped(v)) \o <<Quote>> /\ Escaped(v) \in Q
    <3>1. FlattenSeq(q \o m \o q) = FlattenSeq(q \o m) \o FlattenSeq(q)
      BY <2>2, <2>5, <2>6, Zenon
    <3>2. FlattenSeq(q \o m) = FlattenSeq(q) \o FlattenSeq(m) /\ FlattenSeq(m) \in Q
      BY <2>1, <2>2, <2>6, Zenon
    <3> QED
      BY <2>2, <2>4, <3>1, <3>2, Zenon
  <2>8. (<<Quote>> \o Escaped(v)) \o <<Quote>> = <<Quote>> \o (Escaped(v) \o <<Quote>>)
    BY <2>2, <2>7, ConcatAssociative DEF Q
  <2> QED
    BY <2>3, <2>5, <2>7, <2>8
<1> QED
  BY <1>3, <1>8, <1>9 DEF R, Q

-----------------------------------------------------------------------------
(* The line: what is written and what is still to be written.                *)

\* The object salt_cli_emit_output writes, in one piece.
WholeObject(value, id) ==
    <<Brace, EncryptedMember, Quote>> \o Escaped(value) \o <<Quote, KeyIdMember, Quote>>
    \o Escaped(id) \o <<Quote>> \o Close

\* What a line is made of: bytes, and the numbers that stand for fixed texts.
Number == Nat

\* Bytes are numbers.
LEMMA BytesAreNumbers == \A s \in Seq(Byte) : s \in Seq(Number)
<1>1. Byte \subseteq Number
  BY DEF Byte, Number
<1> SUFFICES ASSUME NEW s \in Seq(Byte) PROVE s \in Seq(Number)
  OBVIOUS
<1>2. Len(s) \in Nat /\ s = [i \in 1 .. Len(s) |-> s[i]] /\ \A i \in 1 .. Len(s) : s[i] \in Byte
  OBVIOUS
<1>3. \A i \in 1 .. Len(s) : s[i] \in Number
  BY <1>1, <1>2
<1>4. [i \in 1 .. Len(s) |-> s[i]] \in Seq(Number)
  BY <1>2, <1>3
<1> QED
  BY <1>2, <1>4, Zenon

\* Two sequences, one behind the other.
LEMMA Joined ==
    ASSUME NEW S, NEW x \in Seq(S), NEW y \in Seq(S)
    PROVE  /\ x \o y \in Seq(S) /\ Len(x \o y) = Len(x) + Len(y)
           /\ Len(x) \in Nat /\ Len(y) \in Nat
           /\ \A i \in 1 .. Len(x) : (x \o y)[i] = x[i]
           /\ \A i \in 1 .. Len(y) : (x \o y)[Len(x) + i] = y[i]
<1>1. PICK m \in Nat : m = Len(x)
  OBVIOUS
<1>2. PICK n \in Nat : n = Len(y)
  OBVIOUS
<1>3. /\ x \o y \in Seq(S) /\ Len(x \o y) = m + n
      /\ \A i \in 1 .. m + n : (x \o y)[i] = IF i <= m THEN x[i] ELSE y[i - m]
  BY <1>1, <1>2, ConcatProperties
<1>4. \A i \in 1 .. m : (x \o y)[i] = x[i]
  BY <1>3
<1>5. ASSUME NEW i \in 1 .. n PROVE (x \o y)[m + i] = y[i]
  <2>1. m + i \in 1 .. m + n /\ ~(m + i <= m) /\ (m + i) - m = i
    OBVIOUS
  <2> QED
    BY <1>3, <2>1
<1> QED
  BY <1>1, <1>2, <1>3, <1>4, <1>5

\* The middle of three.
LEMMA Middle ==
    ASSUME NEW S, NEW x \in Seq(S), NEW y \in Seq(S), NEW z \in Seq(S)
    PROVE  SubSeq((x \o y) \o z, Len(x) + 1, Len(x) + Len(y)) = y
<1>1. PICK m \in Nat : m = Len(x)
  OBVIOUS
<1>2. PICK n \in Nat : n = Len(y)
  OBVIOUS
<1>3. PICK u \in Seq(S) : u = x \o y
  BY Joined
<1>4. Len(u) = m + n /\ \A i \in 1 .. n : u[m + i] = y[i]
  BY <1>1, <1>2, <1>3, Joined
<1>5. PICK w \in Seq(S) : w = u \o z
  BY Joined
<1>6. PICK k \in Nat : k = Len(z)
  OBVIOUS
<1>7. Len(w) = m + n + k /\ \A i \in 1 .. m + n : w[i] = u[i]
  <2>1. Len(u \o z) = Len(u) + Len(z) /\ \A i \in 1 .. Len(u) : (u \o z)[i] = u[i]
    BY Joined
  <2> QED
    BY <1>4, <1>5, <1>6, <2>1
<1>8. m + 1 \in 1 .. Len(w) + 1 /\ m + n \in (m + 1) - 1 .. Len(w) /\ m + n - (m + 1) + 1 = n
  BY <1>7
<1>9. /\ SubSeq(w, m + 1, m + n) \in Seq(S) /\ Len(SubSeq(w, m + 1, m + n)) = m + n - (m + 1) + 1
      /\ \A i \in 1 .. m + n - (m + 1) + 1 : SubSeq(w, m + 1, m + n)[i] = w[m + 1 + i - 1]
  BY <1>8, PartOf
<1>10. PICK v \in Seq(S) : v = SubSeq(w, m + 1, m + n)
  BY <1>9
<1>11. ASSUME NEW i \in 1 .. n PROVE v[i] = y[i]
  <2>1. m + 1 + i - 1 = m + i /\ m + i \in 1 .. m + n
    OBVIOUS
  <2> QED
    BY <1>4, <1>7, <1>8, <1>9, <1>10, <2>1
<1>12. v = y
  BY <1>2, <1>8, <1>9, <1>10, <1>11, SeqEqual
<1> QED
  BY <1>1, <1>2, <1>3, <1>5, <1>10, <1>12

\* The same of lines.
LEMMA LinesAssociate ==
    \A r \in Seq(Number), s \in Seq(Number), t \in Seq(Number) :
        r \o s \in Seq(Number) /\ (r \o s) \o t = r \o (s \o t)
<1> TAKE r \in Seq(Number), s \in Seq(Number), t \in Seq(Number)
<1>1. r \o s \in Seq(Number)
  BY Joined
<1>2. (r \o s) \o t = r \o (s \o t)
  BY ConcatAssociative, SMT
<1> QED
  BY <1>1, <1>2

\* A reader finds the two strings in it.
LEMMA ObjectRead ==
    ASSUME NEW value \in Seq(Byte), NEW id \in Seq(Byte)
    PROVE  ObjectMeans(WholeObject(value, id), value, id)
<1>1. PICK a \in Seq(Byte) : a = Escaped(value) /\ Spells(a, value)
  <2>1. Spells(Escaped(value), value)
    BY EscapedSpells
  <2> QED
    BY <2>1 DEF Spells, Settled
<1>2. PICK b \in Seq(Byte) : b = Escaped(id) /\ Spells(b, id)
  <2>1. Spells(Escaped(id), id)
    BY EscapedSpells
  <2> QED
    BY <2>1 DEF Spells, Settled
<1>3. PICK m \in Nat : m = Len(a)
  OBVIOUS
<1>4. PICK n \in Nat : n = Len(b)
  OBVIOUS
<1> DEFINE o == <<Brace, EncryptedMember, Quote>>
           k == <<Quote, KeyIdMember, Quote>>
           q == <<Quote>>
<1>5. a \in Seq(Number) /\ b \in Seq(Number)
  BY BytesAreNumbers
<1>6. /\ o \in Seq(Number) /\ Len(o) = 3
      /\ k \in Seq(Number) /\ Len(k) = 3 /\ k[2] = KeyIdMember
      /\ q \in Seq(Number) /\ Len(q) = 1
      /\ Close \in Seq(Number) /\ Len(Close) = 2
  BY DEF Number, Brace, EncryptedMember, KeyIdMember, Quote, Close, LF
<1> HIDE DEF o, k, q
<1> DEFINE w == o \o a
           x == w \o k
           z == q \o Close
           l == x \o b \o q \o Close
<1>7. w \in Seq(Number) /\ Len(w) = 3 + m
  <2>1. o \o a \in Seq(Number) /\ Len(o \o a) = Len(o) + Len(a)
    BY <1>5, <1>6, Joined
  <2> QED
    BY <1>3, <1>6, <2>1
<1>8. z \in Seq(Number) /\ Len(z) = 3
  <2>1. q \o Close \in Seq(Number) /\ Len(q \o Close) = Len(q) + Len(Close)
    BY <1>6, Joined
  <2> QED
    BY <1>6, <2>1
<1> HIDE DEF w, z
<1>9. o \in Seq(Number) /\ k \in Seq(Number) /\ q \in Seq(Number) /\ Close \in Seq(Number)
  BY <1>6
<1>10. \A r \in Seq(Number), s \in Seq(Number), t \in Seq(Number) :
          r \o s \in Seq(Number) /\ (r \o s) \o t = r \o (s \o t)
  BY LinesAssociate
<1>11. \A r \in Seq(Number), s \in Seq(Number) :
          /\ Len(r \o s) = Len(r) + Len(s)
          /\ \A i \in 1 .. Len(s) : (r \o s)[Len(r) + i] = s[i]
  BY Joined
<1>12. /\ x \in Seq(Number) /\ Len(x) = 6 + m /\ x[3 + m + 2] = KeyIdMember
  <2>1. /\ w \o k \in Seq(Number) /\ Len(w \o k) = Len(w) + Len(k)
        /\ \A i \in 1 .. Len(k) : (w \o k)[Len(w) + i] = k[i]
    <3> HIDE DEF l, x
    <3> QED
      BY <1>7, <1>9, <1>10, <1>11, Zenon
  <2>2. 2 \in 1 .. Len(k)
    BY <1>6
  <2>3. (w \o k)[Len(w) + 2] = k[2]
    BY <2>1, <2>2
  <2> QED
    BY <1>6, <1>7, <2>1, <2>3
<1>13. l = (x \o b) \o z /\ l = x \o (b \o z) /\ b \o z \in Seq(Number)
  <2> HIDE DEF x
  <2>1. x \o b \in Seq(Number) /\ b \o z \in Seq(Number)
    <3> HIDE DEF x
    <3> QED
      BY <1>5, <1>8, <1>12, <1>10
  <2>2. ((x \o b) \o q) \o Close = (x \o b) \o (q \o Close)
    <3> HIDE DEF x, l
    <3>1. PICK y \in Seq(Number) : y = x \o b
      BY <2>1
    <3>2. (y \o q) \o Close = y \o (q \o Close)
      BY <1>9, <1>10, Zenon
    <3> QED
      BY <3>1, <3>2
  <2>3. (x \o b) \o z = x \o (b \o z)
    BY <1>5, <1>8, <1>12, <1>10, Zenon
  <2> QED
    BY <2>1, <2>2, <2>3, Zenon DEF z
<1>14. l = (o \o a) \o (k \o (b \o z)) /\ k \o (b \o z) \in Seq(Number)
  <2>1. k \o (b \o z) \in Seq(Number)
    BY <1>13, <1>9, <1>10, Zenon
  <2>2. (w \o k) \o (b \o z) = w \o (k \o (b \o z))
    <3>1. PICK v : v \in Seq(Number) /\ v = b \o z
      BY <1>13
    <3>2. w \in Seq(Number) /\ k \in Seq(Number) /\ v \in Seq(Number)
      BY <1>7, <1>9, <3>1
    <3>3. (w \o k) \o v = w \o (k \o v)
      BY <1>10, <3>2, Zenon
    <3> QED
      BY <3>1, <3>3
  <2> HIDE DEF l
  <2> QED
    BY <1>13, <2>1, <2>2, Zenon DEF w
<1>15. l = WholeObject(value, id) /\ IsObjectOf(l, a, b)
  BY <1>1, <1>2, Zenon DEF WholeObject, IsObjectOf, o, k, q, w
<1> HIDE DEF x, l
<1>16. Len(l) = 9 + m + n /\ \A i \in 1 .. 6 + m : l[i] = x[i]
  <2>1. Len(b \o z) = Len(b) + Len(z)
    BY <1>5, <1>8, Joined
  <2>2. /\ Len(x \o (b \o z)) = Len(x) + Len(b \o z)
        /\ \A i \in 1 .. Len(x) : (x \o (b \o z))[i] = x[i]
    BY <1>12, <1>13, Joined
  <2> QED
    BY <1>4, <1>8, <1>12, <1>13, <2>1, <2>2
<1>17. m + 5 \in {i \in 1 .. Len(l) : l[i] = KeyIdMember}
  <2>1. m + 5 \in 1 .. 9 + m + n /\ m + 5 \in 1 .. 6 + m /\ m + 5 = 3 + m + 2
    OBVIOUS
  <2> QED
    BY <1>12, <1>16, <2>1
<1>18. SubSeq(l, 4, (m + 5) - 2) = a
  <2>1. SubSeq((o \o a) \o (k \o (b \o z)), Len(o) + 1, Len(o) + Len(a)) = a
    BY <1>5, <1>6, <1>14, Middle
  <2>2. Len(o) + 1 = 4 /\ Len(o) + Len(a) = (m + 5) - 2
    BY <1>3, <1>6
  <2> QED
    BY <1>14, <2>1, <2>2
<1>19. SubSeq(l, (m + 5) + 2, Len(l) - 3) = b
  <2>1. SubSeq((x \o b) \o z, Len(x) + 1, Len(x) + Len(b)) = b
    BY <1>5, <1>8, <1>12, Middle
  <2>2. Len(x) + 1 = (m + 5) + 2 /\ Len(x) + Len(b) = Len(l) - 3
    BY <1>4, <1>12, <1>16
  <2> QED
    BY <1>13, <2>1, <2>2
<1>20. ASSUME NEW raw, NEW t, Spells(raw, t)
       PROVE  NoControl(raw) /\ Delimited(raw, TRUE) /\ Meaning(raw) = t
  BY <1>20 DEF Spells, Settled, Delimited
<1>21. \A raw \in {a, b} : NoControl(raw) /\ Delimited(raw, TRUE)
  BY <1>1, <1>2, <1>20
<1>22. Meaning(a) = value /\ Meaning(b) = id
  BY <1>1, <1>2, <1>20
<1>23. ObjectMeans(l, value, id)
  BY <1>15, <1>17, <1>18, <1>19, <1>21, <1>22, Zenon DEF ObjectMeans
<1> QED
  BY <1>15, <1>23

\* Short sequences are put together of single elements.
LEMMA SmallTuples ==
    ASSUME NEW S, NEW x \in S, NEW y \in S, NEW z \in S
    PROVE  <<x>> \o <<y>> = <<x, y>> /\ (<<x>> \o <<y>>) \o <<z>> = <<x, y, z>>
<1>1. <<x>> \in Seq(S) /\ <<x, y>> = Append(<<x>>, y)
  OBVIOUS
<1>2. <<x, y>> \in Seq(S) /\ <<x, y, z>> = Append(<<x, y>>, z)
  OBVIOUS
<1> QED
  BY <1>1, <1>2, AppendIsConcat

\* The calls for an object,
CallsFrom(value, id) ==
    << <<Brace>>, <<EncryptedMember>> >> \o JsonStringCalls(value)
    \o << <<KeyIdMember>> >> \o JsonStringCalls(id) \o << Close >>

\* and that they write it.
LEMMA ObjectCalls ==
    ASSUME NEW value \in Seq(Byte), NEW id \in Seq(Byte)
    PROVE  LET cs == CallsFrom(value, id)
           IN  cs \in Seq(Seq(Number)) /\ cs # <<>> /\ FlattenSeq(cs) = WholeObject(value, id)
<1> DEFINE cs == CallsFrom(value, id)
           N == Seq(Number)
           R == Seq(N)
           a == Escaped(value)
           b == Escaped(id)
           ja == JsonStringCalls(value)
           jb == JsonStringCalls(id)
           e == << <<Brace>>, <<EncryptedMember>> >>
           e1 == << <<Brace>> >>
           e2 == << <<EncryptedMember>> >>
           m == << <<KeyIdMember>> >>
           c == << Close >>
           q == <<Quote>>
           be == <<Brace>> \o <<EncryptedMember>>
           km == <<KeyIdMember>>
<1>1. /\ a \in N /\ b \in N
      /\ FlattenSeq(ja) = q \o (a \o q) /\ FlattenSeq(jb) = q \o (b \o q)
  <2>1. \A v \in Seq(Byte) : /\ Spells(Escaped(v), v)
                             /\ FlattenSeq(JsonStringCalls(v)) = <<Quote>> \o (Escaped(v) \o <<Quote>>)
    BY EscapedSpells
  <2>2. a \in Seq(Byte) /\ b \in Seq(Byte)
    BY <2>1 DEF Spells, Settled
  <2> QED
    BY <2>1, <2>2, BytesAreNumbers
<1>2. ja \in R /\ jb \in R
  <2>1. \A s \in Seq(Seq(Byte)) : s \in R
    <3> DEFINE Q == Seq(Byte)
    <3>1. \A s \in Q : s \in N
      BY BytesAreNumbers
    <3> HIDE DEF Q, N
    <3> SUFFICES ASSUME NEW s \in Seq(Q) PROVE s \in Seq(N)
      BY DEF Q
    <3>2. Len(s) \in Nat /\ s = [i \in 1 .. Len(s) |-> s[i]] /\ \A i \in 1 .. Len(s) : s[i] \in Q
      OBVIOUS
    <3>3. \A i \in 1 .. Len(s) : s[i] \in N
      BY <3>1, <3>2
    <3>4. [i \in 1 .. Len(s) |-> s[i]] \in Seq(N)
      BY <3>2, <3>3
    <3> QED
      BY <3>2, <3>4, Zenon
  <2> QED
    BY <2>1, EscapedSpells
<1>3. /\ <<Brace>> \in N /\ <<EncryptedMember>> \in N /\ km \in N /\ q \in N /\ Close \in N
  BY DEF Number, Brace, EncryptedMember, KeyIdMember, Quote, Close, LF
<1>4. /\ e = e1 \o e2
      /\ <<Brace, EncryptedMember, Quote>> = be \o q
      /\ <<Quote, KeyIdMember, Quote>> = (q \o km) \o q
  <2>1. Brace \in Number /\ EncryptedMember \in Number /\ Quote \in Number /\ KeyIdMember \in Number
    BY DEF Number, Brace, EncryptedMember, KeyIdMember, Quote
  <2>2. << <<Brace>>, <<EncryptedMember>> >> = e1 \o e2
    <3> HIDE DEF N
    <3>1. \A x \in N, y \in N : <<x>> \o <<y>> = <<x, y>>
      BY SmallTuples
    <3> QED
      BY <1>3, <3>1
  <2>3. <<Brace>> \o <<EncryptedMember>> = <<Brace, EncryptedMember>>
        /\ (<<Brace>> \o <<EncryptedMember>>) \o <<Quote>> = <<Brace, EncryptedMember, Quote>>
    BY <2>1, SmallTuples
  <2>4. (<<Quote>> \o <<KeyIdMember>>) \o <<Quote>> = <<Quote, KeyIdMember, Quote>>
    BY <2>1, SmallTuples
  <2> QED
    BY <2>2, <2>3, <2>4, Zenon
<1>5. \A r \in N, s \in N : r \o s \in N
  BY LinesAssociate, Zenon
<1>6. \A r \in N, s \in N, t \in N : (r \o s) \o t = r \o (s \o t)
  BY LinesAssociate, Zenon
<1>7. \A x \in N : FlattenSeq(<<x>>) = x
  BY FlattenShort
<1>8. \A x \in R, y \in R : FlattenSeq(x) \in N /\ FlattenSeq(x \o y) = FlattenSeq(x) \o FlattenSeq(y)
  BY FlattenConcat
<1>9. \A x \in N : <<x>> \in R
  <2> HIDE DEF N
  <2> QED
    OBVIOUS
<1>10. \A x \in R, y \in R : x \o y \in R
  <2> HIDE DEF N
  <2> QED
    BY Joined
<1> HIDE DEF N, R
<1>11. e1 \in R /\ e2 \in R /\ m \in R /\ c \in R
  BY <1>3, <1>9
<1>12. /\ FlattenSeq(e1) = <<Brace>> /\ FlattenSeq(e2) = <<EncryptedMember>>
       /\ FlattenSeq(m) = km /\ FlattenSeq(c) = Close
  BY <1>3, <1>7
<1>13. cs = (((e \o ja) \o m) \o jb) \o c
  BY DEF CallsFrom
<1> HIDE DEF cs
<1> DEFINE o == be \o q
           k == (q \o km) \o q
<1>14. WholeObject(value, id) = ((((o \o a) \o k) \o b) \o q) \o Close
  BY <1>4, Zenon DEF WholeObject
<1> HIDE DEF a, b, ja, jb, e1, e2, m, c, q, km, e
<1>15. be \in N /\ e \in R /\ FlattenSeq(e) = be
  <2>1. be \in N
    BY <1>3, <1>5
  <2>2. e1 \o e2 \in R /\ FlattenSeq(e1 \o e2) = FlattenSeq(e1) \o FlattenSeq(e2)
    BY <1>8, <1>10, <1>11
  <2> QED
    BY <1>4, <1>12, <2>1, <2>2, Zenon
<1> HIDE DEF be
<1>16. o \in N /\ q \o km \in N /\ k \in N
  BY <1>3, <1>5, <1>15
<1>17. a \in N /\ b \in N /\ q \in N /\ km \in N /\ be \in N
  BY <1>1, <1>3, <1>15
<1>18. e \o ja \in R /\ FlattenSeq(e \o ja) = (o \o a) \o q
  <2>1. e \o ja \in R /\ FlattenSeq(e \o ja) = be \o (q \o (a \o q))
    BY <1>1, <1>2, <1>8, <1>10, <1>15
  <2>2. PICK y : y \in N /\ y = a \o q
    BY <1>1, <1>3, <1>5
  <2>3. be \o (q \o (a \o q)) = (be \o q) \o (a \o q)
    <3>1. be \o (q \o y) = (be \o q) \o y
      <4>1. be \in N /\ q \in N /\ y \in N
        BY <1>17, <2>2
      <4> QED
        BY <1>6, <4>1
    <3> QED
      BY <2>2, <3>1
  <2>4. o \o (a \o q) = (o \o a) \o q
    <3>1. PICK z : z \in N /\ z = o
      BY <1>16
    <3>2. z \o (a \o q) = (z \o a) \o q
      <4>1. z \in N /\ a \in N /\ q \in N
        BY <1>17, <3>1
      <4> QED
        BY <1>6, <4>1
    <3> QED
      BY <3>1, <3>2
  <2> QED
    BY <2>1, <2>3, <2>4, Zenon
<1>19. PICK x : x \in N /\ x = o \o a
  BY <1>1, <1>5, <1>16
<1>20. (e \o ja) \o m \in R /\ FlattenSeq((e \o ja) \o m) = x \o (q \o km)
  <2>1. (e \o ja) \o m \in R /\ FlattenSeq((e \o ja) \o m) = (x \o q) \o km
    <3> HIDE DEF o
    <3> QED
      BY <1>8, <1>10, <1>11, <1>12, <1>18, <1>19
  <2>2. x \in N /\ q \in N /\ km \in N
    BY <1>17, <1>19
  <2>3. (x \o q) \o km = x \o (q \o km)
    BY <1>6, <2>2
  <2> QED
    BY <2>1, <2>3, Zenon
<1>21. PICK l : l \in R /\ l = (e \o ja) \o m
  BY <1>20
<1>22. l \o jb \in R /\ FlattenSeq(l \o jb) = ((x \o k) \o b) \o q
  <2>1. l \o jb \in R /\ FlattenSeq(l \o jb) = (x \o (q \o km)) \o (q \o (b \o q))
    BY <1>1, <1>2, <1>8, <1>10, <1>20, <1>21
  <2>2. PICK y : y \in N /\ y = x \o (q \o km)
    BY <1>5, <1>16, <1>19
  <2>3. PICK w : w \in N /\ w = b \o q
    BY <1>1, <1>3, <1>5
  <2>4. y \o (q \o w) = (y \o q) \o w
    <3>1. y \in N /\ q \in N /\ w \in N
      BY <1>17, <2>2, <2>3
    <3> QED
      BY <1>6, <3>1, Zenon
  <2>5. y \o q = x \o k
    <3>1. PICK z : z \in N /\ z = q \o km
      BY <1>16
    <3>2. (x \o z) \o q = x \o (z \o q)
      <4>1. x \in N /\ z \in N /\ q \in N
        BY <1>17, <1>19, <3>1
      <4> QED
        BY <1>6, <4>1
    <3> QED
      BY <2>2, <3>1, <3>2
  <2>6. PICK z : z \in N /\ z = x \o k
    BY <1>5, <1>16, <1>19
  <2>7. z \o (b \o q) = (z \o b) \o q
    <3>1. z \in N /\ b \in N /\ q \in N
      BY <1>17, <2>6
    <3> QED
      BY <1>6, <3>1, Zenon
  <2> HIDE DEF k
  <2> QED
    BY <2>1, <2>2, <2>3, <2>4, <2>5, <2>6, <2>7
<1>23. PICK p : p \in R /\ p = l \o jb
  BY <1>22
<1>24. p \o c \in R /\ FlattenSeq(p \o c) = (((x \o k) \o b) \o q) \o Close
  <2> HIDE DEF k
  <2> QED
    BY <1>8, <1>10, <1>11, <1>12, <1>22, <1>23
<1>25. cs = p \o c /\ FlattenSeq(cs) = WholeObject(value, id)
  BY <1>13, <1>14, <1>19, <1>21, <1>23, <1>24, Zenon
<1>26. cs # <<>>
  <2>1. Len(p \o c) = Len(p) + Len(c) /\ Len(p) \in Nat
    BY <1>11, Joined DEF R
  <2>2. Len(c) = 1
    BY DEF c
  <2>3. Len(cs) # 0
    BY <1>25, <2>1, <2>2
  <2> QED
    BY <2>3
<1> QED
  BY <1>24, <1>25, <1>26 DEF R, N, cs

-----------------------------------------------------------------------------
(* The output of a call.                                                     *)

\* The line a call that succeeds writes.
WholeLine == IF mode = "json" THEN WholeObject(Sealed, Asked) ELSE Append(Sealed, LF)

\* With the calls still to be made the line becomes whole.
Pending(l, cs, whole) ==
    /\ l \in Seq(Number) /\ cs \in Seq(Seq(Number)) /\ cs # <<>>
    /\ l \o FlattenSeq(cs) = whole

\* One call more: the line is whole, or there are more calls.
LEMMA OneCall ==
    ASSUME NEW l, NEW cs, NEW whole, Pending(l, cs, whole)
    PROVE  /\ Len(cs) = 1 => l \o Head(cs) = whole
           /\ Len(cs) # 1 => Pending(l \o Head(cs), Tail(cs), whole)
<1> DEFINE N == Seq(Number)
           h == Head(cs)
           t == Tail(cs)
<1>1. l \in N /\ cs \in Seq(N) /\ cs # <<>> /\ l \o FlattenSeq(cs) = whole
  BY DEF Pending
<1>2. \A x \in Seq(N), y \in Seq(N) : /\ FlattenSeq(x) \in N
                                      /\ FlattenSeq(x \o y) = FlattenSeq(x) \o FlattenSeq(y)
  BY FlattenConcat
<1>3. \A x \in N : FlattenSeq(<<x>>) = x
  BY FlattenShort
<1>4. FlattenSeq(<<>>) = <<>>
  BY FlattenShort
<1>5. \A r \in N, s \in N, u \in N : (r \o s) \o u = r \o (s \o u)
  BY LinesAssociate, Zenon
<1>6. \A r \in N, s \in N : r \o s \in N
  BY Joined
<1>7. \A r \in N : r \o <<>> = r
  BY ConcatEmptySeq
<1> HIDE DEF N
<1>8. h \in N /\ t \in Seq(N) /\ Len(t) = Len(cs) - 1 /\ Len(cs) \in Nat /\ <<h>> \in Seq(N)
  BY <1>1, HeadTailProperties
<1>9. cs = <<h>> \o t
  <2>1. Len(cs) \in Nat /\ Len(cs) >= 1 /\ Len(t) = Len(cs) - 1 /\ cs[1] = h
        /\ \A i \in 1 .. Len(t) : t[i] = cs[i + 1]
    BY <1>1, HeadTailProperties
  <2>2. PICK c \in Seq(N) : c = <<h>> \o t
    BY <1>8, Joined
  <2>3. /\ Len(c) = Len(<<h>>) + Len(t)
        /\ \A i \in 1 .. Len(<<h>>) : c[i] = <<h>>[i]
        /\ \A i \in 1 .. Len(t) : c[Len(<<h>>) + i] = t[i]
    BY <1>8, <2>2, Joined
  <2>4. Len(<<h>>) = 1 /\ <<h>>[1] = h
    OBVIOUS
  <2> HIDE DEF h, t
  <2>5. Len(c) = Len(cs)
    BY <2>1, <2>3, <2>4
  <2>6. ASSUME NEW i \in 1 .. Len(cs) PROVE c[i] = cs[i]
    <3>1. CASE i = 1
      BY <2>1, <2>3, <2>4, <3>1
    <3>2. CASE i # 1
      <4>1. i - 1 \in 1 .. Len(t) /\ 1 + (i - 1) = i /\ (i - 1) + 1 = i
        BY <2>1, <3>2
      <4>2. c[1 + (i - 1)] = t[i - 1] /\ t[i - 1] = cs[(i - 1) + 1]
        BY <2>1, <2>3, <2>4, <4>1
      <4> QED
        BY <4>1, <4>2
    <3> QED
      BY <3>1, <3>2
  <2>7. c = cs
    BY <1>1, <2>5, <2>6, SeqEqual
  <2> QED
    BY <2>2, <2>7
<1> HIDE DEF h, t
<1>10. FlattenSeq(cs) = h \o FlattenSeq(t) /\ FlattenSeq(t) \in N
  <2>1. FlattenSeq(<<h>> \o t) = FlattenSeq(<<h>>) \o FlattenSeq(t) /\ FlattenSeq(t) \in N
    BY <1>2, <1>8
  <2>2. FlattenSeq(<<h>>) = h
    BY <1>3, <1>8
  <2> QED
    BY <1>9, <2>1, <2>2
<1>11. PICK f \in N : f = FlattenSeq(t)
  BY <1>10
<1>12. (l \o h) \o f = whole /\ l \o h \in N
  <2>1. l \in N /\ h \in N
    BY <1>1, <1>8
  <2>2. (l \o h) \o f = l \o (h \o f)
    BY <1>5, <2>1
  <2> QED
    BY <1>1, <1>6, <1>10, <1>11, <2>1, <2>2
<1>13. ASSUME Len(cs) = 1 PROVE l \o h = whole
  <2>1. t = <<>>
    BY <1>8, <1>13
  <2>2. f = <<>>
    BY <1>4, <1>11, <2>1
  <2> QED
    BY <1>7, <1>12, <2>2
<1>14. ASSUME Len(cs) # 1 PROVE Pending(l \o h, t, whole)
  <2>1. t # <<>>
    <3>1. Len(t) # 0
      BY <1>8, <1>14
    <3> QED
      BY <3>1
  <2> QED
    BY <1>8, <1>11, <1>12, <2>1 DEF Pending, N
<1> QED
  BY <1>13, <1>14 DEF h, t

\* The states of the output are told apart.
LEMMA Emissions ==
    /\ OK \notin {"waiting", "writing", "flushing", ERR_INPUT, ERR_IO}
    /\ ERR_INPUT \notin {"waiting", "writing", "flushing", ERR_IO}
    /\ ERR_IO \notin {"waiting", "writing", "flushing"}
BY DEF OK, ERR_INPUT, ERR_IO

\* The key_id that is used is the one that was asked for.
LEMMA UsesAsked ==
    ASSUME DocInv, option \in Seq(Byte) \cup {Unset}, pc = "done", status = OK
    PROVE  EffectiveKeyId = Asked /\ Asked \in Seq(Byte) \cup {Unset}
<1>1. FieldsAsWritten /\ DocTypeInv
  BY DEF DocInv
<1>2. CASE option \notin {Unset, <<>>}
  BY <1>2 DEF EffectiveKeyId, Asked
<1>3. CASE option \in {Unset, <<>>} /\ hasKeyId
  <2>1. ReadsAsObject(doc, format) /\ NamedBy(doc) # Unset /\ keyId = NamedBy(doc)
    BY <1>1, <1>3 DEF FieldsAsWritten
  <2>2. keyId \in Seq(Byte)
    BY <1>1, <2>1 DEF DocTypeInv, Fits
  <2> QED
    BY <1>3, <2>1, <2>2 DEF EffectiveKeyId, Asked
<1>4. CASE option \in {Unset, <<>>} /\ ~hasKeyId
  <2>1. ReadsAsObject(doc, format) => NamedBy(doc) = Unset
    BY <1>1, <1>4 DEF FieldsAsWritten
  <2> QED
    BY <1>4, <2>1 DEF EffectiveKeyId, Asked
<1> QED
  BY <1>2, <1>3, <1>4

\* JSON output begins exactly if there is a key_id of well-formed UTF-8.
LEMMA EmittableIs ==
    ASSUME EffectiveKeyId = Asked, Asked \in Seq(Byte) \cup {Unset}
    PROVE  /\ Emittable => Asked \in Seq(Byte) /\ WellFormed(Asked)
           /\ ~Emittable => Asked = Unset \/ ~WellFormed(Asked)
<1>1. CASE Asked = Unset
  BY <1>1 DEF Emittable
<1>2. CASE Asked # Unset
  <2>1. Asked \in Seq(Byte)
    BY <1>2
  <2>2. ValidUtf8(Asked) <=> WellFormed(Asked)
    BY <2>1, ValidIsWellFormed
  <2> QED
    BY <1>2, <2>1, <2>2 DEF Emittable
<1> QED
  BY <1>1, <1>2

\* What the output is at: nothing is written before the decision, nothing after
\* a refusal, and what is written and what is still to be written make up the
\* whole line.
OutputTypes ==
    /\ option \in Seq(Byte) \cup {Unset} /\ mode \in {"text", "json"}
    /\ emission \in {"waiting", "writing", "flushing", OK, ERR_INPUT, ERR_IO}
OutputInv ==
    /\ OutputTypes
    /\ emission = "waiting" => line = <<>>
    /\ emission # "waiting" => pc = "done" /\ status = OK
    /\ emission \in {"writing", "flushing", OK} /\ mode = "json" =>
          Asked \in Seq(Byte) /\ WellFormed(Asked)
    /\ emission = "writing" => Pending(line, calls, WholeLine)
    /\ emission \in {"flushing", OK} => line = WholeLine
    /\ emission = ERR_INPUT => /\ line = <<>>
                               /\ mode = "json" /\ (Asked = Unset \/ ~WellFormed(Asked))

\* Whatever output is decided on, its calls write the whole line.
LEMMA DecideCalls ==
    ASSUME mode = "text" \/ (mode = "json" /\ EffectiveKeyId = Asked /\ Asked \in Seq(Byte))
    PROVE  Pending(<<>>, OutputCalls, WholeLine)
<1> DEFINE N == Seq(Number)
<1>0. Sealed \in Seq(Byte)
  BY SealedAssumption
<1>1. <<>> \in N /\ \A x \in N : <<>> \o x = x
  BY ConcatEmptySeq
<1>2. CASE mode = "text"
  <2>1. Append(Sealed, LF) \in N
    <3>1. LF \in Byte
      BY DEF LF, Byte
    <3>2. Append(Sealed, LF) \in Seq(Byte)
      BY <1>0, <3>1
    <3> QED
      BY <3>2, BytesAreNumbers
  <2>2. PICK x \in N : x = Append(Sealed, LF)
    BY <2>1
  <2>3. FlattenSeq(<<x>>) = x
    BY FlattenShort
  <2>4. OutputCalls = <<x>> /\ WholeLine = x
    <3>1. mode # "json"
      BY <1>2
    <3> HIDE DEF N
    <3> QED
      BY <1>2, <2>2, <3>1, Zenon DEF OutputCalls, WholeLine
  <2> HIDE DEF N
  <2>5. <<x>> \in Seq(N) /\ <<x>> # <<>>
    OBVIOUS
  <2>6. <<>> \o FlattenSeq(<<x>>) = x
    BY <1>1, <2>3
  <2>7. <<>> \in Seq(Number) /\ <<x>> \in Seq(Seq(Number))
    BY <1>1, <2>5 DEF N
  <2> QED
    BY <2>4, <2>5, <2>6, <2>7, Zenon DEF Pending
<1>3. CASE mode = "json" /\ EffectiveKeyId = Asked /\ Asked \in Seq(Byte)
  <2>1. OutputCalls = CallsFrom(Sealed, Asked)
    <3>1. mode # "text"
      BY <1>3
    <3> QED
      BY <1>3, <3>1, Zenon DEF OutputCalls, CallsFrom
  <2>2. /\ OutputCalls \in Seq(Seq(Number)) /\ OutputCalls # <<>>
        /\ FlattenSeq(OutputCalls) = WholeObject(Sealed, Asked)
    BY <1>0, <1>3, <2>1, ObjectCalls
  <2>3. FlattenSeq(OutputCalls) \in N
    <3>1. \A x \in Seq(N), y \in Seq(N) : FlattenSeq(x) \in N
      BY FlattenConcat
    <3> HIDE DEF N
    <3>2. OutputCalls \in Seq(N)
      BY <2>2 DEF N
    <3> QED
      BY <3>1, <3>2
  <2>4. <<>> \o FlattenSeq(OutputCalls) = WholeObject(Sealed, Asked)
    <3> HIDE DEF N
    <3> QED
      BY <1>1, <2>2, <2>3, Zenon
  <2>5. WholeLine = WholeObject(Sealed, Asked)
    BY <1>3, Zenon DEF WholeLine
  <2> QED
    BY <1>1, <2>2, <2>4, <2>5, Zenon DEF Pending, N
<1> QED
  BY <1>2, <1>3

\* A call that begins has written nothing,
LEMMA OutputStart == OutputInit => OutputInv
<1> SUFFICES ASSUME OutputInit PROVE OutputInv
  OBVIOUS
<1>1. /\ option \in Seq(Byte) \cup {Unset} /\ mode \in {"text", "json"}
      /\ line = <<>> /\ emission = "waiting"
  BY CallBegins
<1> QED
  BY <1>1, Emissions, Zenon DEF OutputInv, OutputTypes

\* The line that is to be written does not change on the way,
LEMMA SameLine ==
    ASSUME UNCHANGED <<doc, format, option, mode>>
    PROVE  Asked' = Asked /\ WholeLine' = WholeLine
<1>1. doc' = doc /\ format' = format /\ option' = option /\ mode' = mode
  OBVIOUS
<1>2. Asked' = Asked
  BY <1>1, Zenon DEF Asked
<1> QED
  BY <1>1, <1>2, Zenon DEF WholeLine

\* and the parser is done before there is any of it.
LEMMA ParserSteps == Next => pc # "done" /\ UNCHANGED <<doc, format>>
BY DEF Next, Dispatch, Open, Name, Value, Separator, Finish

\* No step leaves part of a line for a whole one, or a byte of a refused one.
LEMMA OutputStep == DocInv /\ OutputInv /\ [OutputNext]_allVars => OutputInv'
<1> SUFFICES ASSUME DocInv, OutputInv, [OutputNext]_allVars PROVE OutputInv'
  OBVIOUS
<1>0. /\ OutputTypes
      /\ emission = "waiting" => line = <<>>
      /\ emission # "waiting" => pc = "done" /\ status = OK
      /\ emission \in {"writing", "flushing", OK} /\ mode = "json" =>
            Asked \in Seq(Byte) /\ WellFormed(Asked)
      /\ emission = "writing" => Pending(line, calls, WholeLine)
      /\ emission \in {"flushing", OK} => line = WholeLine
      /\ emission = ERR_INPUT => /\ line = <<>>
                                 /\ mode = "json" /\ (Asked = Unset \/ ~WellFormed(Asked))
  BY DEF OutputInv
<1>1. CASE UNCHANGED allVars
  <2>1. /\ pc' = pc /\ status' = status /\ option' = option /\ mode' = mode
        /\ calls' = calls /\ line' = line /\ emission' = emission
        /\ UNCHANGED <<doc, format, option, mode>>
    BY <1>1 DEF allVars
  <2>2. Asked' = Asked /\ WholeLine' = WholeLine
    BY <2>1, SameLine
  <2> QED
    BY <1>0, <2>1, <2>2, Zenon DEF OutputInv, OutputTypes, Pending
<1>2. CASE Parse
  <2>1. /\ pc # "done" /\ option' = option /\ mode' = mode
        /\ line' = line /\ emission' = emission
    BY <1>2, ParserSteps DEF Parse, outputVars
  <2>2. emission = "waiting" /\ line = <<>>
    BY <1>0, <2>1
  <2> QED
    BY <1>0, <2>1, <2>2, Emissions, Zenon DEF OutputInv, OutputTypes
<1>3. ASSUME Decide \/ Write \/ Flush
      PROVE  /\ pc' = pc /\ status' = status /\ option' = option /\ mode' = mode
             /\ Asked' = Asked /\ WholeLine' = WholeLine
  <2>1. UNCHANGED <<docVars, option, mode>>
    BY <1>3 DEF Decide, Write, Flush
  <2>2. /\ pc' = pc /\ status' = status /\ option' = option /\ mode' = mode
        /\ UNCHANGED <<doc, format, option, mode>>
    BY <2>1 DEF docVars
  <2> QED
    BY <2>2, SameLine
<1>4. CASE Decide
  <2>0. pc = "done" /\ status = OK /\ emission = "waiting" /\ line = <<>>
    BY <1>0, <1>4 DEF Decide
  <2>1. EffectiveKeyId = Asked /\ Asked \in Seq(Byte) \cup {Unset}
    BY <1>0, <2>0, UsesAsked DEF OutputTypes
  <2>2. CASE mode = "json" /\ ~Emittable
    <3>1. emission' = ERR_INPUT /\ line' = line
      BY <1>4, <2>2 DEF Decide, Refuse
    <3>2. Asked = Unset \/ ~WellFormed(Asked)
      BY <2>1, <2>2, EmittableIs
    <3> QED
      BY <1>0, <1>3, <1>4, <2>0, <2>2, <3>1, <3>2, Emissions, Zenon DEF OutputInv, OutputTypes
  <2>3. CASE ~(mode = "json" /\ ~Emittable)
    <3>1. calls' = OutputCalls /\ emission' = "writing" /\ line' = line
      BY <1>4, <2>3 DEF Decide
    <3>2. mode = "json" => Asked \in Seq(Byte) /\ WellFormed(Asked)
      BY <2>1, <2>3, EmittableIs
    <3>3. mode \in {"text", "json"}
      BY <1>0 DEF OutputTypes
    <3>4. Pending(<<>>, OutputCalls, WholeLine)
      BY <2>1, <3>2, <3>3, DecideCalls
    <3>5. Pending(line', calls', WholeLine')
      BY <1>3, <1>4, <2>0, <3>1, <3>4, Zenon
    <3> QED
      BY <1>0, <1>3, <1>4, <2>0, <3>1, <3>2, <3>5, Emissions, Zenon DEF OutputInv, OutputTypes, Pending
  <2> QED
    BY <2>2, <2>3
<1>5. CASE Write
  <2>0. /\ emission = "writing" /\ pc = "done" /\ status = OK
        /\ Pending(line, calls, WholeLine)
        /\ mode = "json" => Asked \in Seq(Byte) /\ WellFormed(Asked)
    BY <1>0, <1>5 DEF Write
  <2>1. /\ Len(calls) = 1 => line \o Head(calls) = WholeLine
        /\ Len(calls) # 1 => Pending(line \o Head(calls), Tail(calls), WholeLine)
    BY <2>0, OneCall
  <2>2. CASE line' = line \o Head(calls) /\ calls' = Tail(calls) /\ Len(calls) = 1
             /\ emission' = "flushing"
    <3>1. line' = WholeLine'
      BY <1>3, <1>5, <2>1, <2>2, Zenon
    <3> QED
      BY <1>0, <1>3, <1>5, <2>0, <2>2, <3>1, Emissions, Zenon DEF OutputInv, OutputTypes
  <2>3. CASE line' = line \o Head(calls) /\ calls' = Tail(calls) /\ Len(calls) # 1
             /\ emission' = "writing"
    <3>1. Pending(line', calls', WholeLine')
      BY <1>3, <1>5, <2>1, <2>3, Zenon
    <3> QED
      BY <1>0, <1>3, <1>5, <2>0, <2>3, <3>1, Emissions, Zenon DEF OutputInv, OutputTypes, Pending
  <2>4. CASE emission' = ERR_IO
    BY <1>0, <1>3, <1>5, <2>0, <2>4, Emissions, Zenon DEF OutputInv, OutputTypes
  <2> QED
    BY <1>5, <2>2, <2>3, <2>4 DEF Write
<1>6. CASE Flush
  <2>0. /\ emission = "flushing" /\ pc = "done" /\ status = OK /\ line = WholeLine
        /\ mode = "json" => Asked \in Seq(Byte) /\ WellFormed(Asked)
    BY <1>0, <1>6 DEF Flush
  <2>1. line' = line /\ emission' \in {OK, ERR_IO}
    BY <1>6 DEF Flush
  <2>2. CASE emission' = OK
    BY <1>0, <1>3, <1>6, <2>0, <2>1, <2>2, Emissions, Zenon DEF OutputInv, OutputTypes
  <2>3. CASE emission' = ERR_IO
    BY <1>0, <1>3, <1>6, <2>0, <2>3, Emissions, Zenon DEF OutputInv, OutputTypes
  <2> QED
    BY <2>1, <2>2, <2>3
<1> QED
  BY <1>1, <1>2, <1>4, <1>5, <1>6 DEF OutputNext

\* So what the line is at holds throughout.
LEMMA OutputInvariant == OutputSpec => []OutputInv
<1>1. OutputInit => OutputInv
  BY OutputStart
<1>2. DocInv /\ OutputInv /\ [OutputNext]_allVars => OutputInv'
  BY OutputStep
<1> QED
  BY <1>1, <1>2, DocInvariant, PTL DEF OutputSpec

\* For every document, option and mode: JSON output is refused exactly if the
\* key_id asked for is missing or is not UTF-8 as RFC 3629 has it, and then
\* before salt_cli_emit_output has written a byte.
THEOREM RefusedWholeHolds == OutputSpec => []RefusedWhole
<1>1. OutputInv => RefusedWhole
  BY DEF OutputInv, RefusedWhole
<1> QED
  BY <1>1, OutputInvariant, PTL

\* The way of the key_id from end to end, for every document, option and sealed
\* message: if the call succeeds, the line is one object, whole, and a reader
\* finds in it the sealed message and the key_id that was asked for, whatever
\* had to be escaped; in text mode it is the sealed message and a line feed.
THEOREM KeyIdSurvivesHolds == OutputSpec => []KeyIdSurvives
<1>1. OutputInv => KeyIdSurvives
  <2> SUFFICES ASSUME OutputInv, emission = OK
               PROVE  IF mode = "json" THEN Asked # Unset /\ ObjectMeans(line, Sealed, Asked)
                      ELSE line = Append(Sealed, LF)
    BY DEF KeyIdSurvives
  <2>1. line = WholeLine /\ (mode = "json" => Asked \in Seq(Byte))
    BY DEF OutputInv
  <2>2. CASE mode = "json"
    <3>1. Asked # Unset
      BY <2>1, <2>2, UnsetAssumption
    <3>2. ObjectMeans(WholeObject(Sealed, Asked), Sealed, Asked)
      BY <2>1, <2>2, SealedAssumption, ObjectRead
    <3> QED
      BY <2>1, <2>2, <3>1, <3>2, Zenon DEF WholeLine
  <2>3. CASE mode # "json"
    BY <2>1, <2>3, Zenon DEF WholeLine
  <2> QED
    BY <2>2, <2>3
<1> QED
  BY <1>1, OutputInvariant, PTL
=============================================================================
