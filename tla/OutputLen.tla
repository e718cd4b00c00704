----------------------------- MODULE OutputLen -----------------------------
(***************************************************************************)
(* src/salt.c, salt_required_base64_output_len: the bytes of output a      *)
(* message needs, base64 terminator included, in size_t arithmetic.        *)
(***************************************************************************)
EXTENDS Integers

CONSTANTS SIZE_MAX,   \* largest size_t
          SEALBYTES   \* crypto_box_SEALBYTES

\* A size_t of at least 16 bits: SIZE_MAX + 1 is a power of two, hence a
\* multiple of 4.
ASSUME SizeAssumption == /\ SIZE_MAX \in Nat /\ SIZE_MAX % 4 = 3
                         /\ SEALBYTES \in Nat \ {0} /\ SEALBYTES < SIZE_MAX

\* size_t addition and multiplication wrap.
Wrap(n) == n % (SIZE_MAX + 1)

\* sodium_base64_ENCODED_LEN(n, sodium_base64_VARIANT_ORIGINAL): a quantum of
\* four characters for every three bytes begun, and the terminator.
EncodedLen(n) == Wrap(Wrap((n \div 3) * 4) + (IF n % 3 = 0 THEN 0 ELSE 4) + 1)

\* A fault to detect: the expansion is not tested for overflow.
RequiredOutputLenUnguarded(m) ==
    IF m > SIZE_MAX - SEALBYTES THEN SIZE_MAX ELSE EncodedLen(m + SEALBYTES)

\* SIZE_MAX stands for a length that does not fit.
RequiredOutputLen(m) ==
    IF m > SIZE_MAX - SEALBYTES THEN SIZE_MAX
    ELSE IF m + SEALBYTES > ((SIZE_MAX - 1) \div 4) * 3 THEN SIZE_MAX
    ELSE EncodedLen(m + SEALBYTES)
=============================================================================
