--------------------------- MODULE SealBoxProofs ---------------------------
(* What holds of SealBox for every width of size_t, every size of key and    *)
(* seal overhead, and every argument a caller can pass.                      *)
EXTENDS SealBox, TLAPS

\* sodium_base64_ENCODED_LEN is the padded length and a terminator as long as
\* that fits in a size_t.
LEMMA EncodedLenExact ==
    ASSUME NEW n \in Nat, 4 * ((n + 2) \div 3) + 1 <= SIZE_MAX
    PROVE  EncodedLen(n) = 4 * ((n + 2) \div 3) + 1
<1> DEFINE tail == IF n % 3 = 0 THEN 0 ELSE 4
<1>1. (n \div 3) * 4 + tail = 4 * ((n + 2) \div 3) /\ tail \in Nat /\ (n \div 3) * 4 \in Nat
  OBVIOUS
<1>2. SIZE_MAX \in Nat
  BY SizeAssumption
<1> HIDE DEF tail
<1>3. (n \div 3) * 4 \in 0 .. SIZE_MAX /\ (n \div 3) * 4 + tail + 1 \in 0 .. SIZE_MAX
  BY <1>1, <1>2
<1>4. \A a \in 0 .. SIZE_MAX : a % (SIZE_MAX + 1) = a
  BY <1>2
<1>5. EncodedLen(n) = ((((n \div 3) * 4) % (SIZE_MAX + 1)) + tail + 1) % (SIZE_MAX + 1)
  BY DEF EncodedLen, Wrap, tail
<1> QED BY <1>1, <1>3, <1>4, <1>5

\* salt_required_base64_output_len is exact: it returns the length of the
\* encoding, terminator included, whenever that is below SIZE_MAX, and
\* SIZE_MAX otherwise; no wrap of size_t goes unnoticed.
LEMMA OutputLenExact ==
    ASSUME NEW m \in 0 .. SIZE_MAX
    PROVE  RequiredOutputLen(m) = IF ExactLen(m) < SIZE_MAX THEN ExactLen(m) ELSE SIZE_MAX
<1> USE SizeAssumption
<1>1. CASE m > SIZE_MAX - SEALBYTES
  BY <1>1 DEF RequiredOutputLen, ExactLen
<1>2. CASE m <= SIZE_MAX - SEALBYTES /\ m + SEALBYTES > ((SIZE_MAX - 1) \div 4) * 3
  BY <1>2 DEF RequiredOutputLen, ExactLen
<1>3. CASE m + SEALBYTES <= ((SIZE_MAX - 1) \div 4) * 3
  BY <1>3 DEF RequiredOutputLen, EncodedLen, Wrap, ExactLen
<1> QED BY <1>1, <1>2, <1>3

\* decode_public_key accepts exactly the canonical encodings of a key, padded
\* or not: trying two variants and looking at where decoding stopped leaves
\* no other text through.
LEMMA DecodeExact ==
    ASSUME NEW k \in KeyText
    PROVE  Decodes(k) <=> WholeKey(k)
<1>1. PICK q \in Nat : PublicKeyBytes = 3 * q + 2 /\ 4 * q + 5 <= SIZE_MAX
  <2>1. PublicKeyBytes = 3 * (PublicKeyBytes \div 3) + 2 /\ PublicKeyBytes \div 3 \in Nat
    BY SealAssumption
  <2> QED BY <2>1, SealAssumption, SizeAssumption
<1>2. k.chars \in Nat /\ k.pad \in Nat /\ k.junk \in Nat /\ k.canonical \in BOOLEAN
  BY DEF KeyText
<1>3. MaxKeyLen = 4 * q + 4
  <2>1. (PublicKeyBytes + 2) \div 3 = q + 1 /\ PublicKeyBytes \in Nat
    BY <1>1
  <2> QED BY <1>1, <2>1, EncodedLenExact, SizeAssumption DEF MaxKeyLen
<1>4. DecodedLen(k) = PublicKeyBytes <=> k.chars = 4 * q + 3
  BY <1>1, <1>2 DEF DecodedLen
<1>5. k.chars * 6 = PublicKeyBytes * 8 + 2 <=> k.chars = 4 * q + 3
  BY <1>1, <1>2
<1>6. SUFFICES ASSUME k.chars = 4 * q + 3
               PROVE  Decodes(k) <=> k.canonical /\ k.pad <= 1 /\ k.junk = 0
  BY <1>4, <1>5 DEF Decodes, WholeKey
<1>7. Missing(k) = 1 /\ k.chars % 4 = 3
  BY <1>1, <1>6 DEF Missing
<1>8. \A p \in BOOLEAN : /\ Base642bin(k, p).ok <=> k.canonical /\ (p => k.pad >= 1)
                        /\ Base642bin(k, p).end = k.chars + (IF p THEN 1 ELSE 0)
  <2> SUFFICES ASSUME NEW p \in BOOLEAN
               PROVE  /\ Base642bin(k, p).ok <=> k.canonical /\ (p => k.pad >= 1)
                      /\ Base642bin(k, p).end = k.chars + (IF p THEN 1 ELSE 0)
    OBVIOUS
  <2>1. DecodedLen(k) <= PublicKeyBytes
    BY <1>1, <1>4, <1>6
  <2> QED BY <1>7, <2>1 DEF Base642bin
<1>9. Decodes(k) <=> /\ KeyLen(k) \in 1 .. MaxKeyLen
                     /\ \E p \in BOOLEAN : /\ Base642bin(k, p).ok
                                           /\ Base642bin(k, p).end = KeyLen(k)
  BY <1>4, <1>6 DEF Decodes
<1>10. ASSUME NEW p \in BOOLEAN
       PROVE  Base642bin(k, p).end = KeyLen(k) <=> k.pad + k.junk = IF p THEN 1 ELSE 0
  BY <1>2, <1>8 DEF KeyLen
<1>11. (\E p \in BOOLEAN : Base642bin(k, p).ok /\ Base642bin(k, p).end = KeyLen(k))
         <=> \/ k.canonical /\ k.pad >= 1 /\ k.pad + k.junk = 1
             \/ k.canonical /\ k.pad + k.junk = 0
  BY <1>8, <1>10
<1>12. k.pad <= 1 /\ k.junk = 0
         <=> (k.pad >= 1 /\ k.pad + k.junk = 1) \/ k.pad + k.junk = 0
  BY <1>2
<1>13. k.pad <= 1 /\ k.junk = 0 => KeyLen(k) \in 1 .. MaxKeyLen
  BY <1>2, <1>3, <1>6 DEF KeyLen
<1> QED BY <1>2, <1>9, <1>11, <1>12, <1>13

-----------------------------------------------------------------------------
(* A call, step by step.                                                     *)

\* The arguments of the call in progress are ones its caller may pass.
LEMMA CallsStep == call \in Calls /\ [Next]_boxVars => call' \in Calls
<1> SUFFICES ASSUME call \in Calls, [Next]_boxVars PROVE call' \in Calls
  OBVIOUS
<1>1. CASE \E c \in Calls : Enter(c)
  BY <1>1 DEF Enter
<1>2. CASE Begin \/ Validate \/ InitSodium \/ LockKey \/ Decode \/ Capacity
  BY <1>2 DEF Begin, Validate, InitSodium, LockKey, Decode, Capacity
<1>3. CASE Allocate \/ LockCiphertext \/ SealMessage \/ Encode \/ CleanupScratch \/ Zero
  BY <1>3 DEF Allocate, LockCiphertext, SealMessage, Encode, CleanupScratch, Zero
<1>4. CASE UNCHANGED boxVars
  BY <1>4 DEF boxVars
<1> QED BY <1>1, <1>2, <1>3, <1>4 DEF Next

\* What the checks have found out about the arguments stays true to the end of
\* a call, because nothing but the start of the next call changes them.
LEMMA BoxStep == call \in Calls /\ BoxInv /\ [Next]_boxVars => BoxInv'
<1> SUFFICES ASSUME call \in Calls, BoxInv, [Next]_boxVars PROVE BoxInv'
  OBVIOUS
<1> USE DEF BoxInv, Validated, KeyFound, RoomFound, Justified, NeverAborts, Goto, FailAt
<1>1. call \in CallType /\ call.len \in 0 .. SIZE_MAX /\ call.size \in 0 .. SIZE_MAX
  BY SealAssumption, SizeAssumption DEF CallType
<1>2. CASE \E c \in Calls : Enter(c)
  BY <1>2 DEF Enter
<1>3. CASE Begin
  BY <1>3 DEF Begin, Accepts, OK, ERR_INPUT, ERR_INTERNAL
<1>4. CASE Validate
  <2>1. Accepts(call) => call.null = {} /\ call.len \in 1 .. MaxMessage /\ KeyLen(call.key) # 0
    BY <1>1, SealAssumption DEF Accepts, WholeKey, KeyLen, CallType, KeyText
  <2> QED BY <1>1, <1>4, <2>1, SealAssumption DEF Validate, Leave, OK, ERR_INPUT, ERR_INTERNAL
<1>5. CASE InitSodium
  BY <1>5 DEF InitSodium, Leave, OK, ERR_INPUT, ERR_INTERNAL, ERR_CRYPTO
<1>6. CASE LockKey
  BY <1>6 DEF LockKey
<1>7. CASE Decode
  <2>1. Decodes(call.key) <=> WholeKey(call.key)
    BY <1>1, DecodeExact DEF CallType
  <2> QED BY <1>7, <2>1 DEF Decode, Accepts, OK, ERR_INPUT, ERR_INTERNAL
<1>8. CASE Capacity
  <2>1. RequiredOutputLen(call.len) = SIZE_MAX \/ call.size < RequiredOutputLen(call.len)
          <=> ~(ExactLen(call.len) <= call.size /\ ExactLen(call.len) < SIZE_MAX)
    BY <1>1, OutputLenExact, SizeAssumption DEF ExactLen
  <2> QED BY <1>8, <2>1 DEF Capacity, Accepts, OK, ERR_INPUT, ERR_INTERNAL
<1>9. CASE Allocate
  <2>1. pc = "allocate" /\ call.len \in 1 .. MaxMessage /\ Accepts(call) /\ WholeKey(call.key)
    BY <1>9 DEF Allocate
  <2>2. CiphertextLen = call.len + SEALBYTES
    BY <2>1, SealAssumption, SizeAssumption DEF CiphertextLen, Wrap
  <2>3. CASE allocated' = CiphertextLen /\ Goto("lockCiphertext")
    BY <1>9, <2>1, <2>2, <2>3 DEF Allocate
  <2>4. CASE FailAt("cleanup", ERR_INTERNAL)
    BY <1>9, <2>1, <2>4 DEF Allocate, OK, ERR_INPUT, ERR_INTERNAL
  <2> QED BY <1>9, <2>3, <2>4 DEF Allocate
<1>10. CASE LockCiphertext
  BY <1>10 DEF LockCiphertext
<1>11. CASE SealMessage
  BY <1>11 DEF SealMessage, scratch, OK, ERR_INPUT, ERR_INTERNAL, ERR_CRYPTO
<1>12. CASE Encode
  <2>1. /\ pc = "encode" /\ call.len \in Nat /\ Accepts(call)
        /\ allocated = call.len + SEALBYTES /\ call' = call
    BY <1>1, <1>12 DEF Encode
  <2>2. EncodeNeeds = ExactLen(call.len) /\ ExactLen(call.len) <= call.size
    BY <2>1, SizeAssumption DEF EncodeNeeds, ExactLen, Accepts
  <2>3. ~(call.size < EncodeNeeds)
    BY <1>1, <2>1, <2>2, SizeAssumption DEF ExactLen
  <2>4. pc' = "cleanup" /\ status' \in {OK, ERR_INTERNAL}
    BY <1>12, <2>3 DEF Encode
  <2> QED BY <2>1, <2>4 DEF OK, ERR_INPUT, ERR_INTERNAL
<1>13. CASE CleanupScratch \/ Zero
  BY <1>13 DEF CleanupScratch, Zero, Leave
<1>14. CASE UNCHANGED boxVars
  BY <1>14 DEF boxVars
<1> QED BY <1>2, <1>3, <1>4, <1>5, <1>6, <1>7, <1>8, <1>9, <1>10, <1>11, <1>12, <1>13, <1>14
        DEF Next

\* BoxInv holds in every reachable state.
LEMMA BoxInvariant == BoxSpec => []BoxInv
<1>1. Init => call \in Calls /\ BoxInv
  BY DEF Init, BoxInv, Validated, KeyFound, RoomFound, NeverAborts
<1>2. call \in Calls /\ BoxInv /\ [Next]_boxVars => (call \in Calls /\ BoxInv)'
  BY CallsStep, BoxStep
<1> QED BY <1>1, <1>2, PTL DEF BoxSpec

\* libsodium's encoder never finds the output buffer too small, for any
\* message length and output size (salt_validate_output_capacity).
THEOREM NeverAbortsCorrect == BoxSpec => []NeverAborts
<1>1. BoxInv => NeverAborts
  BY DEF BoxInv
<1> QED BY <1>1, BoxInvariant, PTL

\* SALT_ERR_INPUT means that a precondition of salt.h fails, SALT_OK and
\* SALT_ERR_INTERNAL that all of them hold, for every argument list.
THEOREM PreconditionsCorrect == BoxSpec => []PreconditionsDecide
<1>1. BoxInv => PreconditionsDecide
  BY DEF BoxInv, PreconditionsDecide, Justified
<1> QED BY <1>1, BoxInvariant, PTL

-----------------------------------------------------------------------------
(* What a call leaves behind.                                                *)

\* The results of a step are of their types: no length the code stores or counts
\* exceeds a size_t.
LEMMA BoxTypeStep == TypeOK /\ [Next]_boxVars => TypeOK'
<1> SUFFICES ASSUME TypeOK, [Next]_boxVars PROVE TypeOK'
  OBVIOUS
<1> USE SizeAssumption
        DEF TypeOK, Pcs, Status, OK, ERR_INPUT, ERR_CRYPTO, ERR_INTERNAL, Goto, FailAt,
            effects, scratch
<1>1. call \in CallType /\ call.error \in BOOLEAN /\ call.len \in 0 .. SIZE_MAX
      /\ call.size \in 0 .. SIZE_MAX /\ Leave \in Pcs
  BY SealAssumption DEF CallType, Leave
<1>z. 0 \in 0 .. SIZE_MAX
  OBVIOUS
<1>0. told' \in BOOLEAN
  <2>1. told' \in {told, FALSE, told \/ call.error}
    BY DEF Next, boxVars, Enter, Begin, Validate, InitSodium, LockKey, Decode, Capacity,
           Allocate, LockCiphertext, SealMessage, Encode, CleanupScratch, Zero
  <2> QED BY <1>1, <2>1, Zenon
<1>2. CASE \E c \in Calls : Enter(c)
  BY <1>0, <1>2, <1>z DEF Enter
<1>3. CASE Begin \/ Validate \/ InitSodium
  BY <1>0, <1>1, <1>3, <1>z DEF Begin, Validate, InitSodium
<1>4. CASE LockKey \/ Decode \/ Capacity
  BY <1>0, <1>1, <1>4 DEF LockKey, Decode, Capacity
<1>5. CASE Allocate
  <2>1. CiphertextLen \in 0 .. SIZE_MAX
    BY <1>1 DEF CiphertextLen, Wrap
  <2> QED BY <1>0, <1>1, <1>5, <2>1 DEF Allocate
<1>6. CASE LockCiphertext \/ SealMessage
  BY <1>0, <1>1, <1>6 DEF LockCiphertext, SealMessage
<1>7. CASE Encode
  <2>1. EncodeNeeds \in Nat \ {0}
    BY DEF EncodeNeeds
  <2>2. EncodeNeeds <= call.size => /\ EncodeNeeds \in 0 .. SIZE_MAX
                                    /\ EncodeNeeds - 1 \in 0 .. SIZE_MAX
    BY <1>1, <2>1
  <2>3. call.size >= EncodeNeeds <=> EncodeNeeds <= call.size
    BY <1>1, <2>1
  <2> QED BY <1>0, <1>1, <1>7, <2>2, <2>3 DEF Encode
<1>8. CASE CleanupScratch \/ Zero
  BY <1>0, <1>1, <1>8, <1>z DEF CleanupScratch, Zero
<1>9. CASE UNCHANGED boxVars
  BY <1>9 DEF boxVars
<1> QED BY <1>2, <1>3, <1>4, <1>5, <1>6, <1>7, <1>8, <1>9 DEF Next

\* Every variable of the sealing functions has its type, whatever is passed.
THEOREM BoxTypeCorrect == BoxSpec => []TypeOK
<1>1. 0 \in 0 .. SIZE_MAX
  BY SizeAssumption
<1>2. Init => TypeOK
  BY <1>1 DEF Init, TypeOK, Pcs, Status, OK
<1> QED BY <1>2, BoxTypeStep, PTL DEF BoxSpec

\* Labels at which nothing has been locked, decoded or allocated, or all of it
\* has been released.
EmptyHanded == {"idle", "enter", "validate", "init", "lockKey", "zero", "returned"}

\* Labels of a call that has set *output_written to 0 and not yet sealed.
Underway == Validated \cup {"validate"}

\* What each stage still owes its caller: the count is 0 until the box is
\* stored, the scratch memory is empty outside the stages that use it, and only
\* the zeroing variant, with a plaintext, comes to its last step.
OwedInv == /\ pc \in Underway => written = 0
           /\ pc \in {"cleanup", "zero"} =>
                 written = IF status = OK THEN ExactLen(call.len) - 1 ELSE 0
           /\ pc \in EmptyHanded => publicKey = "clean" /\ allocated = 0 /\ locked = {}
           /\ pc # "returned" => message = "intact"
           /\ pc \in Underway \cup {"cleanup"} => ~(call.zeroing /\ "message" \in call.null)
           /\ pc = "zero" => call.zeroing /\ "message" \notin call.null
           /\ WrittenAgrees /\ PlaintextZeroed

\* A stage that fails or succeeds hands on what it owes.
LEMMA OwedStep == TypeOK /\ BoxInv /\ OwedInv /\ [Next]_boxVars => OwedInv'
<1> SUFFICES ASSUME TypeOK, BoxInv, OwedInv, [Next]_boxVars PROVE OwedInv'
  OBVIOUS
<1> USE DEF OwedInv, Underway, Validated, EmptyHanded, WrittenAgrees, PlaintextZeroed,
            Goto, FailAt, Leave, effects, scratch, OK, ERR_INPUT, ERR_INTERNAL, ERR_CRYPTO
<1>1. call.len \in Nat /\ call.size \in Nat /\ call.zeroing \in BOOLEAN
  BY SealAssumption DEF TypeOK, CallType
<1>2. CASE \E c \in Calls : Enter(c)
  BY <1>2 DEF Enter
<1>3. CASE Begin
  BY <1>3 DEF Begin
<1>4. CASE Validate
  BY <1>1, <1>4 DEF Validate
<1>5. CASE InitSodium
  BY <1>1, <1>5 DEF InitSodium
<1>6. CASE LockKey \/ Decode \/ Capacity
  BY <1>6 DEF LockKey, Decode, Capacity
<1>7. CASE Allocate \/ LockCiphertext \/ SealMessage
  BY <1>7 DEF Allocate, LockCiphertext, SealMessage
<1>8. CASE Encode
  <2>1. pc = "encode" /\ allocated = call.len + SEALBYTES
    BY <1>8 DEF Encode, BoxInv
  <2>2. EncodeNeeds = ExactLen(call.len)
    BY <1>1, <2>1, SizeAssumption DEF EncodeNeeds, ExactLen
  <2>3. CASE /\ stored' = EncodeNeeds /\ written' = stored' - 1
             /\ pc' = "cleanup" /\ status' = OK
    BY <1>8, <2>1, <2>2, <2>3 DEF Encode
  <2>4. CASE FailAt("cleanup", ERR_INTERNAL) /\ UNCHANGED <<written, stored>>
    BY <1>8, <2>1, <2>4 DEF Encode
  <2>5. CASE pc' = "aborted"
    BY <1>8, <2>1, <2>5 DEF Encode
  <2> QED BY <1>8, <2>3, <2>4, <2>5 DEF Encode
<1>9. CASE CleanupScratch
  BY <1>1, <1>9 DEF CleanupScratch
<1>10. CASE Zero
  BY <1>1, <1>10 DEF Zero
<1>11. CASE UNCHANGED boxVars
  BY <1>11 DEF boxVars
<1> QED BY <1>2, <1>3, <1>4, <1>5, <1>6, <1>7, <1>8, <1>9, <1>10, <1>11 DEF Next

\* OwedInv holds in every reachable state.
LEMMA OwedInvariant == BoxSpec => []OwedInv
<1>1. Init => OwedInv
  BY DEF Init, OwedInv, Underway, Validated, EmptyHanded, WrittenAgrees, PlaintextZeroed
<1> QED BY <1>1, OwedStep, BoxTypeCorrect, BoxInvariant, PTL DEF BoxSpec

\* *output_written is the length of what was stored, or 0: a count left by an
\* earlier call outlives no failure.
THEOREM WrittenCorrect == BoxSpec => []WrittenAgrees
<1>1. OwedInv => WrittenAgrees
  BY DEF OwedInv
<1> QED BY <1>1, OwedInvariant, PTL

\* Every path out of a call wipes and releases its key and its ciphertext.
THEOREM NothingKeptCorrect == BoxSpec => []NothingKept
<1>1. OwedInv => NothingKept
  BY DEF OwedInv, NothingKept, EmptyHanded
<1> QED BY <1>1, OwedInvariant, PTL

\* The zeroing variant wipes every plaintext whose length it accepts, on every
\* path, and the other variant leaves it alone.
THEOREM PlaintextZeroedCorrect == BoxSpec => []PlaintextZeroed
<1>1. OwedInv => PlaintextZeroed
  BY DEF OwedInv
<1> QED BY <1>1, OwedInvariant, PTL
=============================================================================
