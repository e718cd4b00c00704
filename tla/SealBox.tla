------------------------------ MODULE SealBox ------------------------------
(***************************************************************************)
(* src/salt.c: one caller of salt_seal_base64_keylen and of its variant    *)
(* that zeroes the plaintext, call after call.  Every step that can fail   *)
(* does so at will, and the caller passes any lengths, sizes and pointers  *)
(* that are in Calls, which need not satisfy the preconditions of salt.h.  *)
(*                                                                         *)
(* A base64 key is reduced to how many characters of the alphabet, '=' and *)
(* anything else it consists of, in this order, and whether the bits its   *)
(* last character does not use are zero.  The C-string variants pass at    *)
(* most one character more than a key may have, so they add nothing here.  *)
(***************************************************************************)
EXTENDS OutputLen, SaltStatus

CONSTANTS MaxMessage,      \* SALT_MAX_MESSAGE_LEN
          PublicKeyBytes,  \* crypto_box_PUBLICKEYBYTES
          Calls            \* the argument lists a caller may pass

KeyText == [chars : Nat, canonical : BOOLEAN, pad : Nat, junk : Nat]

CallType ==
    [zeroing : BOOLEAN,                            \* which variant
     null    : SUBSET {"message", "key", "output"},
     len     : Nat,                                \* message_len
     key     : KeyText,
     size    : Nat,                                \* output_size
     error   : BOOLEAN]                            \* an error buffer is given

\* The bound on MaxMessage is the _Static_assert of salt.c; 32 bytes of key
\* leave one base64 quantum short by one, as every size of this form does.
ASSUME SealAssumption ==
    /\ MaxMessage \in Nat \ {0} /\ MaxMessage <= SIZE_MAX - SEALBYTES
    /\ PublicKeyBytes \in Nat /\ PublicKeyBytes % 3 = 2
    /\ 4 * ((PublicKeyBytes + 2) \div 3) + 1 <= SIZE_MAX
    /\ Calls \subseteq CallType
    /\ \A c \in Calls : c.len <= SIZE_MAX /\ c.size <= SIZE_MAX

VARIABLES pc,         \* control of the call in progress
          call,       \* its arguments
          status,     \* what it returns
          written,    \* *output_written
          stored,     \* bytes put in the output buffer, NUL included
          message,    \* the caller's plaintext: "intact" or "wiped"
          told,       \* the error buffer was written
          publicKey,  \* the scratch key: "clean" or "decoded"
          allocated,  \* bytes of the ciphertext buffer, 0: not allocated
          locked      \* the scratch regions sodium_mlock has locked

boxVars == <<pc, call, status, written, stored, message, told,
             publicKey, allocated, locked>>

Pcs == {"idle", "enter", "validate", "init", "lockKey", "decode", "capacity", "allocate",
        "lockCiphertext", "seal", "encode", "cleanup", "zero", "returned", "aborted"}

Init == /\ pc = "idle" /\ call \in Calls /\ status = OK
        /\ written = 0 /\ stored = 0 /\ message = "intact" /\ told = FALSE
        /\ publicKey = "clean" /\ allocated = 0 /\ locked = {}

-----------------------------------------------------------------------------
(* Operators.                                                                *)

KeyLen(k) == k.chars + k.pad + k.junk

MaxKeyLen == EncodedLen(PublicKeyBytes) - 1

\* sodium_base642bin with b64_end, for a buffer of PublicKeyBytes: it stops at
\* the first character it does not expect, which need not be the last.
\* padded is sodium_base64_VARIANT_ORIGINAL, otherwise ..._NO_PADDING.
Missing(k) == (4 - (k.chars % 4)) % 4
DecodedLen(k) == (k.chars * 6) \div 8

Base642bin(k, padded) ==
    [ok  |-> /\ k.chars % 4 # 1
             /\ k.chars % 4 # 0 => k.canonical
             /\ DecodedLen(k) <= PublicKeyBytes
             /\ padded => k.pad >= Missing(k),
     end |-> k.chars + (IF padded THEN Missing(k) ELSE 0)]

\* A fault to detect: whatever follows a key is ignored.
DecodesPrefix(k) ==
    /\ KeyLen(k) \in 1 .. MaxKeyLen
    /\ \E padded \in BOOLEAN : /\ Base642bin(k, padded).ok
                               /\ DecodedLen(k) = PublicKeyBytes

\* decode_public_key succeeds.
Decodes(k) ==
    /\ KeyLen(k) \in 1 .. MaxKeyLen
    /\ \E padded \in BOOLEAN : /\ Base642bin(k, padded).ok
                               /\ DecodedLen(k) = PublicKeyBytes
                               /\ Base642bin(k, padded).end = KeyLen(k)

-----------------------------------------------------------------------------
(* The steps of a call.                                                      *)

scratch == <<publicKey, allocated, locked>>
effects == <<written, stored, message>>

Goto(label) == pc' = label /\ UNCHANGED <<status, told>>

\* set_error, then on with the failure.
FailAt(label, s) == pc' = label /\ status' = s /\ told' = (told \/ call.error)

\* Where a call ends: the zeroing variant still has the plaintext to wipe.
Leave == IF call.zeroing THEN "zero" ELSE "returned"

Enter(c) ==
    /\ pc \in {"idle", "returned"}
    /\ call' = c /\ pc' = "enter"
    /\ status' = ERR_INTERNAL
    /\ stored' = 0 /\ message' = "intact" /\ told' = FALSE
    /\ UNCHANGED <<written, scratch>>

\* A fault to detect: *output_written is not reset.
BeginKeeping ==
    /\ pc = "enter"
    /\ IF call.zeroing /\ "message" \in call.null
       THEN FailAt("returned", ERR_INPUT)
       ELSE Goto("validate")
    /\ UNCHANGED <<call, effects, scratch>>

\* *output_written = 0, and the null check of the zeroing variant.
Begin ==
    /\ pc = "enter"
    /\ written' = 0
    /\ IF call.zeroing /\ "message" \in call.null
       THEN FailAt("returned", ERR_INPUT)
       ELSE Goto("validate")
    /\ UNCHANGED <<call, stored, message, scratch>>

\* salt_validate_seal_inputs.
Validate ==
    /\ pc = "validate"
    /\ IF \/ call.null # {}
          \/ call.len = 0 \/ call.len > MaxMessage
          \/ KeyLen(call.key) = 0
       THEN FailAt(Leave, ERR_INPUT) ELSE Goto("init")
    /\ UNCHANGED <<call, effects, scratch>>

InitSodium ==
    /\ pc = "init"
    /\ Goto("lockKey") \/ FailAt(Leave, ERR_CRYPTO)
    /\ UNCHANGED <<call, effects, scratch>>

\* sodium_mlock is best effort.
LockKey ==
    /\ pc = "lockKey"
    /\ locked' \in {locked, locked \cup {"public_key"}}
    /\ Goto("decode")
    /\ UNCHANGED <<call, effects, publicKey, allocated>>

\* A fault to detect: an early return instead of the cleanup.
DecodeReturning ==
    /\ pc = "decode"
    /\ IF Decodes(call.key) THEN publicKey' = "decoded" /\ Goto("capacity")
                            ELSE publicKey' = "clean" /\ FailAt(Leave, ERR_INPUT)
    /\ UNCHANGED <<call, effects, allocated, locked>>

Decode ==
    /\ pc = "decode"
    /\ IF Decodes(call.key) THEN publicKey' = "decoded" /\ Goto("capacity")
                            ELSE publicKey' = "clean" /\ FailAt("cleanup", ERR_INPUT)
    /\ UNCHANGED <<call, effects, allocated, locked>>

\* salt_validate_output_capacity.
Capacity ==
    /\ pc = "capacity"
    /\ LET required == RequiredOutputLen(call.len) IN
          IF required = SIZE_MAX \/ call.size < required
          THEN FailAt("cleanup", ERR_INPUT) ELSE Goto("allocate")
    /\ UNCHANGED <<call, effects, scratch>>

CiphertextLen == Wrap(call.len + SEALBYTES)

Allocate ==
    /\ pc = "allocate"
    /\ \/ allocated' = CiphertextLen /\ Goto("lockCiphertext")
       \/ UNCHANGED allocated /\ FailAt("cleanup", ERR_INTERNAL)
    /\ UNCHANGED <<call, effects, publicKey, locked>>

LockCiphertext ==
    /\ pc = "lockCiphertext"
    /\ locked' \in {locked, locked \cup {"ciphertext"}}
    /\ Goto("seal")
    /\ UNCHANGED <<call, effects, publicKey, allocated>>

SealMessage ==
    /\ pc = "seal"
    /\ Goto("encode") \/ FailAt("cleanup", ERR_CRYPTO)
    /\ UNCHANGED <<call, effects, scratch>>

\* sodium_bin2base64 calls sodium_misuse, which aborts the process, when the
\* encoding does not fit; a replacement of it may also return NULL.
EncodeNeeds == ((allocated + 2) \div 3) * 4 + 1

\* A fault to detect: the output is measured before it is written.
EncodeCountingFirst ==
    /\ pc = "encode"
    /\ call.size >= EncodeNeeds
    /\ stored' = EncodeNeeds /\ written' = stored - 1
    /\ pc' = "cleanup" /\ status' = OK
    /\ UNCHANGED <<told, call, message, scratch>>

Encode ==
    /\ pc = "encode"
    /\ \/ /\ call.size < EncodeNeeds
          /\ pc' = "aborted" /\ UNCHANGED <<status, told, written, stored>>
       \/ /\ call.size >= EncodeNeeds
          /\ stored' = EncodeNeeds /\ written' = stored' - 1
          /\ pc' = "cleanup" /\ status' = OK /\ UNCHANGED told
       \/ /\ call.size >= EncodeNeeds
          /\ FailAt("cleanup", ERR_INTERNAL) /\ UNCHANGED <<written, stored>>
    /\ UNCHANGED <<call, message, scratch>>

\* salt_secure_release of both regions: sodium_munlock wipes and unlocks, and
\* sodium_memzero wipes what could not be locked.
CleanupScratch ==
    /\ pc = "cleanup"
    /\ publicKey' = "clean" /\ allocated' = 0 /\ locked' = {}
    /\ Goto(Leave)
    /\ UNCHANGED <<call, effects>>

\* A fault to detect: the plaintext of a failed call is kept.
ZeroOnSuccess ==
    /\ pc = "zero"
    /\ message' = IF status = OK THEN "wiped" ELSE message
    /\ Goto("returned")
    /\ UNCHANGED <<call, written, stored, scratch>>

Zero ==
    /\ pc = "zero"
    /\ message' = IF call.len \in 1 .. MaxMessage THEN "wiped" ELSE message
    /\ Goto("returned")
    /\ UNCHANGED <<call, written, stored, scratch>>

Next == \/ \E c \in Calls : Enter(c)
        \/ Begin \/ Validate \/ InitSodium \/ LockKey \/ Decode \/ Capacity \/ Allocate
        \/ LockCiphertext \/ SealMessage \/ Encode \/ CleanupScratch \/ Zero

BoxSpec == Init /\ [][Next]_boxVars

-----------------------------------------------------------------------------
(* Properties.                                                               *)

\* The preconditions of salt.h, stated without the code's arithmetic: a whole
\* key, padded or not, and room for the encoding of the sealed box, which has
\* to be smaller than the sentinel SIZE_MAX.
WholeKey(k) == /\ k.chars * 6 = PublicKeyBytes * 8 + 2
               /\ k.canonical /\ k.pad <= 1 /\ k.junk = 0

ExactLen(m) == 4 * ((m + SEALBYTES + 2) \div 3) + 1

Accepts(c) == /\ c.null = {}
              /\ c.len \in 1 .. MaxMessage
              /\ WholeKey(c.key)
              /\ ExactLen(c.len) <= c.size /\ ExactLen(c.len) < SIZE_MAX

\* Every variable has its type; what is stored never exceeds a size_t.
TypeOK == /\ pc \in Pcs /\ call \in Calls /\ status \in Status
          /\ written \in 0 .. SIZE_MAX /\ stored \in 0 .. SIZE_MAX
          /\ message \in {"intact", "wiped"} /\ told \in BOOLEAN
          /\ publicKey \in {"clean", "decoded"}
          /\ allocated \in 0 .. SIZE_MAX
          /\ locked \in SUBSET {"public_key", "ciphertext"}

\* The encoder never meets a buffer that is too small, which would abort the
\* process, whatever lengths and sizes are passed and however size_t
\* arithmetic wraps (salt_validate_output_capacity).
NeverAborts == pc # "aborted"

\* A call is refused as SALT_ERR_INPUT only when a precondition of salt.h
\* fails, and seals only when all hold: salt_required_base64_output_len is
\* neither too small nor too large, and a key is decoded as a whole or not at
\* all (decode_public_key).  These are the statuses SaltCli relies on.
PreconditionsDecide ==
    pc = "returned" => /\ status = ERR_INPUT => ~Accepts(call)
                       /\ status \in {OK, ERR_INTERNAL} => Accepts(call)

\* *output_written is set on every path, to 0 unless the call succeeds: the
\* count of an earlier call never survives a failure.
WrittenAgrees ==
    pc = "returned" => written = IF status = OK THEN ExactLen(call.len) - 1 ELSE 0

\* A call that returns keeps neither its decoded key, nor its ciphertext, nor
\* a lock on either: no failure bypasses the cleanup.
NothingKept ==
    pc = "returned" => publicKey = "clean" /\ allocated = 0 /\ locked = {}

\* The zeroing variant wipes every plaintext of an accepted length, also when
\* the call fails, and the other never touches it.
PlaintextZeroed ==
    pc = "returned" =>
        (message = "wiped" <=> /\ call.zeroing /\ "message" \notin call.null
                               /\ call.len \in 1 .. MaxMessage)

-----------------------------------------------------------------------------
(* Why NeverAborts and PreconditionsDecide hold: what each stage has found   *)
(* out about the arguments.                                                  *)

Validated == {"init", "lockKey", "decode", "capacity", "allocate", "lockCiphertext",
              "seal", "encode"}
KeyFound  == {"capacity", "allocate", "lockCiphertext", "seal", "encode"}
RoomFound == {"allocate", "lockCiphertext", "seal", "encode"}

Justified == /\ status = ERR_INPUT => ~Accepts(call)
             /\ status \in {OK, ERR_INTERNAL} => Accepts(call)

BoxInv == /\ pc \in Validated => /\ call.null = {} /\ call.len \in 1 .. MaxMessage
                                 /\ KeyLen(call.key) # 0
          /\ pc \in KeyFound => WholeKey(call.key)
          /\ pc \in RoomFound => Accepts(call)
          /\ pc \in {"lockCiphertext", "seal", "encode"} => allocated = call.len + SEALBYTES
          /\ pc \in {"cleanup", "zero", "returned"} => Justified
          /\ NeverAborts
=============================================================================
