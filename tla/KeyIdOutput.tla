---------------------------- MODULE KeyIdOutput ----------------------------
(***************************************************************************)
(* The way of a key_id through a call: from the key document or the option *)
(* --key-id (src/cli/state.c: salt_cli_resolve_effective_key_id) to the    *)
(* line salt_cli_emit_output writes (src/cli/output.c), one stdio call a   *)
(* step, any of which may fail.  The message itself is sealed in between;  *)
(* SaltCli models that.                                                    *)
(***************************************************************************)
EXTENDS KeyDocument, Utf8

CONSTANT Sealed   \* the sealed message in base64

ASSUME SealedAssumption == Sealed \in Seq(Byte) /\ \A i \in 1 .. Len(Sealed) : Sealed[i] \in 43 .. 122

ASSUME OptionsAssumption ==
    \A family \in Inputs : \A in \in family :
        in.option \in Seq(Byte) \cup {Unset} /\ in.mode \in {"text", "json"}

\* The fixed texts of the output stand for one byte each:
\* {"encrypted_value":   ,"key_id":   }
Brace == 123
EncryptedMember == 256
KeyIdMember == 257
Close == <<125, LF>>

VARIABLES option,   \* key_id_option, Unset when there is none
          mode,     \* output_mode
          calls,    \* the stdio calls still to be made, each with its bytes
          line,     \* what has been written to the stream
          emission  \* "waiting", "writing", "flushing", then a status

outputVars == <<option, mode, calls, line, emission>>
allVars == <<pc, doc, format, cursor, field, key, keyId, hasKeyId, status,
             option, mode, calls, line, emission>>

OutputInit == /\ \E family \in Inputs : \E in \in family :
                    CallWith(in) /\ option = in.option /\ mode = in.mode
              /\ calls = <<>> /\ line = <<>> /\ emission = "waiting"

-----------------------------------------------------------------------------

Parse == Next /\ UNCHANGED outputVars

\* salt_cli_resolve_effective_key_id.
EffectiveKeyId ==
    IF option \notin {Unset, <<>>} THEN option ELSE IF hasKeyId THEN keyId ELSE Unset

\* What JSON output can be made of.
Emittable == EffectiveKeyId # Unset /\ ValidUtf8(EffectiveKeyId)

Refuse == emission' = ERR_INPUT /\ UNCHANGED <<calls, line>>

\* The calls salt_cli_emit_output makes, the flush apart.
OutputCalls ==
    IF mode = "text" THEN << Append(Sealed, LF) >>
    ELSE << <<Brace>>, <<EncryptedMember>> >> \o JsonStringCalls(Sealed)
         \o << <<KeyIdMember>> >> \o JsonStringCalls(EffectiveKeyId) \o << Close >>

\* salt_cli_emit_output is called; JSON output asks for a key_id of UTF-8.
Decide ==
    /\ pc = "done" /\ status = OK /\ emission = "waiting"
    /\ IF mode = "json" /\ ~Emittable THEN Refuse
       ELSE calls' = OutputCalls /\ emission' = "writing" /\ UNCHANGED line
    /\ UNCHANGED <<docVars, option, mode>>

\* fputc, fputs or vfprintf: one call of cli_stream_putc, _puts or _printf.
Write ==
    /\ emission = "writing"
    /\ \/ /\ line' = line \o Head(calls) /\ calls' = Tail(calls)
          /\ emission' = IF Len(calls) = 1 THEN "flushing" ELSE "writing"
       \/ emission' = ERR_IO /\ calls' = <<>> /\ UNCHANGED line
    /\ UNCHANGED <<docVars, option, mode>>

\* cli_stream_flush.
Flush ==
    /\ emission = "flushing"
    /\ emission' \in {OK, ERR_IO}
    /\ UNCHANGED <<docVars, option, mode, calls, line>>

OutputNext == Parse \/ Decide \/ Write \/ Flush

OutputSpec == OutputInit /\ [][OutputNext]_allVars

-----------------------------------------------------------------------------
(* What a reader of the line makes of it.                                    *)

\* The raw strings a and b of the object with the two members, if it is one.
IsObjectOf(l, a, b) ==
    l = <<Brace, EncryptedMember, Quote>> \o a \o <<Quote, KeyIdMember, Quote>>
        \o b \o <<Quote>> \o Close

\* The object means the value and the key_id.
ObjectMeans(l, value, id) ==
    \E before \in {i \in 1 .. Len(l) : l[i] = KeyIdMember} :
        \E a \in {SubSeq(l, 4, before - 2)}, b \in {SubSeq(l, before + 2, Len(l) - 3)} :
            /\ IsObjectOf(l, a, b)
            /\ \A raw \in {a, b} : NoControl(raw) /\ Delimited(raw, TRUE)
            /\ Meaning(a) = value /\ Meaning(b) = id

\* The key_id asked for: a non-empty option before the document's.
Asked ==
    IF option \notin {Unset, <<>>} THEN option
    ELSE IF ReadsAsObject(doc, format) THEN NamedBy(doc) ELSE Unset

-----------------------------------------------------------------------------
(* Properties.                                                               *)

\* A successful call has written one whole object that a reader of RFC 8259
\* understands as the sealed message and the very key_id that was asked for,
\* escaped, trimmed or out of the option (or the bare message, in text mode).
KeyIdSurvives ==
    emission = OK =>
        IF mode = "json" THEN Asked # Unset /\ ObjectMeans(line, Sealed, Asked)
        ELSE line = Append(Sealed, LF)

\* salt.h and output.c promise a JSON text of well-formed UTF-8: the call is
\* refused exactly when the key_id is missing or not RFC 3629, and then not
\* a byte has been written.
RefusedWhole ==
    /\ emission = ERR_INPUT => /\ line = <<>>
                               /\ mode = "json" /\ (Asked = Unset \/ ~WellFormed(Asked))
    /\ emission = OK /\ mode = "json" => WellFormed(Asked)
=============================================================================
