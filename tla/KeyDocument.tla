---------------------------- MODULE KeyDocument ----------------------------
(***************************************************************************)
(* src/cli/parse.c: salt_cli_parse_key_input, which reads a key as base64  *)
(* text or as a JSON object with the fields "key" and "key_id", and the    *)
(* strict parser of that object.  The parse is checked against a grammar   *)
(* of the objects it should accept, stated apart.                          *)
(*                                                                         *)
(* A document is a sequence of lexemes: marks of one byte, and strings with*)
(* the raw bytes between their quotes.  A string that is not closed runs to*)
(* the end of the document.                                                *)
(***************************************************************************)
EXTENDS SaltStatus, JsonString

CONSTANTS Inputs,     \* families of calls, each a document and a format
          FieldSize,  \* sizeof(field), 32 in the code
          KeySize,    \* key_b64_size
          KeyIdSize   \* key_id_size

Formats == {"auto", "base64", "json"}

\* "key" and "key_id".
KEY == <<107, 101, 121>>
KEY_ID == KEY \o <<95, 105, 100>>

\* "space" is what JSON calls whitespace, "vtab" stands for \v and \f.
Blank == {"space", "vtab"}
MarkByte == [m \in {"{", "}", ":", ",", "other"} \cup Blank |->
               CASE m = "{" -> 123 [] m = "}" -> 125 [] m = ":" -> 58 [] m = "," -> 44
                 [] m = "space" -> Space [] m = "vtab" -> VT [] m = "other" -> 120]

Mark(m) == [kind |-> m, raw |-> <<>>, closed |-> TRUE]
Lexeme == [kind : DOMAIN MarkByte \cup {"string"}, raw : Seq(Byte), closed : BOOLEAN]
IsLexeme(x) == /\ x \in Lexeme
               /\ x.kind = "string" => Delimited(x.raw, x.closed)
               /\ x.kind # "string" => x = Mark(x.kind)

ASSUME InputsAssumption ==
    \A family \in Inputs : \A in \in family :
        /\ in.format \in Formats /\ in.doc \in Seq(Lexeme)
        /\ \A i \in 1 .. Len(in.doc) : /\ IsLexeme(in.doc[i])
                                       /\ ~in.doc[i].closed => i = Len(in.doc)

ASSUME UnsetAssumption == Unset \notin Seq(Byte)

ASSUME BuffersAssumption == {FieldSize, KeySize, KeyIdSize} \subseteq Nat \ {0}

VARIABLES pc,
          doc,       \* key_input
          format,    \* key_format
          cursor,    \* index of the lexeme under the cursor
          field,     \* the field name just read
          key,       \* key_b64, Unset before it is read
          keyId,     \* key_id, likewise
          hasKeyId,  \* *has_key_id
          status     \* what the call returns

docVars == <<pc, doc, format, cursor, field, key, keyId, hasKeyId, status>>

\* A behaviour is one call: the parser keeps nothing from one to the next.
CallWith(in) == /\ pc = "dispatch" /\ doc = in.doc /\ format = in.format
                /\ cursor = 1 /\ field = Unset /\ key = Unset /\ keyId = Unset
                /\ hasKeyId = FALSE /\ status = ERR_INPUT

Init == \E family \in Inputs : \E in \in family : CallWith(in)

-----------------------------------------------------------------------------
(* Operators.                                                                *)

\* The lexeme at an index; behind the last one is the terminating NUL.
At(i) == IF i <= Len(doc) THEN doc[i] ELSE Mark("NUL")

\* json_skip_ws: the first index from i on that is not whitespace.
Skip(i) == CHOOSE j \in i .. Len(doc) + 1 :
              /\ At(j).kind \notin Blank
              /\ \A k \in i .. j - 1 : At(k).kind \in Blank

\* What json_parse_string_token stores of the token at i.
Stored(i, size) ==
    IF At(i).kind = "string" THEN StringToken(At(i).raw, At(i).closed, size) ELSE Unset

\* The bytes of a document.
Spelling(d) ==
    FlattenSeq([i \in 1 .. Len(d) |->
        CASE d[i].kind # "string" -> <<MarkByte[d[i].kind]>>
          [] OTHER -> <<Quote>> \o d[i].raw \o (IF d[i].closed THEN <<Quote>> ELSE <<>>)])

Fail == pc' = "done" /\ UNCHANGED <<cursor, field, key, keyId, hasKeyId, status>>
Advance(label, i) == pc' = label /\ cursor' = i /\ UNCHANGED <<hasKeyId, status>>

-----------------------------------------------------------------------------
(* The steps of a call.                                                      *)

\* salt_cli_should_parse_key_as_json, then salt_cli_copy_base64_key_input or
\* the JSON parser.
Dispatch ==
    /\ pc = "dispatch"
    /\ LET first  == Skip(1)
           asJson == format = "json" \/ (format = "auto" /\ At(first).kind = "{")
           text   == Spelling(SubSeq(doc, first, Len(doc)))
           copied == Len(text) < KeySize /\ Trim(text) # <<>>
       IN \/ /\ asJson /\ Advance("open", first) /\ UNCHANGED <<field, key, keyId>>
          \/ /\ ~asJson /\ copied
             /\ key' = Trim(text) /\ status' = OK /\ pc' = "done"
             /\ UNCHANGED <<cursor, field, keyId, hasKeyId>>
          \/ ~asJson /\ ~copied /\ Fail
    /\ UNCHANGED <<doc, format>>

\* The opening brace, and no closing one at once.
Open ==
    /\ pc = "open"
    /\ IF At(cursor).kind = "{" /\ At(Skip(cursor + 1)).kind # "}"
       THEN Advance("name", Skip(cursor + 1)) /\ UNCHANGED <<field, key, keyId>>
       ELSE Fail
    /\ UNCHANGED <<doc, format>>

\* json_parse_field_name.
Name ==
    /\ pc = "name"
    /\ LET name  == Skip(cursor)
           colon == Skip(name + 1)
       IN IF Stored(name, FieldSize) # Unset /\ At(colon).kind = ":"
          THEN /\ field' = Stored(name, FieldSize) /\ Advance("value", Skip(colon + 1))
               /\ UNCHANGED <<key, keyId>>
          ELSE Fail
    /\ UNCHANGED <<doc, format>>

\* A fault to detect: *has_key_id is set as soon as the field is read.
ValueAnnouncing ==
    /\ pc = "value"
    /\ LET storesKey == field = KEY /\ key = Unset /\ Stored(cursor, KeySize) # Unset
           storesId  == field = KEY_ID /\ keyId = Unset /\ Stored(cursor, KeyIdSize) # Unset
       IN \/ /\ storesKey \/ storesId
             /\ key' = IF storesKey THEN Stored(cursor, KeySize) ELSE key
             /\ keyId' = IF storesId THEN Stored(cursor, KeyIdSize) ELSE keyId
             /\ hasKeyId' = (hasKeyId \/ storesId)
             /\ pc' = "separator" /\ cursor' = Skip(cursor + 1) /\ UNCHANGED <<field, status>>
          \/ ~storesKey /\ ~storesId /\ Fail
    /\ UNCHANGED <<doc, format>>

\* A fault to detect: the later of two fields of one name counts.
ValueAgain ==
    /\ pc = "value"
    /\ LET storesKey == field = KEY /\ Stored(cursor, KeySize) # Unset
           storesId  == field = KEY_ID /\ Stored(cursor, KeyIdSize) # Unset
       IN \/ /\ storesKey \/ storesId
             /\ key' = IF storesKey THEN Stored(cursor, KeySize) ELSE key
             /\ keyId' = IF storesId THEN Stored(cursor, KeyIdSize) ELSE keyId
             /\ Advance("separator", Skip(cursor + 1)) /\ UNCHANGED field
          \/ ~storesKey /\ ~storesId /\ Fail
    /\ UNCHANGED <<doc, format>>

\* json_parse_known_field: a name that is unknown or repeated fails.
Value ==
    /\ pc = "value"
    /\ LET storesKey == field = KEY /\ key = Unset /\ Stored(cursor, KeySize) # Unset
           storesId  == field = KEY_ID /\ keyId = Unset /\ Stored(cursor, KeyIdSize) # Unset
       IN \/ /\ storesKey \/ storesId
             /\ key' = IF storesKey THEN Stored(cursor, KeySize) ELSE key
             /\ keyId' = IF storesId THEN Stored(cursor, KeyIdSize) ELSE keyId
             /\ Advance("separator", Skip(cursor + 1)) /\ UNCHANGED field
          \/ ~storesKey /\ ~storesId /\ Fail
    /\ UNCHANGED <<doc, format>>

\* What follows a field.
Separator ==
    /\ pc = "separator"
    /\ \/ At(cursor).kind = "," /\ Advance("name", cursor + 1) /\ UNCHANGED <<field, key, keyId>>
       \/ At(cursor).kind = "}" /\ Advance("finish", Skip(cursor + 1)) /\ UNCHANGED <<field, key, keyId>>
       \/ At(cursor).kind \notin {",", "}"} /\ Fail
    /\ UNCHANGED <<doc, format>>

\* A field as it is left: json_finish_key_fields trims it in place.
Trimmed(value) == IF value = Unset THEN Unset ELSE Trim(value)

\* A fault to detect: a key_id of nothing but whitespace counts as one.
FinishUntrimmed ==
    /\ pc = "finish"
    /\ IF At(cursor).kind = "NUL" /\ Trimmed(key) \notin {Unset, <<>>}
       THEN /\ key' = Trim(key) /\ hasKeyId' = (keyId \notin {Unset, <<>>})
            /\ status' = OK /\ pc' = "done" /\ UNCHANGED <<cursor, field, keyId>>
       ELSE Fail
    /\ UNCHANGED <<doc, format>>

\* Nothing may follow the object; then json_finish_key_fields.
Finish ==
    /\ pc = "finish"
    /\ IF At(cursor).kind = "NUL" /\ Trimmed(key) \notin {Unset, <<>>}
       THEN /\ key' = Trim(key) /\ keyId' = Trimmed(keyId)
            /\ hasKeyId' = (Trimmed(keyId) \notin {Unset, <<>>})
            /\ status' = OK /\ pc' = "done" /\ UNCHANGED <<cursor, field>>
       ELSE Fail
    /\ UNCHANGED <<doc, format>>

Next == \/ Dispatch \/ Open \/ Name \/ Value \/ Separator \/ Finish

DocSpec == Init /\ [][Next]_docVars

-----------------------------------------------------------------------------
(* The grammar, without a cursor.                                            *)

\* The lexemes that are not whitespace.
Solid(d) ==
    LET solid[i \in 0 .. Len(d)] ==
            IF i = 0 THEN <<>>
            ELSE IF d[i].kind \in Blank THEN solid[i - 1] ELSE Append(solid[i - 1], d[i])
    IN solid[Len(d)]

\* The n fields of an object of 4n + 1 lexemes: where name and value stand.
NameAt(s, i)  == s[4 * i - 2]
ValueAt(s, i) == s[4 * i]

IsString(x, size) == x.kind = "string" /\ Readable(x.raw, x.closed, size)
IsName(x, name) == IsString(x, FieldSize) /\ Meaning(x.raw) = name

IsKeyObject(d) ==
    \E s \in {Solid(d)}, n \in 1 .. 2 :
        /\ Len(s) = 4 * n + 1
        /\ s[1].kind = "{" /\ s[4 * n + 1].kind = "}"
        /\ \A i \in 1 .. n :
              /\ s[4 * i - 1].kind = ":"
              /\ \/ /\ IsName(NameAt(s, i), KEY) /\ IsString(ValueAt(s, i), KeySize)
                    /\ ~(ToSet(Meaning(ValueAt(s, i).raw)) \subseteq Blanks)
                 \/ IsName(NameAt(s, i), KEY_ID) /\ IsString(ValueAt(s, i), KeyIdSize)
        /\ n = 2 => /\ s[5].kind = ","
                    /\ Meaning(NameAt(s, 1).raw) # Meaning(NameAt(s, 2).raw)
        /\ \E i \in 1 .. n : IsName(NameAt(s, i), KEY)

\* The format decides on the reading, and nothing is read a second way.
ReadsAsObject(d, f) ==
    f = "json" \/ (f = "auto" /\ Solid(d) # <<>> /\ Solid(d)[1].kind = "{")

\* Base64 text is copied from its first solid byte on, terminator included.
IsKeyText(d) ==
    \E b \in {Spelling(d)} :
        \E i \in 1 .. Len(b) : /\ b[i] \notin Blanks /\ \A j \in 1 .. i - 1 : b[j] \in Blanks
                               /\ Len(b) - i + 1 < KeySize

Accepted(d, f) == IF ReadsAsObject(d, f) THEN IsKeyObject(d) ELSE IsKeyText(d)

FieldOf(d, name) ==
    LET s  == Solid(d)
        at == {i \in 1 .. 2 : 4 * i < Len(s) /\ Meaning(NameAt(s, i).raw) = name}
    IN IF at = {} THEN Unset ELSE Meaning(ValueAt(s, CHOOSE i \in at : TRUE).raw)

\* The key_id a document names: the text of its field without the blanks
\* around it, if anything is left.
NamedBy(d) ==
    IF FieldOf(d, KEY_ID) = Unset THEN Unset
    ELSE IF Trim(FieldOf(d, KEY_ID)) = <<>> THEN Unset ELSE Trim(FieldOf(d, KEY_ID))

-----------------------------------------------------------------------------
(* Properties.                                                               *)

\* Every variable has its type; the cursor never runs past the NUL, and
\* nothing is stored that leaves no room for its terminator.
TypeOK ==
    /\ pc \in {"dispatch", "open", "name", "value", "separator", "finish", "done"}
    /\ format \in Formats /\ \A i \in 1 .. Len(doc) : IsLexeme(doc[i])
    /\ cursor \in 1 .. Len(doc) + 1
    /\ \A stored \in {<<field, FieldSize>>, <<key, KeySize>>, <<keyId, KeyIdSize>>} :
          stored[1] # Unset => stored[1] \in Seq(Byte) /\ Len(stored[1]) < stored[2]
    /\ hasKeyId \in BOOLEAN /\ status \in {OK, ERR_INPUT}

\* Exactly the documents of the grammar are accepted, in the reading the
\* format names: no field twice, none unknown, no comma too many, no escape
\* unknown, no control byte, no text too long, nothing behind the object, and
\* no JSON object that fails is tried as base64.
AcceptsTheGrammar == pc = "done" => (status = OK <=> Accepted(doc, format))

\* What is accepted is read as it was written, whatever the order of the
\* fields and whatever is escaped, and a key_id that trims to nothing is no
\* key_id.
FieldsAsWritten ==
    pc = "done" /\ status = OK =>
        IF ReadsAsObject(doc, format)
        THEN /\ key = Trim(FieldOf(doc, KEY))
             /\ hasKeyId <=> NamedBy(doc) # Unset
             /\ hasKeyId => keyId = NamedBy(doc)
        ELSE key = Trim(Spelling(doc)) /\ ~hasKeyId

\* A rejected document never lends its key_id to the output, at whatever
\* field it fails.
RejectedNamesNobody == hasKeyId => pc = "done" /\ status = OK

\* README.md:178: a JSON key object is "strict RFC 8259", whose whitespace is
\* space, tab, line feed and carriage return.
StrictWhitespace ==
    pc = "done" /\ status = OK /\ ReadsAsObject(doc, format) =>
        \A i \in 1 .. Len(doc) : doc[i].kind # "vtab"
=============================================================================
