----------------------------- MODULE ArgsProofs -----------------------------
(***************************************************************************)
(* Proofs about Args, for all argument vectors of any length.              *)
(***************************************************************************)
EXTENDS Args, Induction, FiniteSetTheorems

Letters == Valued \cup Flags \cup {"?"}

\* A word's fields have their types, and only its last letter takes a value.
LEMMA WordFields ==
    ASSUME NEW w \in WordType
    PROVE  /\ w.text \in Texts /\ w.long \in BOOLEAN
           /\ w.value \in Texts \cup {Absent}
           /\ w.letters \in Seq(Letters) /\ Len(w.letters) \in Nat
           /\ \A i \in 1 .. Len(w.letters) : w.letters[i] \in Letters
           /\ \A i \in 1 .. Len(w.letters) - 1 : w.letters[i] \notin Valued
           /\ w.long => Len(w.letters) = 1
<1>1. /\ w \in [text : Texts, letters : Seq(Letters), long : BOOLEAN, value : Texts \cup {Absent}]
      /\ \A i \in 1 .. Len(w.letters) - 1 : w.letters[i] \notin Valued
      /\ w.long => Len(w.letters) = 1
  BY DEF WordType, Letters
<1>2. w.letters \in Seq(Letters)
  BY <1>1
<1> QED
  BY <1>1, <1>2

\* No word in hand is a word without letters.
LEMMA NoWordType == NoWord \in WordType
<1>1. <<>> \in Seq(Letters) /\ Len(<<>>) = 0
  OBVIOUS
<1>2. NoWord \in [text : Texts, letters : Seq(Letters), long : BOOLEAN,
                  value : Texts \cup {Absent}]
  BY <1>1 DEF NoWord, Texts
<1>3. NoWord.letters = <<>> /\ NoWord.long = FALSE
  BY DEF NoWord
<1> QED
  BY <1>1, <1>2, <1>3 DEF WordType, Letters

\* A string that is not there is none of the texts.
LEMMA AbsentIsNoText == Absent \notin Texts
  BY DEF Absent, Texts, Modes, Formats

-----------------------------------------------------------------------------
(* The roles of the words.                                                   *)

Role == {"start", "option", "value", "operand", "end", "after"}

\* What the word at i is, by what the word before it is.
RoleAfter(a, i, before) ==
    IF before \in {"end", "after"} THEN "after"
    ELSE IF before = "option" /\ TakesNext(a[i - 1]) THEN "value"
    ELSE IF a[i].letters # <<>> THEN "option"
    ELSE IF a[i].text = "--" THEN "end" ELSE "operand"

\* The roles are the ones the recursion of Roles describes.
LEMMA RolesUnfold ==
    ASSUME NEW a \in Seq(WordType)
    PROVE  /\ Roles(a) \in [0 .. Len(a) -> Role]
           /\ Roles(a)[0] = "start"
           /\ \A i \in 1 .. Len(a) : Roles(a)[i] = RoleAfter(a, i, Roles(a)[i - 1])
<1> DEFINE step == [i \in 1 .. Len(a) |-> [q \in Role |-> RoleAfter(a, i, q)]]
<1>1. Len(a) \in Nat
  OBVIOUS
<1>2. \A i \in 1 .. Len(a), q \in Role : RoleAfter(a, i, q) \in Role
  BY DEF RoleAfter, Role
<1>3. step \in [1 .. Len(a) -> [Role -> Role]]
  BY <1>2
<1>4. "start" \in Role
  BY DEF Role
<1>5. PICK f \in [0 .. Len(a) -> Role] : /\ f[0] = "start"
                                         /\ \A i \in 1 .. Len(a) : f[i] = step[i][f[i - 1]]
  <2>1. Iterates(Role, "start", Len(a), step) # {}
    <3> HIDE DEF step
    <3> QED
      BY <1>1, <1>3, <1>4, PrimitiveRecursion
  <2> QED
    BY <2>1 DEF Iterates
<1>6. \A i \in 1 .. Len(a) : f[i - 1] \in Role
  BY <1>1
<1>7. \A i \in 1 .. Len(a) : f[i] = RoleAfter(a, i, f[i - 1])
  BY <1>5, <1>6
<1> DEFINE body(g) == [i \in 0 .. Len(a) |-> IF i = 0 THEN "start" ELSE RoleAfter(a, i, g[i - 1])]
<1>8. f = body(f)
  <2>1. \A i \in 0 .. Len(a) : f[i] = IF i = 0 THEN "start" ELSE RoleAfter(a, i, f[i - 1])
    BY <1>1, <1>5, <1>7
  <2>2. f = [i \in 0 .. Len(a) |-> f[i]]
    OBVIOUS
  <2> QED
    BY <2>1, <2>2
<1>9. Roles(a) = CHOOSE g : g = body(g)
  BY DEF Roles, RoleAfter
<1>10. Roles(a) = body(Roles(a))
  <2> HIDE DEF body
  <2> QED
    BY <1>8, <1>9
<1>11. \A i \in 1 .. Len(a) : Roles(a)[i] = RoleAfter(a, i, Roles(a)[i - 1])
  BY <1>1, <1>10
<1>12. Roles(a)[0] = "start"
  BY <1>1, <1>10
<1> DEFINE T == {i \in 0 .. Len(a) : Roles(a)[i] \in Role}
<1>13. 0 \in T
  BY <1>1, <1>4, <1>12
<1>14. \A i \in 0 .. Len(a) - 1 : i \in T => i + 1 \in T
  <2> SUFFICES ASSUME NEW i \in 0 .. Len(a) - 1, i \in T PROVE i + 1 \in T
    OBVIOUS
  <2>1. i + 1 \in 1 .. Len(a) /\ (i + 1) - 1 = i
    BY <1>1
  <2>2. Roles(a)[i + 1] = RoleAfter(a, i + 1, Roles(a)[i])
    BY <1>11, <2>1
  <2>3. Roles(a)[i + 1] \in Role
    BY <1>2, <2>1, <2>2
  <2> QED
    BY <1>1, <2>1, <2>3
<1>15. \A i \in 0 .. Len(a) : i \in T
  <2> HIDE DEF T
  <2> QED
    BY <1>1, <1>13, <1>14, BoundedInduction
<1>16. Roles(a) \in [0 .. Len(a) -> Role]
  <2>1. Roles(a) = [i \in 0 .. Len(a) |-> Roles(a)[i]]
    BY <1>10
  <2> QED
    BY <1>15, <2>1
<1> QED
  BY <1>11, <1>12, <1>16

-----------------------------------------------------------------------------
(* The inductive invariant: what has been read is read as it was written.    *)

\* The word behind position i begins afresh: it is no value and options have
\* not ended.
Fresh(i) == /\ Roles(argv)[i] \notin {"end", "after"}
            /\ ~(Roles(argv)[i] = "option" /\ TakesNext(argv[i]))

\* Letters of the word in hand that have been handled.
Past == Len(inHand.letters) - Len(nextchar)

\* Letter j of option i has been handled.
Handled(i, j) == /\ i < optind
                 /\ nextchar # <<>> /\ i = optind - 1 => j <= Past

HandledWhole(i) == Handled(i, Len(argv[i].letters))

\* getopt stands between two words, or in one that is an option.
PositionOK ==
    /\ optind \in 1 .. Len(argv) + 1
    /\ nextchar = <<>> => optind = Len(argv) + 1 \/ Fresh(optind - 1)
    /\ nextchar # <<>> =>
          /\ optind > 1 /\ inHand = argv[optind - 1] /\ Roles(argv)[optind - 1] = "option"
          /\ Past >= 0
          /\ \A j \in 1 .. Len(nextchar) : nextchar[j] = inHand.letters[Past + j]

\* What WellFormed asks of letter j of option i.
LetterRight(a, i, j) ==
    /\ a[i].letters[j] # "?"
    /\ j = Len(a[i].letters) =>
          /\ LastOf(a[i]) \in Flags /\ a[i].long => a[i].value = Absent
          /\ LastOf(a[i]) \in Valued => HasValue(a, i)
          /\ LastOf(a[i]) = "o" => ValueAt(a, i) \in Modes
          /\ LastOf(a[i]) = "f" => ValueAt(a, i) \in Formats

LettersRight ==
    \A i \in OptionsOf(argv) : \A j \in 1 .. Len(argv[i].letters) :
        Handled(i, j) => LetterRight(argv, i, j)

FlagsRight ==
    flags = {l \in Flags : \E i \in OptionsOf(argv) : \E j \in 1 .. Len(argv[i].letters) :
                               Handled(i, j) /\ argv[i].letters[j] = l}

\* The options with letter l that have been handled, and what a field holds.
SetAt(l) == {i \in OptionsOf(argv) : LastOf(argv[i]) = l /\ HandledWhole(i)}

LastSetting(a, set, v, default) ==
    \/ set = {} /\ v = default
    \/ \E i \in set : v = ValueAt(a, i) /\ \A k \in set : k <= i

FieldRight(l, v, default) == LastSetting(argv, SetAt(l), v, default)

FieldsRight == /\ FieldRight("k", key, Absent) /\ FieldRight("i", keyId, Absent)
               /\ FieldRight("o", mode, "text") /\ FieldRight("f", format, "auto")

OperandsRead == {i \in OperandsOf(argv) : i < optind}

OperandsRight ==
    \/ operands = <<>> /\ OperandsRead = {}
    \/ /\ operands # <<>>
       /\ \E i \in OperandsRead : /\ operands[1] = argv[i]
                                  /\ \A k \in OperandsRead : i <= k
                                  /\ Len(operands) = 1 <=> OperandsRead = {i}

Untouched == status = ERR_INPUT /\ stdout = {} /\ stderr = {}

ScanOK == /\ PositionOK /\ LettersRight /\ FlagsRight /\ FieldsRight /\ OperandsRight
          /\ Untouched

\* The usage follows when nothing but the options' and operands' number was wrong.
UsageOK == /\ flags = {} /\ stdout = {} /\ status = ERR_INPUT /\ "diagnostic" \in stderr
           /\ ~AsksToSeal(argv) /\ WellFormed(argv) /\ FlagsOf(argv) = {}

ExplainOK == /\ flags # {} /\ stdout = {} /\ status \in {ERR_INPUT, ERR_IO}
             /\ status = ERR_INPUT => "diagnostic" \in stderr /\ ~WellFormed(argv)

Promises == DecidedByArgv /\ ReadAsWritten /\ HelpOnlyWhenWellFormed /\ RefusalExplained

ArgsInv == /\ TypeOK
           /\ pc = "scan" => ScanOK
           /\ pc = "usage" => UsageOK
           /\ pc = "explain" => ExplainOK
           /\ Promises

-----------------------------------------------------------------------------
(* Types.                                                                    *)

\* The parse keeps the types of its variables.
LEMMA ArgsType == ASSUME TypeOK, [Next]_argsVars PROVE TypeOK'
<1> USE DEF Letters
<1>1. CASE FirstCall \/ LaterCall
  <2>1. ASSUME NEW a \in Argvs \cup Later, Enter(a) PROVE TypeOK'
    <3>1. a \in Seq(WordType)
      BY ArgsAssumption
    <3>2. 1 \in 1 .. Len(a) + 1
      BY <3>1
    <3>3. NoWord \in WordType
      BY NoWordType
    <3>4. /\ argv' \in Seq(WordType) /\ operands' \in Seq(WordType) /\ nextchar' \in Seq(Letters)
          /\ inHand' \in WordType /\ optind' \in 1 .. Len(argv') + 1
      <4>1. optind' = 1 /\ argv' = a /\ operands' = <<>> /\ nextchar' = <<>> /\ inHand' = NoWord
        BY <2>1 DEF Enter, ResetGetopt
      <4>2. <<>> \in Seq(WordType) /\ <<>> \in Seq(Letters)
        OBVIOUS
      <4> QED
        BY <3>1, <3>2, <3>3, <4>1, <4>2
    <3>5. /\ key' = Absent /\ keyId' = Absent /\ mode' \in Modes /\ format' \in Formats
          /\ flags' \subseteq Flags /\ plaintext' = Absent
      BY <2>1 DEF Enter, Modes, Formats
    <3>6. /\ pc' = "scan" /\ status' \in Status /\ error' \in BOOLEAN
          /\ stdout' = {} /\ stderr' = {}
      BY <2>1 DEF Enter, Status
    <3> QED
      BY <3>4, <3>5, <3>6 DEF TypeOK
  <2> QED
    BY <1>1, <2>1 DEF FirstCall, LaterCall
<1>2. CASE NextWord
  <2>1. argv[optind] \in WordType /\ optind \in Nat /\ Len(argv) \in Nat
    BY <1>2 DEF NextWord, TypeOK
  <2>2. argv[optind].letters \in Seq(Letters)
    BY <2>1, WordFields
  <2>3. Append(operands, argv[optind]) \in Seq(WordType)
    BY <2>1 DEF TypeOK
  <2>4. operands \o SubSeq(argv, optind + 1, Len(argv)) \in Seq(WordType)
    BY <2>1 DEF TypeOK
  <2>5. /\ operands' \in Seq(WordType) /\ nextchar' \in Seq(Letters) /\ inHand' \in WordType
        /\ optind' \in 1 .. Len(argv) + 1
    <3>1. optind + 1 \in 1 .. Len(argv) + 1 /\ Len(argv) + 1 \in 1 .. Len(argv) + 1
      BY <1>2, <2>1 DEF NextWord, TypeOK
    <3>2. operands \in Seq(WordType) /\ nextchar \in Seq(Letters) /\ inHand \in WordType
      BY DEF TypeOK
    <3> QED
      BY <1>2, <2>1, <2>2, <2>3, <2>4, <3>1, <3>2 DEF NextWord
  <2> QED
    BY <1>2, <2>5 DEF NextWord, TypeOK, options, streams
<1>3. CASE Option
  <2>1. /\ Tail(nextchar) \in Seq(Letters) /\ optind \in 1 .. Len(argv) + 1 /\ Len(argv) \in Nat
    BY <1>3 DEF Option, TypeOK
  <2>2. inHand.value \in Texts \cup {Absent}
    BY WordFields DEF TypeOK
  <2>3. optind <= Len(argv) => argv[optind].text \in Texts
    BY <2>1, WordFields DEF TypeOK
  <2>4. ASSUME RejectOption
        PROVE  TypeOK'
    BY <1>3, <2>1, <2>4 DEF Option, RejectOption, Report, Return, options, TypeOK, Status,
       ERR_INPUT, ERR_IO, OK
  <2>5. ASSUME NEW l \in Valued, NEW v \in Texts, HandleValued(l, v), ~RejectOption,
               optind' \in 1 .. Len(argv) + 1
        PROVE  TypeOK'
    <3>1. Store(l, v) /\ (l = "o" => v \in Modes) /\ (l = "f" => v \in Formats)
      BY <2>5 DEF HandleValued
    <3> QED
      BY <1>3, <2>1, <2>5, <3>1 DEF Option, Store, streams, TypeOK, Valued
  <2>6. ASSUME NEW l \in Flags, HandleFlag(l), optind' = optind
        PROVE  TypeOK'
    BY <1>3, <2>1, <2>6 DEF Option, HandleFlag, streams, TypeOK
  <2>7. optind <= Len(argv) => optind + 1 \in 1 .. Len(argv) + 1
    BY <2>1
  <2> QED
    BY <1>3, <2>1, <2>2, <2>3, <2>4, <2>5, <2>6, <2>7 DEF Option
<1>4. CASE Check
  <2>1. FirstOperand \in Texts \cup {Absent}
    <3>1. CASE Len(operands) = 0
      BY <3>1 DEF FirstOperand
    <3>2. CASE Len(operands) # 0
      <4>1. operands[1] \in WordType
        BY <3>2 DEF TypeOK
      <4> QED
        BY <3>2, <4>1, WordFields DEF FirstOperand
    <3> QED
      BY <3>1, <3>2
  <2>2. plaintext' \in Texts \cup {Absent}
    BY <1>4, <2>1 DEF Check
  <2>3. /\ pc' \in {"usage", "explain", "done"} /\ status' \in Status /\ error' \in BOOLEAN
        /\ stdout' \in SUBSET {"usage", "version"}
        /\ stderr' \in SUBSET {"diagnostic", "usage", "blank"}
    BY <1>4 DEF Check, Show, ReportUsage, Report, Return, streams, TypeOK, Status, OK,
                ERR_INPUT, ERR_IO
  <2> QED
    BY <1>4, <2>2, <2>3 DEF Check, getopt, options, TypeOK
<1>5. CASE Usage
  BY <1>5 DEF Usage, Return, getopt, options, TypeOK, Status, OK, ERR_INPUT, ERR_IO
<1>6. CASE Explain
  BY <1>6 DEF Explain, getopt, options, TypeOK
<1>7. CASE UNCHANGED argsVars
  BY <1>7 DEF argsVars, getopt, options, streams, TypeOK
<1> QED
  BY <1>1, <1>2, <1>3, <1>4, <1>5, <1>6, <1>7 DEF Next

-----------------------------------------------------------------------------
(* What follows from the roles.                                              *)

\* An option has a letter, and its last one is a letter of an option.
LEMMA OptionWord ==
    ASSUME NEW a \in Seq(WordType), NEW i \in OptionsOf(a)
    PROVE  /\ i \in 1 .. Len(a) /\ a[i] \in WordType
           /\ Len(a[i].letters) \in Nat \ {0} /\ LastOf(a[i]) \in Letters
<1>1. i \in 1 .. Len(a) /\ Roles(a)[i] = "option" /\ a[i] \in WordType
  BY DEF OptionsOf
<1>2. Roles(a)[i] = RoleAfter(a, i, Roles(a)[i - 1])
  BY <1>1, RolesUnfold
<1>3. a[i].letters # <<>>
  BY <1>1, <1>2 DEF RoleAfter
<1>4. a[i].letters \in Seq(Letters)
  BY <1>1, WordFields
<1>5. Len(a[i].letters) \in Nat \ {0}
  BY <1>3, <1>4
<1>6. LastOf(a[i]) \in Letters
  BY <1>4, <1>5 DEF LastOf
<1> QED
  BY <1>1, <1>5, <1>6

\* A word behind a fresh position is what it looks like.
LEMMA FreshWord ==
    ASSUME argv \in Seq(WordType), NEW i \in 1 .. Len(argv), Fresh(i - 1)
    PROVE  Roles(argv)[i] = IF argv[i].letters # <<>> THEN "option"
                            ELSE IF argv[i].text = "--" THEN "end" ELSE "operand"
<1>1. Roles(argv)[i] = RoleAfter(argv, i, Roles(argv)[i - 1])
  BY RolesUnfold
<1> QED
  BY <1>1 DEF Fresh, RoleAfter

\* A word an option takes is its value.
LEMMA ValueWord ==
    ASSUME NEW a \in Seq(WordType), NEW i \in 1 .. Len(a), i - 1 \in OptionsOf(a),
           TakesNext(a[i - 1])
    PROVE  Roles(a)[i] = "value"
<1>1. Roles(a)[i] = RoleAfter(a, i, Roles(a)[i - 1])
  BY RolesUnfold
<1>2. Roles(a)[i - 1] = "option"
  BY DEF OptionsOf
<1> QED
  BY <1>1, <1>2 DEF RoleAfter

\* Behind the word that ends the options there are operands only.
LEMMA AfterEnd ==
    ASSUME NEW a \in Seq(WordType), NEW e \in 1 .. Len(a), Roles(a)[e] = "end"
    PROVE  \A i \in e + 1 .. Len(a) : Roles(a)[i] = "after"
<1> DEFINE T == {i \in 0 .. Len(a) - e : Roles(a)[e + i] \in {"end", "after"}
                                        /\ (i > 0 => Roles(a)[e + i] = "after")}
<1>1. Len(a) - e \in Nat /\ e \in Nat
  OBVIOUS
<1>2. 0 \in T
  BY <1>1
<1>3. \A i \in 0 .. Len(a) - e - 1 : i \in T => i + 1 \in T
  <2> SUFFICES ASSUME NEW i \in 0 .. Len(a) - e - 1, i \in T PROVE i + 1 \in T
    OBVIOUS
  <2>1. e + i + 1 \in 1 .. Len(a) /\ (e + i + 1) - 1 = e + i /\ e + (i + 1) = e + i + 1
    BY <1>1
  <2>2. Roles(a)[e + i + 1] = RoleAfter(a, e + i + 1, Roles(a)[e + i])
    BY <2>1, RolesUnfold
  <2>3. Roles(a)[e + i + 1] = "after"
    BY <2>2 DEF RoleAfter
  <2> QED
    BY <1>1, <2>1, <2>3
<1>4. \A i \in 0 .. Len(a) - e : i \in T
  <2> HIDE DEF T
  <2> QED
    BY <1>1, <1>2, <1>3, BoundedInduction
<1> SUFFICES ASSUME NEW i \in e + 1 .. Len(a) PROVE Roles(a)[i] = "after"
  OBVIOUS
<1>5. i - e \in T /\ i - e > 0 /\ e + (i - e) = i
  BY <1>1, <1>4
<1> QED
  BY <1>5

-----------------------------------------------------------------------------
(* Moving on to the next word.                                               *)

\* Where no letter is newly handled, what is right about letters stays right.
LEMMA SameHandled ==
    ASSUME LettersRight, FlagsRight, FieldsRight, argv \in Seq(WordType),
           UNCHANGED <<argv, options>>,
           \A i \in OptionsOf(argv) : \A j \in 1 .. Len(argv[i].letters) :
               Handled(i, j)' <=> Handled(i, j)
    PROVE  LettersRight' /\ FlagsRight' /\ FieldsRight'
<1>1. \A i \in OptionsOf(argv) : HandledWhole(i)' <=> HandledWhole(i)
  BY OptionWord DEF HandledWhole
<1>2. \A l : SetAt(l)' = SetAt(l)
  BY <1>1 DEF SetAt
<1>3. FieldsRight'
  BY <1>2 DEF FieldsRight, FieldRight, options
<1>4. LettersRight'
  BY DEF LettersRight
<1>5. FlagsRight'
  BY DEF FlagsRight, options
<1> QED
  BY <1>3, <1>4, <1>5

\* The empty sequence is the one of no length.
LEMMA EmptyWhenZero == \A S : \A s \in Seq(S) : s = <<>> <=> Len(s) = 0
  OBVIOUS

\* An interval is what lies between its ends.
LEMMA Between == \A i, a, b \in Int : i >= a /\ i < b => i \in a .. b - 1
  OBVIOUS

\* Moving on to the next word keeps what has been read.
LEMMA NextWordScan == ASSUME TypeOK, ScanOK, NextWord PROVE ScanOK'
<1>1. /\ argv \in Seq(WordType) /\ Len(argv) \in Nat /\ optind \in 1 .. Len(argv)
      /\ nextchar = <<>> /\ argv' = argv /\ operands \in Seq(WordType)
      /\ UNCHANGED <<argv, options, status, stdout, stderr>>
  BY DEF TypeOK, NextWord, streams
<1>2. Fresh(optind - 1)
  BY <1>1 DEF ScanOK, PositionOK
<1> DEFINE w == argv[optind]
<1>3. w \in WordType /\ w.letters \in Seq(Letters)
  BY <1>1, WordFields
<1>4. Roles(argv)[optind] = IF w.letters # <<>> THEN "option"
                            ELSE IF w.text = "--" THEN "end" ELSE "operand"
  BY <1>1, <1>2, FreshWord
<1>5. Untouched'
  BY <1>1 DEF ScanOK, Untouched
<1>6. LettersRight /\ FlagsRight /\ FieldsRight
  BY DEF ScanOK
<1>7. ASSUME w.letters # <<>>, nextchar' = w.letters, inHand' = w, optind' = optind + 1,
             operands' = operands
      PROVE  ScanOK'
  <2>1. optind \in OptionsOf(argv) /\ optind \notin OperandsOf(argv)
    BY <1>1, <1>4, <1>7 DEF OptionsOf, OperandsOf
  <2>2. Past' = 0
    BY <1>3, <1>7 DEF Past
  <2>3. \A i \in OptionsOf(argv) : \A j \in 1 .. Len(argv[i].letters) :
            Handled(i, j)' <=> Handled(i, j)
    <3> SUFFICES ASSUME NEW i \in OptionsOf(argv), NEW j \in 1 .. Len(argv[i].letters)
                 PROVE  Handled(i, j)' <=> Handled(i, j)
      OBVIOUS
    <3>1. i \in Nat /\ j \in Nat /\ j > 0
      BY <1>1 DEF OptionsOf
    <3>2. Handled(i, j) <=> i < optind
      BY <1>1 DEF Handled
    <3>3. Handled(i, j)' <=> i < optind + 1 /\ (i = optind => j <= 0)
      BY <1>1, <1>7, <2>2 DEF Handled
    <3> QED
      BY <1>1, <3>1, <3>2, <3>3
  <2>4. LettersRight' /\ FlagsRight' /\ FieldsRight'
    BY <1>1, <1>6, <2>3, SameHandled
  <2>5. OperandsRead' = OperandsRead
    BY <1>1, <1>7, <2>1 DEF OperandsRead, OperandsOf
  <2>6. OperandsRight'
    BY <1>1, <1>7, <2>5 DEF ScanOK, OperandsRight
  <2>7. PositionOK'
    BY <1>1, <1>3, <1>4, <1>7, <2>2 DEF PositionOK
  <2> QED
    BY <1>5, <2>4, <2>6, <2>7 DEF ScanOK
<1>8. ASSUME w.letters = <<>>, UNCHANGED <<nextchar, inHand>>, optind' > optind,
             optind' \in 1 .. Len(argv) + 1,
             \A i \in optind .. optind' - 1 : i \notin OptionsOf(argv)
      PROVE  LettersRight' /\ FlagsRight' /\ FieldsRight'
  <2>1. \A i \in OptionsOf(argv) : \A j \in 1 .. Len(argv[i].letters) :
            Handled(i, j)' <=> Handled(i, j)
    <3> SUFFICES ASSUME NEW i \in OptionsOf(argv), NEW j \in 1 .. Len(argv[i].letters)
                 PROVE  Handled(i, j)' <=> Handled(i, j)
      OBVIOUS
    <3>1. i \in 1 .. Len(argv)
      BY DEF OptionsOf
    <3>2. i >= optind => ~(i < optind')
      <4> SUFFICES ASSUME i >= optind, i < optind' PROVE FALSE
        OBVIOUS
      <4>1. i \in Int /\ optind \in Int /\ optind' \in Int
        BY <1>1, <1>8, <3>1
      <4>2. i \in optind .. optind' - 1
        BY <4>1, Between
      <4> QED
        BY <1>8, <4>2
    <3>3. i < optind' <=> i < optind
      BY <1>1, <1>8, <3>1, <3>2
    <3> QED
      BY <1>1, <1>8, <3>3 DEF Handled
  <2> QED
    BY <1>1, <1>6, <2>1, SameHandled
<1>9. ASSUME w.letters = <<>>, w.text # "--", UNCHANGED <<nextchar, inHand>>,
             operands' = Append(operands, w), optind' = optind + 1
      PROVE  ScanOK'
  <2>1. Roles(argv)[optind] = "operand" /\ optind \notin OptionsOf(argv)
    BY <1>1, <1>4, <1>9 DEF OptionsOf
  <2>2. LettersRight' /\ FlagsRight' /\ FieldsRight'
    BY <1>1, <1>8, <1>9, <2>1
  <2>3. OperandsRead' = OperandsRead \cup {optind} /\ \A k \in OperandsRead : k < optind
    BY <1>1, <1>9, <2>1 DEF OperandsRead, OperandsOf
  <2>4. OperandsRight'
    <3>1. CASE operands = <<>>
      <4>1. OperandsRead = {}
        BY <3>1 DEF ScanOK, OperandsRight
      <4>2. operands' # <<>> /\ operands'[1] = argv[optind] /\ Len(operands') = 1
        BY <1>1, <1>3, <1>9, <3>1
      <4>3. OperandsRead' = {optind}
        BY <2>3, <4>1
      <4> QED
        BY <1>1, <4>2, <4>3 DEF OperandsRight
    <3>2. CASE operands # <<>>
      <4>1. PICK i \in OperandsRead : operands[1] = argv[i] /\ \A k \in OperandsRead : i <= k
        BY <3>2 DEF ScanOK, OperandsRight
      <4>2. operands' # <<>> /\ operands'[1] = argv[i] /\ Len(operands') > 1
        BY <1>1, <1>3, <1>9, <3>2, <4>1
      <4>3. i \in OperandsRead' /\ optind \in OperandsRead' /\ i < optind
        BY <2>3, <4>1
      <4>4. \A k \in OperandsRead' : i <= k
        <5>1. i \in Int /\ optind \in Int
          BY <1>1 DEF OperandsRead, OperandsOf
        <5> QED
          BY <2>3, <4>1, <4>3, <5>1
      <4>5. Len(operands') # 1 /\ OperandsRead' # {i}
        BY <1>1, <4>2, <4>3
      <4> QED
        BY <1>1, <4>2, <4>3, <4>4, <4>5 DEF OperandsRight
    <3> QED
      BY <3>1, <3>2
  <2>5. PositionOK'
    BY <1>1, <1>9, <2>1 DEF PositionOK, Fresh
  <2> QED
    BY <1>5, <2>2, <2>4, <2>5 DEF ScanOK

<1>10. ASSUME w.letters = <<>>, w.text = "--", UNCHANGED <<nextchar, inHand>>,
              operands' = operands \o SubSeq(argv, optind + 1, Len(argv)),
              optind' = Len(argv) + 1
       PROVE  ScanOK'
  <2> DEFINE rest == SubSeq(argv, optind + 1, Len(argv))
             behind == optind + 1 .. Len(argv)
  <2>1. Roles(argv)[optind] = "end"
    BY <1>1, <1>4, <1>10
  <2>2. \A i \in behind : Roles(argv)[i] = "after"
    BY <1>1, <2>1, AfterEnd
  <2>3. \A i \in optind .. optind' - 1 : i \notin OptionsOf(argv)
    BY <1>1, <1>10, <2>1, <2>2 DEF OptionsOf
  <2>4. LettersRight' /\ FlagsRight' /\ FieldsRight'
    BY <1>1, <1>8, <1>10, <2>3
  <2>5. OperandsRead' = OperandsRead \cup behind /\ \A k \in OperandsRead : k < optind
    BY <1>1, <1>10, <2>1, <2>2 DEF OperandsRead, OperandsOf
  <2>6. /\ rest \in Seq(WordType) /\ Len(rest) = Len(argv) - optind
        /\ Len(rest) > 0 => rest[1] = argv[optind + 1]
    BY <1>1
  <2>7. /\ operands' \in Seq(WordType) /\ Len(operands') = Len(operands) + Len(rest)
        /\ \A j \in 1 .. Len(operands) : operands'[j] = operands[j]
        /\ operands = <<>> => operands' = rest
    <3>1. operands \in Seq(WordType) /\ rest \in Seq(WordType) /\ operands' = operands \o rest
      BY <1>1, <1>10, <2>6
    <3> HIDE DEF rest
    <3> QED
      BY <3>1
  <2> HIDE DEF rest
  <2>8. OperandsRight'
    <3>1. CASE operands = <<>>
      <4>1. OperandsRead' = behind
        BY <3>1, <2>5 DEF ScanOK, OperandsRight
      <4>2. operands' = rest
        BY <3>1, <2>7
      <4>3. CASE optind = Len(argv)
        <5>1. behind = {} /\ rest = <<>>
          BY <1>1, <2>6, <4>3
        <5> QED
          BY <4>1, <4>2, <5>1 DEF OperandsRight
      <4>4. CASE optind < Len(argv)
        <5>1. optind + 1 \in behind /\ \A k \in behind : optind + 1 <= k
          BY <1>1, <4>4
        <5>2. rest # <<>> /\ rest[1] = argv[optind + 1]
          BY <1>1, <2>6, <4>4
        <5>3. Len(rest) = 1 <=> behind = {optind + 1}
          <6>1. CASE Len(argv) = optind + 1
            <7>1. behind = {optind + 1}
              BY <1>1, <6>1
            <7> QED
              BY <1>1, <2>6, <6>1, <7>1
          <6>2. CASE Len(argv) > optind + 1
            <7>1. optind + 2 \in behind /\ optind + 2 # optind + 1
              BY <1>1, <6>2
            <7>2. Len(rest) # 1
              BY <1>1, <2>6, <6>2
            <7> QED
              BY <7>1, <7>2
          <6> QED
            BY <1>1, <4>4, <6>1, <6>2
        <5> HIDE DEF behind
        <5>4. \E i \in OperandsRead' : /\ operands'[1] = argv[i]
                                       /\ \A k \in OperandsRead' : i <= k
                                       /\ Len(operands') = 1 <=> OperandsRead' = {i}
          BY <4>1, <4>2, <5>1, <5>2, <5>3
        <5> QED
          BY <1>1, <4>2, <5>2, <5>4 DEF OperandsRight
      <4> QED
        BY <1>1, <4>3, <4>4
    <3>2. CASE operands # <<>>
      <4>1. PICK i \in OperandsRead : /\ operands[1] = argv[i]
                                      /\ \A k \in OperandsRead : i <= k
                                      /\ Len(operands) = 1 <=> OperandsRead = {i}
        BY <3>2 DEF ScanOK, OperandsRight
      <4>2. Len(operands) \in Nat /\ Len(operands) >= 1
        BY <1>1, <3>2
      <4>3. operands' # <<>> /\ operands'[1] = argv[i]
        <5>1. 1 \in 1 .. Len(operands) /\ Len(rest) \in Nat
          BY <1>1, <2>6, <4>2
        <5> QED
          BY <2>7, <4>1, <4>2, <5>1
      <4>4. i \in OperandsRead' /\ \A k \in OperandsRead' : i <= k
        <5>1. i \in Int /\ i < optind
          BY <2>5, <4>1 DEF OperandsRead, OperandsOf
        <5> QED
          BY <1>1, <2>5, <4>1, <5>1
      <4>5. Len(operands') = 1 <=> OperandsRead' = {i}
        <5>1. CASE optind = Len(argv)
          <6>1. behind = {} /\ Len(rest) = 0
            BY <1>1, <2>6, <5>1
          <6> QED
            BY <2>5, <2>7, <4>1, <4>2, <6>1
        <5>2. CASE optind < Len(argv)
          <6>1. optind + 1 \in behind /\ Len(rest) > 0 /\ Len(rest) \in Nat
            BY <1>1, <2>6, <5>2
          <6>2. Len(operands') > 1
            BY <2>7, <4>2, <6>1
          <6>3. optind + 1 \in OperandsRead' /\ i < optind
            BY <2>5, <4>1, <6>1
          <6>4. optind + 1 # i
            BY <1>1, <6>3
          <6>5. Len(operands') # 1
            BY <2>6, <2>7, <4>2, <6>2
          <6> QED
            BY <6>3, <6>4, <6>5
        <5> QED
          BY <1>1, <5>1, <5>2
      <4> QED
        BY <1>1, <4>3, <4>4, <4>5 DEF OperandsRight
    <3> QED
      BY <3>1, <3>2
  <2>9. PositionOK'
    BY <1>1, <1>10 DEF PositionOK
  <2> QED
    BY <1>5, <2>4, <2>8, <2>9 DEF ScanOK
<1> QED
  BY <1>7, <1>9, <1>10 DEF NextWord

-----------------------------------------------------------------------------
(* An option.                                                                *)

\* The letter in hand is a letter of the option before optind; what takes a
\* value is the last letter of its word.
LEMMA LetterInHand ==
    ASSUME TypeOK, PositionOK, nextchar # <<>>
    PROVE  /\ optind - 1 \in OptionsOf(argv) /\ inHand = argv[optind - 1]
           /\ inHand \in WordType
           /\ Past + 1 \in 1 .. Len(inHand.letters) /\ Past \in Nat
           /\ Head(nextchar) = inHand.letters[Past + 1] /\ Head(nextchar) \in Letters
           /\ Head(nextchar) \in Valued => Past + 1 = Len(inHand.letters)
<1>1. /\ argv \in Seq(WordType) /\ optind \in Nat /\ optind - 1 \in 1 .. Len(argv)
      /\ inHand = argv[optind - 1] /\ Roles(argv)[optind - 1] = "option"
      /\ inHand \in WordType /\ nextchar \in Seq(Letters)
  BY DEF TypeOK, PositionOK, Letters
<1>2. optind - 1 \in OptionsOf(argv)
  BY <1>1 DEF OptionsOf
<1>3. /\ Len(inHand.letters) \in Nat
      /\ \A i \in 1 .. Len(inHand.letters) : inHand.letters[i] \in Letters
      /\ \A i \in 1 .. Len(inHand.letters) - 1 : inHand.letters[i] \notin Valued
  BY <1>1, WordFields
<1>4. Len(nextchar) \in Nat \ {0} /\ Head(nextchar) = nextchar[1]
  BY <1>1
<1>5. Past \in Nat /\ Past + 1 \in 1 .. Len(inHand.letters)
  BY <1>3, <1>4 DEF Past, PositionOK
<1>6. Head(nextchar) = inHand.letters[Past + 1]
  BY <1>4 DEF PositionOK
<1> QED
  BY <1>1, <1>2, <1>3, <1>5, <1>6

\* getopt takes the letter in hand, and with it the next word if that is its value.
TakesLetter ==
    /\ nextchar # <<>> /\ UNCHANGED <<argv, inHand>> /\ nextchar' = Tail(nextchar)
    /\ \/ /\ optind' = optind
          /\ Head(nextchar) \in Valued => inHand.value # Absent
       \/ /\ Head(nextchar) \in Valued /\ inHand.value = Absent
          /\ optind <= Len(argv) /\ optind' = optind + 1

\* One letter more is handled, no operand is read, and getopt stands where it
\* should.
LEMMA LetterTaken ==
    ASSUME TypeOK, PositionOK, TakesLetter
    PROVE  /\ PositionOK'
           /\ OperandsRead' = OperandsRead
           /\ \A i \in OptionsOf(argv) : \A j \in 1 .. Len(argv[i].letters) :
                 Handled(i, j)' <=> Handled(i, j) \/ (i = optind - 1 /\ j = Past + 1)
<1> DEFINE o == optind - 1
           l == Head(nextchar)
<1>1. /\ argv \in Seq(WordType) /\ Len(argv) \in Nat /\ optind \in 1 .. Len(argv) + 1
      /\ nextchar \in Seq(Letters) /\ nextchar # <<>>
  BY DEF TypeOK, PositionOK, TakesLetter, Letters
<1>2. /\ o \in OptionsOf(argv) /\ inHand = argv[o] /\ o \in 1 .. Len(argv)
      /\ Past \in Nat /\ Past + 1 \in 1 .. Len(inHand.letters) /\ Len(inHand.letters) \in Nat
      /\ l = inHand.letters[Past + 1]
      /\ l \in Valued => Past + 1 = Len(inHand.letters)
  BY <1>1, LetterInHand, OptionWord
<1>3. Len(nextchar) = Len(inHand.letters) - Past /\ Len(nextchar) \in Nat \ {0}
  BY <1>1, <1>2 DEF Past
<1>4. /\ Len(Tail(nextchar)) = Len(nextchar) - 1
      /\ \A j \in 1 .. Len(nextchar) - 1 : Tail(nextchar)[j] = nextchar[j + 1]
  BY <1>1
<1>5. nextchar' = <<>> <=> Past + 1 = Len(inHand.letters)
  <2>1. Tail(nextchar) \in Seq(Letters)
    BY <1>1
  <2>2. Tail(nextchar) = <<>> <=> Len(Tail(nextchar)) = 0
    BY <2>1, EmptyWhenZero
  <2>3. Len(Tail(nextchar)) = 0 <=> Past + 1 = Len(inHand.letters)
    <3>1. Past \in Nat /\ Len(inHand.letters) \in Nat
      BY <1>2
    <3> DEFINE m == Len(Tail(nextchar))
    <3>2. m = Len(inHand.letters) - Past - 1
      BY <1>3, <1>4, <3>1
    <3> HIDE DEF m
    <3>3. m = 0 <=> Past + 1 = Len(inHand.letters)
      BY <3>1, <3>2
    <3> QED
      BY <3>3 DEF m
  <2> QED
    BY <2>2, <2>3 DEF TakesLetter
<1>6. Past' = Past + 1
  BY <1>1, <1>2, <1>3, <1>4 DEF TakesLetter, Past
<1>7. CASE optind' = optind
  <2>1. PositionOK'
    <3>1. CASE nextchar' = <<>>
      <4>1. LastOf(argv[o]) = l
        BY <1>2, <1>5, <3>1 DEF LastOf
      <4>2. ~TakesNext(argv[o])
        BY <1>1, <1>2, <1>7, <4>1 DEF TakesLetter, TakesNext
      <4>3. Roles(argv)[o] = "option"
        BY <1>2 DEF OptionsOf
      <4> QED
        BY <1>1, <1>7, <3>1, <4>2, <4>3 DEF PositionOK, TakesLetter, Fresh
    <3>2. CASE nextchar' # <<>>
      <4>1. \A j \in 1 .. Len(nextchar') : nextchar'[j] = inHand.letters[Past + 1 + j]
        <5> SUFFICES ASSUME NEW j \in 1 .. Len(nextchar')
                     PROVE  nextchar'[j] = inHand.letters[Past + 1 + j]
          OBVIOUS
        <5>1. j \in 1 .. Len(nextchar) - 1 /\ j + 1 \in 1 .. Len(nextchar)
          BY <1>3, <1>4 DEF TakesLetter
        <5>2. nextchar'[j] = nextchar[j + 1]
          BY <1>4, <5>1 DEF TakesLetter
        <5>3. nextchar[j + 1] = inHand.letters[Past + (j + 1)]
          BY <1>1, <5>1 DEF PositionOK
        <5>4. Past + (j + 1) = Past + 1 + j
          BY <1>2, <5>1
        <5> QED
          BY <5>2, <5>3, <5>4
      <4> QED
        BY <1>1, <1>2, <1>6, <1>7, <3>2, <4>1 DEF PositionOK, TakesLetter
    <3> QED
      BY <3>1, <3>2
  <2>2. OperandsRead' = OperandsRead
    BY <1>7 DEF OperandsRead, TakesLetter
  <2>3. ASSUME NEW i \in OptionsOf(argv), NEW j \in 1 .. Len(argv[i].letters)
        PROVE  Handled(i, j)' <=> Handled(i, j) \/ (i = o /\ j = Past + 1)
    <3>1. i \in Int /\ j \in Int /\ optind \in Int /\ Len(argv[i].letters) \in Nat
      BY <1>1, <2>3, OptionWord
    <3>2. Handled(i, j) <=> i < optind /\ (i = o => j <= Past)
      BY <1>1 DEF Handled
    <3>3. CASE nextchar' = <<>>
      <4>1. i = o => j <= Past + 1
        BY <1>2, <1>5, <2>3, <3>3
      <4>2. Handled(i, j)' <=> i < optind
        BY <1>7, <3>3 DEF Handled
      <4> QED
        BY <1>1, <1>2, <3>1, <3>2, <4>1, <4>2
    <3>4. CASE nextchar' # <<>>
      <4>1. Handled(i, j)' <=> i < optind /\ (i = o => j <= Past + 1)
        BY <1>6, <1>7, <3>4 DEF Handled
      <4> QED
        BY <1>1, <1>2, <3>1, <3>2, <4>1
    <3> QED
      BY <3>3, <3>4
  <2> QED
    BY <2>1, <2>2, <2>3
<1>8. CASE optind' = optind + 1
  <2>1. l \in Valued /\ inHand.value = Absent /\ optind <= Len(argv)
    BY <1>1, <1>8 DEF TakesLetter
  <2>2. nextchar' = <<>> /\ TakesNext(argv[o])
    <3>1. LastOf(argv[o]) = l
      BY <1>2, <2>1 DEF LastOf
    <3>2. argv[o].letters # <<>>
      BY <1>2
    <3> QED
      BY <1>2, <1>5, <2>1, <3>1, <3>2 DEF TakesNext
  <2>3. Roles(argv)[optind] = "value" /\ optind \in 1 .. Len(argv)
    BY <1>1, <1>2, <2>1, <2>2, ValueWord
  <2>4. PositionOK'
    <3>1. Fresh(optind)
      BY <2>3 DEF Fresh
    <3>2. optind' - 1 = optind /\ argv' = argv
      BY <1>1, <1>8 DEF TakesLetter
    <3>3. Fresh(optind - 1)'
      BY <3>1, <3>2 DEF Fresh
    <3>4. optind' \in 1 .. Len(argv') + 1
      BY <1>1, <1>8, <2>1, <3>2
    <3> QED
      BY <2>2, <3>3, <3>4 DEF PositionOK
  <2>5. optind \notin OperandsOf(argv) /\ optind \notin OptionsOf(argv)
    BY <2>3 DEF OperandsOf, OptionsOf
  <2>6. OperandsRead' = OperandsRead
    <3>1. \A i \in OperandsOf(argv) : i < optind + 1 <=> i < optind
      BY <1>1, <2>5 DEF OperandsOf
    <3> QED
      BY <1>8, <3>1 DEF OperandsRead, TakesLetter
  <2>7. ASSUME NEW i \in OptionsOf(argv), NEW j \in 1 .. Len(argv[i].letters)
        PROVE  Handled(i, j)' <=> Handled(i, j) \/ (i = o /\ j = Past + 1)
    <3>1. i \in Int /\ j \in Int /\ optind \in Int /\ Len(argv[i].letters) \in Nat /\ i # optind
      BY <1>1, <2>5, <2>7, OptionWord
    <3>2. Handled(i, j) <=> i < optind /\ (i = o => j <= Past)
      BY <1>1 DEF Handled
    <3>3. Handled(i, j)' <=> i < optind + 1
      BY <1>8, <2>2 DEF Handled
    <3>4. i = o => j <= Past + 1
      BY <1>2, <2>1, <2>7
    <3> QED
      BY <1>1, <1>2, <3>1, <3>2, <3>3, <3>4
  <2> QED
    BY <2>4, <2>6, <2>7
<1> QED
  BY <1>1, <1>7, <1>8 DEF TakesLetter

\* What the operands give does not change with an option.
LEMMA OptionOperands ==
    ASSUME OperandsRight, OperandsRead' = OperandsRead, UNCHANGED <<argv, operands>>
    PROVE  OperandsRight'
  BY DEF OperandsRight

\* A flag keeps what has been read.
LEMMA FlagScan ==
    ASSUME TypeOK, ScanOK, TakesLetter, UNCHANGED operands,
           Head(nextchar) \in Flags, HandleFlag(Head(nextchar)),
           ~(inHand.long /\ inHand.value # Absent)
    PROVE  ScanOK'
<1> DEFINE o == optind - 1
           l == Head(nextchar)
<1>1. /\ argv \in Seq(WordType) /\ nextchar # <<>> /\ argv' = argv /\ PositionOK
      /\ LettersRight /\ FlagsRight /\ FieldsRight /\ OperandsRight /\ Untouched
      /\ l \in Flags
  BY DEF TypeOK, ScanOK, TakesLetter
<1>2. /\ o \in OptionsOf(argv) /\ inHand = argv[o]
      /\ Past + 1 \in 1 .. Len(argv[o].letters) /\ Past \in Nat
      /\ l = argv[o].letters[Past + 1] /\ Len(argv[o].letters) \in Nat
  BY <1>1, LetterInHand, OptionWord
<1>3. /\ PositionOK' /\ OperandsRead' = OperandsRead
      /\ \A i \in OptionsOf(argv) : \A j \in 1 .. Len(argv[i].letters) :
            Handled(i, j)' <=> Handled(i, j) \/ (i = o /\ j = Past + 1)
  BY <1>1, LetterTaken
<1>4. /\ flags' = flags \cup {l}
      /\ UNCHANGED <<key, keyId, mode, format, status, stdout, stderr>>
  BY DEF HandleFlag, streams
<1> HIDE DEF l, o
<1>5. LettersRight'
  <2>1. LetterRight(argv, o, Past + 1)
    <3>1. l # "?" /\ l \notin Valued
      BY <1>1 DEF Flags, Valued
    <3>2. Past + 1 = Len(argv[o].letters) => LastOf(argv[o]) = l
      BY <1>2 DEF LastOf
    <3>3. argv[o].long => argv[o].value = Absent
      BY <1>2
    <3> QED
      BY <1>2, <3>1, <3>2, <3>3 DEF LetterRight, Valued
  <2>2. ASSUME NEW i \in OptionsOf(argv), NEW j \in 1 .. Len(argv[i].letters), Handled(i, j)'
        PROVE  LetterRight(argv, i, j)
    BY <1>1, <1>3, <2>1, <2>2 DEF LettersRight
  <2> QED
    BY <1>1, <2>2 DEF LettersRight
<1>6. FlagsRight'
  <2>1. ASSUME NEW f \in Flags
        PROVE  f \in flags' <=> \E i \in OptionsOf(argv) : \E j \in 1 .. Len(argv[i].letters) :
                                    Handled(i, j)' /\ argv[i].letters[j] = f
    <3>1. f \in flags <=> \E i \in OptionsOf(argv) : \E j \in 1 .. Len(argv[i].letters) :
                              Handled(i, j) /\ argv[i].letters[j] = f
      BY <1>1 DEF FlagsRight
    <3>2. PICK i \in OptionsOf(argv) : i = o
      BY <1>2
    <3>3. PICK j \in 1 .. Len(argv[i].letters) : j = Past + 1
      BY <1>2, <3>2
    <3>4. Handled(i, j)' /\ argv[i].letters[j] = l
      BY <1>2, <1>3, <3>2, <3>3
    <3> QED
      BY <1>2, <1>3, <1>4, <3>1, <3>2, <3>3, <3>4
  <2>2. flags' \subseteq Flags
    BY <1>1, <1>4 DEF TypeOK
  <2> QED
    BY <1>1, <2>1, <2>2 DEF FlagsRight
<1>7. FieldsRight'
  <2>1. ASSUME NEW m \in Valued PROVE SetAt(m)' = SetAt(m)
    <3>1. ASSUME NEW i \in OptionsOf(argv), LastOf(argv[i]) = m
          PROVE  HandledWhole(i)' <=> HandledWhole(i)
      <4>1. Len(argv[i].letters) \in 1 .. Len(argv[i].letters)
        BY <1>1, OptionWord
      <4>2. ~(i = o /\ Len(argv[i].letters) = Past + 1)
        BY <1>1, <1>2, <2>1, <3>1 DEF LastOf, Valued, Flags
      <4> QED
        BY <1>1, <1>3, <4>1, <4>2 DEF HandledWhole
    <3> QED
      BY <1>1, <3>1 DEF SetAt
  <2>2. {"k", "i", "o", "f"} \subseteq Valued
    BY DEF Valued
  <2> QED
    BY <1>1, <1>4, <2>1, <2>2 DEF FieldsRight, FieldRight
<1>8. OperandsRight'
  BY <1>1, <1>3, OptionOperands
<1>9. Untouched'
  BY <1>1, <1>4 DEF Untouched
<1> QED
  BY <1>3, <1>5, <1>6, <1>7, <1>8, <1>9 DEF ScanOK

\* An option with a value keeps what has been read, and its field has it.
LEMMA StoreScan ==
    ASSUME TypeOK, ScanOK, TakesLetter, UNCHANGED operands,
           Head(nextchar) \in Valued, HasValue(argv, optind - 1),
           Store(Head(nextchar), ValueAt(argv, optind - 1)),
           Head(nextchar) = "o" => ValueAt(argv, optind - 1) \in Modes,
           Head(nextchar) = "f" => ValueAt(argv, optind - 1) \in Formats
    PROVE  ScanOK'
<1> DEFINE o == optind - 1
           l == Head(nextchar)
           v == ValueAt(argv, o)
<1>1. /\ argv \in Seq(WordType) /\ nextchar # <<>> /\ argv' = argv /\ PositionOK
      /\ LettersRight /\ FlagsRight /\ FieldsRight /\ OperandsRight /\ Untouched
      /\ l \in Valued /\ optind \in Nat /\ o \in Int
  BY DEF TypeOK, ScanOK, TakesLetter, PositionOK
<1>2. /\ o \in OptionsOf(argv) /\ inHand = argv[o]
      /\ Past + 1 = Len(argv[o].letters) /\ Past + 1 \in 1 .. Len(argv[o].letters)
      /\ Past \in Nat
      /\ l = argv[o].letters[Past + 1]
  BY <1>1, LetterInHand, OptionWord
<1>3. /\ PositionOK' /\ OperandsRead' = OperandsRead
      /\ \A i \in OptionsOf(argv) : \A j \in 1 .. Len(argv[i].letters) :
            Handled(i, j)' <=> Handled(i, j) \/ (i = o /\ j = Past + 1)
  BY <1>1, LetterTaken
<1>4. /\ UNCHANGED <<flags, status, stdout, stderr>>
      /\ HasValue(argv, o) /\ (l = "o" => v \in Modes) /\ (l = "f" => v \in Formats)
      /\ Store(l, v)
  BY DEF Store, streams
<1>5. LastOf(argv[o]) = l
  BY <1>2 DEF LastOf
<1>6. \A i \in OptionsOf(argv) : i < optind => i <= o
  BY <1>1 DEF OptionsOf
<1> HIDE DEF l, o, v
<1>7. LettersRight'
  <2>1. LetterRight(argv, o, Past + 1)
    BY <1>1, <1>2, <1>4, <1>5 DEF LetterRight, Valued, Flags, v
  <2>2. ASSUME NEW i \in OptionsOf(argv), NEW j \in 1 .. Len(argv[i].letters), Handled(i, j)'
        PROVE  LetterRight(argv, i, j)
    BY <1>1, <1>3, <2>1, <2>2 DEF LettersRight
  <2> QED
    BY <1>1, <2>2 DEF LettersRight
<1>8. FlagsRight'
  <2>1. ASSUME NEW f \in Flags, NEW i \in OptionsOf(argv),
               NEW j \in 1 .. Len(argv[i].letters), argv[i].letters[j] = f
        PROVE  Handled(i, j)' <=> Handled(i, j)
    <3>1. ~(i = o /\ j = Past + 1)
      BY <1>1, <1>2, <2>1 DEF Valued, Flags
    <3> QED
      BY <1>3, <3>1
  <2> QED
    BY <1>1, <1>4, <2>1 DEF FlagsRight
<1>9. ASSUME NEW m \in Valued
      PROVE  SetAt(m)' = IF m = l THEN SetAt(m) \cup {o} ELSE SetAt(m)
  <2>1. ASSUME NEW i \in OptionsOf(argv)
        PROVE  HandledWhole(i)' <=> HandledWhole(i) \/ i = o
    <3>1. Len(argv[i].letters) \in 1 .. Len(argv[i].letters)
      BY <1>1, OptionWord
    <3> QED
      BY <1>1, <1>2, <1>3, <3>1 DEF HandledWhole
  <2>2. SetAt(m)' = {i \in OptionsOf(argv) : LastOf(argv[i]) = m /\ (HandledWhole(i) \/ i = o)}
    BY <1>1, <2>1 DEF SetAt
  <2>3. o \in OptionsOf(argv)
    BY <1>2
  <2>4. CASE m = l
    BY <1>5, <2>2, <2>3, <2>4 DEF SetAt
  <2>5. CASE m # l
    BY <1>5, <2>2, <2>5 DEF SetAt
  <2> QED
    BY <2>4, <2>5
<1>10. \A m \in Valued : \A i \in SetAt(m) : i <= o
  BY <1>6 DEF SetAt, HandledWhole, Handled
<1>11. ASSUME NEW m \in Valued, m = l, NEW d PROVE LastSetting(argv, SetAt(m)', v, d)
  <2>1. SetAt(m)' = SetAt(m) \cup {o} /\ o \in SetAt(m)' /\ o <= o
    BY <1>1, <1>9, <1>11
  <2>2. \A k \in SetAt(m)' : k <= o
    BY <1>1, <1>10, <2>1
  <2> QED
    BY <2>1, <2>2 DEF LastSetting, v
<1>12. FieldsRight'
  <2>1. Valued = {"k", "i", "o", "f"}
    BY DEF Valued
  <2>2. \A m \in Valued : m # l => SetAt(m)' = SetAt(m)
    BY <1>9
  <2>3. /\ LastSetting(argv, SetAt("k"), key, Absent) /\ LastSetting(argv, SetAt("i"), keyId, Absent)
        /\ LastSetting(argv, SetAt("o"), mode, "text") /\ LastSetting(argv, SetAt("f"), format, "auto")
    BY <1>1 DEF FieldsRight, FieldRight
  <2>4. /\ key' = (IF l = "k" THEN v ELSE key) /\ keyId' = (IF l = "i" THEN v ELSE keyId)
        /\ mode' = (IF l = "o" THEN v ELSE mode) /\ format' = (IF l = "f" THEN v ELSE format)
    BY <1>1, <1>4, <2>1 DEF Store
  <2>5. LastSetting(argv, SetAt("k")', key', Absent)
    BY <1>11, <2>1, <2>2, <2>3, <2>4
  <2>6. LastSetting(argv, SetAt("i")', keyId', Absent)
    BY <1>11, <2>1, <2>2, <2>3, <2>4
  <2>7. LastSetting(argv, SetAt("o")', mode', "text")
    BY <1>11, <2>1, <2>2, <2>3, <2>4
  <2>8. LastSetting(argv, SetAt("f")', format', "auto")
    BY <1>11, <2>1, <2>2, <2>3, <2>4
  <2> QED
    BY <1>1, <2>5, <2>6, <2>7, <2>8 DEF FieldsRight, FieldRight
<1>13. OperandsRight'
  BY <1>1, <1>3, OptionOperands
<1>14. Untouched'
  BY <1>1, <1>4 DEF Untouched
<1> QED
  BY <1>3, <1>7, <1>8, <1>12, <1>13, <1>14 DEF ScanOK

\* An option that is refused is not well formed.
LEMMA RefusedLetter ==
    ASSUME TypeOK, PositionOK, nextchar # <<>>,
           \/ Head(nextchar) \notin Valued \cup Flags
           \/ Head(nextchar) \in Flags /\ inHand.long /\ inHand.value # Absent
           \/ Head(nextchar) \in Valued /\ ~HasValue(argv, optind - 1)
           \/ Head(nextchar) = "o" /\ ValueAt(argv, optind - 1) \notin Modes
           \/ Head(nextchar) = "f" /\ ValueAt(argv, optind - 1) \notin Formats
    PROVE  ~WellFormed(argv)
<1> DEFINE o == optind - 1
           l == Head(nextchar)
<1>1. /\ o \in OptionsOf(argv) /\ inHand = argv[o] /\ inHand \in WordType
      /\ Past + 1 \in 1 .. Len(argv[o].letters)
      /\ l = argv[o].letters[Past + 1] /\ l \in Letters
      /\ l \in Valued => Past + 1 = Len(argv[o].letters)
  BY LetterInHand
<1>2. l \in Valued => LastOf(argv[o]) = l
  BY <1>1 DEF LastOf
<1>3. {"o", "f"} \subseteq Valued /\ (l \notin Valued \cup Flags => l = "?")
  BY <1>1 DEF Valued, Letters
<1>4. CASE l \notin Valued \cup Flags
  BY <1>1, <1>3, <1>4 DEF WellFormed
<1>5. CASE l \in Flags /\ inHand.long /\ inHand.value # Absent
  <2>1. Len(argv[o].letters) = 1
    BY <1>1, <1>5, WordFields
  <2>2. LastOf(argv[o]) = l
    BY <1>1, <2>1 DEF LastOf
  <2> QED
    BY <1>1, <1>5, <2>2 DEF WellFormed
<1>6. CASE l \in Valued /\ ~HasValue(argv, o)
  BY <1>1, <1>2, <1>6 DEF WellFormed
<1>7. CASE l = "o" /\ ValueAt(argv, o) \notin Modes
  BY <1>1, <1>2, <1>3, <1>7 DEF WellFormed
<1>8. CASE l = "f" /\ ValueAt(argv, o) \notin Formats
  BY <1>1, <1>2, <1>3, <1>8 DEF WellFormed
<1> QED
  BY <1>4, <1>5, <1>6, <1>7, <1>8

\* Storing a value does not leave the loop.
LEMMA StoreStays == \A l, v : Store(l, v) => pc' = pc
  BY DEF Store

\* An option keeps what has been read, or it is refused, and rightly.
LEMMA OptionScan ==
    ASSUME TypeOK, ScanOK, Option
    PROVE  \/ ScanOK' /\ pc' = "scan"
           \/ RejectOption /\ ~WellFormed(argv)
<1> DEFINE o == optind - 1
           l == Head(nextchar)
<1>1. /\ nextchar # <<>> /\ UNCHANGED <<argv, inHand, operands>> /\ nextchar' = Tail(nextchar)
      /\ pc = "scan" /\ PositionOK /\ argv \in Seq(WordType) /\ optind \in 1 .. Len(argv) + 1
      /\ Len(argv) \in Nat
  BY DEF Option, ScanOK, PositionOK, TypeOK
<1>2. o \in OptionsOf(argv) /\ inHand = argv[o] /\ o \in 1 .. Len(argv) /\ l \in Letters
  BY <1>1, LetterInHand, OptionWord
<1>3. ASSUME l \in Valued, inHand.value # Absent, HandleValued(l, inHand.value), optind' = optind
      PROVE  (ScanOK' /\ pc' = "scan") \/ (RejectOption /\ ~WellFormed(argv))
  <2>1. ValueAt(argv, o) = inHand.value /\ HasValue(argv, o)
    BY <1>2, <1>3 DEF ValueAt, HasValue
  <2>2. TakesLetter
    BY <1>1, <1>3 DEF TakesLetter
  <2>3. CASE (l = "o" /\ inHand.value \notin Modes) \/ (l = "f" /\ inHand.value \notin Formats)
    <3>1. RejectOption
      BY <1>3, <2>3 DEF HandleValued
    <3>2. ~WellFormed(argv)
      BY <1>1, <2>1, <2>3, RefusedLetter
    <3> QED
      BY <3>1, <3>2
  <2>4. CASE ~((l = "o" /\ inHand.value \notin Modes) \/ (l = "f" /\ inHand.value \notin Formats))
    <3>1. Store(l, ValueAt(argv, o))
      BY <1>3, <2>1, <2>4 DEF HandleValued
    <3>2. ScanOK'
      BY <1>1, <1>3, <2>1, <2>2, <2>4, <3>1, StoreScan
    <3> QED
      BY <1>1, <3>1, <3>2, StoreStays
  <2> QED
    BY <2>3, <2>4
<1>4. ASSUME l \in Valued, inHand.value = Absent, optind <= Len(argv),
             HandleValued(l, argv[optind].text), optind' = optind + 1
      PROVE  (ScanOK' /\ pc' = "scan") \/ (RejectOption /\ ~WellFormed(argv))
  <2> DEFINE v == argv[optind].text
  <2>1. ValueAt(argv, o) = v /\ HasValue(argv, o)
    BY <1>1, <1>2, <1>4 DEF ValueAt, HasValue
  <2>2. TakesLetter
    BY <1>1, <1>4 DEF TakesLetter
  <2>3. CASE (l = "o" /\ v \notin Modes) \/ (l = "f" /\ v \notin Formats)
    <3>1. RejectOption
      BY <1>4, <2>3 DEF HandleValued
    <3>2. ~WellFormed(argv)
      BY <1>1, <2>1, <2>3, RefusedLetter
    <3> QED
      BY <3>1, <3>2
  <2>4. CASE ~((l = "o" /\ v \notin Modes) \/ (l = "f" /\ v \notin Formats))
    <3>1. Store(l, ValueAt(argv, o))
      BY <1>4, <2>1, <2>4 DEF HandleValued
    <3>2. ScanOK'
      BY <1>1, <1>4, <2>1, <2>2, <2>4, <3>1, StoreScan
    <3> QED
      BY <1>1, <3>1, <3>2, StoreStays
  <2> QED
    BY <2>3, <2>4
<1>5. ASSUME l \in Flags, ~(inHand.long /\ inHand.value # Absent), HandleFlag(l), optind' = optind
      PROVE  ScanOK' /\ pc' = "scan"
  <2>1. l \notin Valued
    BY <1>5 DEF Valued, Flags
  <2>2. TakesLetter
    BY <1>1, <1>5, <2>1 DEF TakesLetter
  <2>3. ScanOK'
    BY <1>1, <1>5, <2>2, FlagScan
  <2> QED
    BY <1>1, <1>5, <2>3 DEF HandleFlag
<1>6. ASSUME \/ l \notin Valued \cup Flags
             \/ l \in Flags /\ inHand.long /\ inHand.value # Absent
             \/ l \in Valued /\ inHand.value = Absent /\ optind > Len(argv),
             RejectOption
      PROVE  ~WellFormed(argv)
  <2>1. inHand.value = Absent /\ optind > Len(argv) => ~HasValue(argv, o)
    BY <1>1, <1>2 DEF HasValue
  <2> QED
    BY <1>1, <1>6, <2>1, RefusedLetter
<1> QED
  BY <1>3, <1>4, <1>5, <1>6 DEF Option

-----------------------------------------------------------------------------
(* The end of the vector.                                                    *)

\* At the end every letter has been handled.
AtEnd == nextchar = <<>> /\ optind > Len(argv)

LEMMA AllHandled ==
    ASSUME TypeOK, PositionOK, AtEnd
    PROVE  \A i \in OptionsOf(argv) : /\ HandledWhole(i)
                                      /\ \A j \in 1 .. Len(argv[i].letters) : Handled(i, j)
<1>1. /\ argv \in Seq(WordType) /\ Len(argv) \in Nat /\ optind = Len(argv) + 1
      /\ nextchar = <<>>
  BY DEF TypeOK, PositionOK, AtEnd
<1>2. \A i \in OptionsOf(argv) : i < optind
  BY <1>1 DEF OptionsOf
<1> QED
  BY <1>1, <1>2 DEF HandledWhole, Handled

\* What has been read is then all there is: the options are well formed ...
LEMMA EndWellFormed ==
    ASSUME TypeOK, ScanOK, AtEnd
    PROVE  WellFormed(argv) /\ flags = FlagsOf(argv)
<1>1. \A i \in OptionsOf(argv) : \A j \in 1 .. Len(argv[i].letters) : LetterRight(argv, i, j)
  BY AllHandled DEF ScanOK, LettersRight
<1>2. flags = FlagsOf(argv)
  BY AllHandled DEF ScanOK, FlagsRight, FlagsOf
<1>3. \A i \in OptionsOf(argv) : Len(argv[i].letters) \in 1 .. Len(argv[i].letters)
  BY OptionWord DEF TypeOK
<1>4. WellFormed(argv)
  BY <1>1, <1>3 DEF WellFormed, LetterRight
<1> QED
  BY <1>2, <1>4

\* ... each field has the last setting there is ...
LEMMA EndSetting ==
    ASSUME TypeOK, ScanOK, AtEnd, NEW l \in Valued, NEW v, NEW d, FieldRight(l, v, d)
    PROVE  /\ Setting(argv, l, d) = v
           /\ \/ v = d /\ \A e : Setting(argv, l, e) = e
              \/ v \in Texts /\ \A e : Setting(argv, l, e) = v
<1> DEFINE at == {i \in OptionsOf(argv) : LastOf(argv[i]) = l}
<1>1. SetAt(l) = at
  BY AllHandled DEF ScanOK, SetAt
<1>2. LastSetting(argv, at, v, d)
  BY <1>1 DEF FieldRight
<1>3. CASE at = {}
  BY <1>2, <1>3 DEF LastSetting, Setting
<1>4. CASE at # {}
  <2>1. PICK m \in at : v = ValueAt(argv, m) /\ \A k \in at : k <= m
    BY <1>2, <1>4 DEF LastSetting
  <2>2. at \subseteq Int
    BY DEF OptionsOf
  <2>3. Max(at) = m
    <3>1. m \in at /\ \A k \in at : m >= k
      BY <2>1, <2>2
    <3>2. \A x \in at : (\A k \in at : x >= k) => x = m
      BY <2>1, <2>2
    <3> HIDE DEF at
    <3> QED
      BY <3>1, <3>2 DEF Max
  <2>4. \A e : Setting(argv, l, e) = v
    BY <1>4, <2>1, <2>3 DEF Setting
  <2>5. v \in Texts
    <3>1. m \in OptionsOf(argv) /\ argv \in Seq(WordType) /\ LastOf(argv[m]) \in Valued
      BY <2>1 DEF TypeOK
    <3>2. HasValue(argv, m)
      BY <3>1, EndWellFormed DEF WellFormed
    <3>3. m \in 1 .. Len(argv) /\ argv[m] \in WordType
      BY <3>1, OptionWord
    <3>4. argv[m].value \in Texts \cup {Absent}
      BY <3>3, WordFields
    <3>5. argv[m].value = Absent => m + 1 \in 1 .. Len(argv) /\ argv[m + 1] \in WordType
      BY <3>1, <3>2, <3>3 DEF HasValue
    <3>6. argv[m].value = Absent => argv[m + 1].text \in Texts
      BY <3>5, WordFields
    <3> QED
      BY <2>1, <3>4, <3>6 DEF ValueAt
  <2> QED
    BY <2>4, <2>5
<1> QED
  BY <1>3, <1>4

\* Of a positive number, no more than one is one.
LEMMA AtMostOne == \A n \in Nat \ {0} : n <= 1 <=> n = 1
  OBVIOUS

\* ... and the operands are those of the vector.
LEMMA EndOperands ==
    ASSUME TypeOK, ScanOK, AtEnd
    PROVE  /\ FirstOperand = OperandOf(argv)
           /\ Len(operands) <= 1 <=> Cardinality(OperandsOf(argv)) <= 1
<1>1. /\ argv \in Seq(WordType) /\ Len(argv) \in Nat /\ optind = Len(argv) + 1
      /\ operands \in Seq(WordType)
  BY DEF TypeOK, ScanOK, PositionOK, AtEnd
<1>2. OperandsRead = OperandsOf(argv) /\ OperandsOf(argv) \subseteq 1 .. Len(argv)
  BY <1>1 DEF OperandsRead, OperandsOf
<1> DEFINE all == OperandsOf(argv)
<1>3. IsFiniteSet(all)
  <2>1. IsFiniteSet(1 .. Len(argv))
    BY <1>1, FS_Interval
  <2> QED
    BY <1>2, <2>1, FS_Subset
<1>4. CASE operands = <<>>
  <2>1. all = {}
    BY <1>2, <1>4 DEF ScanOK, OperandsRight
  <2>2. Cardinality(all) = 0
    BY <2>1, FS_EmptySet
  <2> QED
    BY <1>4, <2>1, <2>2 DEF FirstOperand, OperandOf
<1>5. CASE operands # <<>>
  <2>1. PICK i \in all : /\ operands[1] = argv[i] /\ \A k \in all : i <= k
                         /\ Len(operands) = 1 <=> all = {i}
    BY <1>2, <1>5 DEF ScanOK, OperandsRight
  <2>2. Len(operands) \in Nat \ {0}
    BY <1>1, <1>5
  <2>3. Min(all) = i
    <3>1. all \subseteq Int
      BY <1>2
    <3>2. \A x \in all : (\A k \in all : x <= k) => x = i
      BY <2>1, <3>1
    <3> HIDE DEF all
    <3> QED
      BY <2>1, <3>2 DEF Min
  <2>4. FirstOperand = OperandOf(argv)
    BY <2>1, <2>2, <2>3 DEF FirstOperand, OperandOf
  <2>5. Cardinality(all) <= 1 <=> all = {i}
    <3> HIDE DEF all
    <3>1. all = {i} => Cardinality(all) = 1
      BY FS_Singleton
    <3>2. Cardinality(all) \in Nat
      BY <1>3, FS_CardinalityType
    <3>3. Cardinality(all) # 0
      BY <1>3, <2>1, FS_EmptySet
    <3>4. Cardinality(all) = 1 => all = {i}
      <4> SUFFICES ASSUME Cardinality(all) = 1 PROVE all = {i}
        OBVIOUS
      <4>1. PICK x : all = {x}
        BY <1>3, FS_Singleton
      <4> QED
        BY <2>1, <4>1
    <3> QED
      BY <3>1, <3>2, <3>3, <3>4
  <2>6. Len(operands) <= 1 <=> all = {i}
    <3>1. Len(operands) <= 1 <=> Len(operands) = 1
      BY <2>2, AtMostOne
    <3> QED
      BY <2>1, <3>1
  <2> QED
    BY <2>4, <2>5, <2>6
<1> QED
  BY <1>4, <1>5

\* So the call goes on to seal exactly when the vector asks for it.
LEMMA EndAsksToSeal ==
    ASSUME TypeOK, ScanOK, AtEnd, flags = {}
    PROVE  AsksToSeal(argv) <=> /\ key \notin {Absent, ""} /\ keyId # "overlong"
                                /\ Len(operands) <= 1
                                /\ ~(key = "-" /\ FromStdin(FirstOperand))
<1>1. FieldRight("k", key, Absent) /\ FieldRight("i", keyId, Absent)
  BY DEF ScanOK, FieldsRight
<1>2. "k" \in Valued /\ "i" \in Valued /\ Absent \notin {"", "-", "overlong"}
  BY DEF Valued, Absent
<1>3. /\ key = Absent => Setting(argv, "k", "") = ""
      /\ key # Absent => Setting(argv, "k", "") = key
  BY <1>1, <1>2, EndSetting, AbsentIsNoText
<1>4. /\ keyId = Absent => Setting(argv, "i", "") = ""
      /\ keyId # Absent => Setting(argv, "i", "") = keyId
  BY <1>1, <1>2, EndSetting, AbsentIsNoText
<1>5. WellFormed(argv) /\ FlagsOf(argv) = {}
  BY EndWellFormed
<1>6. /\ FirstOperand = OperandOf(argv)
      /\ Len(operands) <= 1 <=> Cardinality(OperandsOf(argv)) <= 1
  BY EndOperands
<1>7. Setting(argv, "i", "") # "overlong" <=> keyId # "overlong"
  BY <1>2, <1>4
<1> QED
  BY <1>2, <1>3, <1>5, <1>6, <1>7 DEF AsksToSeal

\* A call that goes on has read what is written.
LEMMA EndReadAsWritten ==
    ASSUME TypeOK, ScanOK, AtEnd
    PROVE  /\ key = Setting(argv, "k", Absent) /\ keyId = Setting(argv, "i", Absent)
           /\ mode = Setting(argv, "o", "text") /\ format = Setting(argv, "f", "auto")
           /\ FirstOperand = OperandOf(argv)
<1>1. {"k", "i", "o", "f"} \subseteq Valued
  BY DEF Valued
<1>2. /\ FieldRight("k", key, Absent) /\ FieldRight("i", keyId, Absent)
      /\ FieldRight("o", mode, "text") /\ FieldRight("f", format, "auto")
  BY DEF ScanOK, FieldsRight
<1>3. key = Setting(argv, "k", Absent)
  BY <1>1, <1>2, EndSetting
<1>4. keyId = Setting(argv, "i", Absent)
  BY <1>1, <1>2, EndSetting
<1>5. mode = Setting(argv, "o", "text")
  BY <1>1, <1>2, EndSetting
<1>6. format = Setting(argv, "f", "auto")
  BY <1>1, <1>2, EndSetting
<1> QED
  BY <1>3, <1>4, <1>5, <1>6, EndOperands

-----------------------------------------------------------------------------
(* The invariant.                                                            *)

\* Where a call stands when it leaves the loop.
LEMMA CheckLeaves ==
    ASSUME TypeOK, ScanOK, Check
    PROVE  /\ pc' \in {"usage", "explain", "done"}
           /\ pc' = "usage" => UsageOK'
           /\ pc' = "explain" => ExplainOK'
           /\ Promises'
<1>1. /\ AtEnd /\ UNCHANGED <<argv, flags, key, keyId, mode, format, operands>>
      /\ flags \subseteq {"h", "V"} /\ Untouched
  BY DEF Check, AtEnd, options, getopt, TypeOK, ScanOK, Flags
<1>2. WellFormed(argv) /\ flags = FlagsOf(argv)
  BY <1>1, EndWellFormed
<1>3. status = ERR_INPUT /\ stdout = {} /\ stderr = {}
  BY <1>1 DEF Untouched
<1> DEFINE optionsFail == key = "" \/ keyId = "overlong"
           bothStdin   == key = "-" /\ FromStdin(FirstOperand)
<1>4. flags = {} => (AsksToSeal(argv) <=> /\ key # Absent /\ ~optionsFail /\ Len(operands) <= 1
                                          /\ ~bothStdin)
  BY <1>1, EndAsksToSeal
<1>5. /\ key = Setting(argv, "k", Absent) /\ keyId = Setting(argv, "i", Absent)
      /\ mode = Setting(argv, "o", "text") /\ format = Setting(argv, "f", "auto")
      /\ FirstOperand = OperandOf(argv)
  BY <1>1, EndReadAsWritten
<1> HIDE DEF optionsFail, bothStdin
<1>6. ASSUME flags # {}, NEW text \in {"usage", "version"}, Show(text),
             text = "usage" <=> "h" \in flags
      PROVE  /\ pc' \in {"usage", "explain", "done"}
             /\ pc' = "usage" => UsageOK'
             /\ pc' = "explain" => ExplainOK'
             /\ Promises'
  <2>1. CASE stdout' = {text} /\ Return(OK) /\ UNCHANGED <<stderr, error>>
    <3>1. pc' = "done" /\ status' = OK /\ stdout' = {text} /\ stderr' = {}
      BY <1>3, <2>1 DEF Return
    <3>2. DecidedByArgv'
      BY <1>1, <1>2, <1>6, <3>1 DEF DecidedByArgv, OK, ERR_INPUT
    <3>3. ReadAsWritten'
      BY <1>1, <1>6 DEF ReadAsWritten
    <3>4. HelpOnlyWhenWellFormed'
      BY <1>1, <1>2, <1>6, <3>1 DEF HelpOnlyWhenWellFormed
    <3>5. RefusalExplained'
      BY <3>1 DEF RefusalExplained, OK, ERR_INPUT
    <3> QED
      BY <3>1, <3>2, <3>3, <3>4, <3>5 DEF Promises
  <2>2. CASE Return(ERR_IO) /\ error' = TRUE /\ UNCHANGED <<stdout, stderr>>
    <3>1. pc' = "explain" /\ status' = ERR_IO /\ stdout' = {} /\ flags' # {}
      BY <1>1, <1>3, <1>6, <2>2 DEF Return, ERR_IO, OK
    <3>2. ExplainOK'
      BY <3>1 DEF ExplainOK, ERR_IO, ERR_INPUT
    <3>3. Promises'
      BY <3>1 DEF Promises, DecidedByArgv, ReadAsWritten, HelpOnlyWhenWellFormed, RefusalExplained
    <3> QED
      BY <3>1, <3>2, <3>3
  <2> QED
    BY <1>6, <2>1, <2>2 DEF Show
<1>7. ASSUME flags = {}, status' = ERR_IO, pc' = "done", UNCHANGED <<stdout, stderr>>
      PROVE  Promises'
  BY <1>1, <1>3, <1>7 DEF Promises, DecidedByArgv, ReadAsWritten, HelpOnlyWhenWellFormed,
     RefusalExplained, OK, ERR_IO, ERR_INPUT
<1>8. ASSUME flags = {}, ~AsksToSeal(argv), Report("diagnostic")
      PROVE  pc' = "done" /\ Promises'
  <2>1. CASE stderr' = stderr \cup {"diagnostic"} /\ Return(ERR_INPUT) /\ UNCHANGED <<error, stdout>>
    <3>1. /\ pc' = "done" /\ status' = ERR_INPUT /\ "diagnostic" \in stderr' /\ stdout' = {}
          /\ status' # OK
      BY <1>3, <1>8, <2>1 DEF Return, OK, ERR_INPUT
    <3>2. DecidedByArgv'
      BY <1>1, <1>2, <1>8, <3>1 DEF DecidedByArgv
    <3> QED
      BY <3>1, <3>2 DEF Promises, ReadAsWritten, HelpOnlyWhenWellFormed, RefusalExplained
  <2>2. CASE Return(ERR_IO) /\ error' = TRUE /\ UNCHANGED <<stderr, stdout>>
    BY <1>7, <1>8, <2>2 DEF Return
  <2> QED
    BY <1>8, <2>1, <2>2 DEF Report
<1>9. ASSUME flags = {}, ~AsksToSeal(argv), ReportUsage
      PROVE  Promises' /\ ((pc' = "usage" /\ UsageOK') \/ pc' = "done")
  <2>1. CASE stderr' = stderr \cup {"diagnostic"} /\ pc' = "usage" /\ UNCHANGED <<status, error, stdout>>
    <3>1. UsageOK'
      BY <1>1, <1>2, <1>3, <1>9, <2>1 DEF UsageOK
    <3>2. Promises'
      BY <2>1 DEF Promises, DecidedByArgv, ReadAsWritten, HelpOnlyWhenWellFormed, RefusalExplained
    <3> QED
      BY <2>1, <3>1, <3>2
  <2>2. CASE Return(ERR_IO) /\ error' = TRUE /\ UNCHANGED <<stderr, stdout>>
    BY <1>7, <1>9, <2>2 DEF Return
  <2> QED
    BY <1>9, <2>1, <2>2 DEF ReportUsage
<1>10. ASSUME flags = {}, key # Absent, ~optionsFail, Len(operands) <= 1, ~bothStdin,
              Return(OK), UNCHANGED streams, plaintext' = FirstOperand
       PROVE  pc' = "done" /\ Promises'
  <2>1. pc' = "done" /\ status' = OK /\ stdout' = {} /\ stderr' = {} /\ status' # ERR_INPUT
    BY <1>3, <1>10 DEF Return, streams, OK, ERR_INPUT
  <2>2. AsksToSeal(argv)
    BY <1>4, <1>10
  <2>3. DecidedByArgv'
    BY <1>1, <2>1, <2>2 DEF DecidedByArgv
  <2>4. ReadAsWritten'
    BY <1>1, <1>5, <1>10 DEF ReadAsWritten
  <2>5. HelpOnlyWhenWellFormed'
    BY <1>1, <1>10, <2>1 DEF HelpOnlyWhenWellFormed
  <2> QED
    BY <2>1, <2>3, <2>4, <2>5 DEF Promises, RefusalExplained
<1>11. CASE "h" \in flags /\ Show("usage")
  BY <1>6, <1>11
<1>12. CASE flags = {"V"} /\ Show("version")
  <2>1. "h" \notin flags /\ flags # {} /\ "version" # "usage"
    BY <1>12
  <2> QED
    BY <1>6, <1>12, <2>1
<1>13. CASE flags = {} /\ key = Absent /\ ReportUsage
  BY <1>4, <1>9, <1>13
<1>14. CASE flags = {} /\ key # Absent /\ optionsFail /\ Report("diagnostic")
  BY <1>4, <1>8, <1>14
<1>15. CASE flags = {} /\ key # Absent /\ ~optionsFail /\ Len(operands) > 1 /\ ReportUsage
  <2>1. ~(Len(operands) <= 1)
    BY <1>15 DEF TypeOK
  <2> QED
    BY <1>4, <1>9, <1>15, <2>1
<1>16. CASE flags = {} /\ key # Absent /\ ~optionsFail /\ bothStdin /\ Report("diagnostic")
  BY <1>4, <1>8, <1>16
<1>17. CASE /\ flags = {} /\ key # Absent /\ ~optionsFail /\ Len(operands) <= 1 /\ ~bothStdin
            /\ Return(OK) /\ UNCHANGED streams
  <2>1. plaintext' = FirstOperand
    BY <1>17 DEF Check, optionsFail
  <2> QED
    BY <1>10, <1>17, <2>1
<1> QED
  BY <1>11, <1>12, <1>13, <1>14, <1>15, <1>16, <1>17 DEF Check, optionsFail, bothStdin

\* Every step of a call keeps the invariant.
LEMMA ArgsStep == ASSUME ArgsInv, [Next]_argsVars PROVE ArgsInv'
<1>1. TypeOK /\ TypeOK'
  BY ArgsType DEF ArgsInv
<1>2. pc' # "done" => Promises'
  BY DEF Promises, DecidedByArgv, ReadAsWritten, HelpOnlyWhenWellFormed, RefusalExplained
<1>3. ASSUME NEW a \in Argvs \cup Later, Enter(a) PROVE ArgsInv'
  <2>1. /\ pc' = "scan" /\ argv' = a /\ a \in Seq(WordType) /\ optind' = 1 /\ nextchar' = <<>>
        /\ operands' = <<>> /\ flags' = {} /\ key' = Absent /\ keyId' = Absent
        /\ mode' = "text" /\ format' = "auto"
        /\ status' = ERR_INPUT /\ stdout' = {} /\ stderr' = {}
    BY <1>3, ArgsAssumption DEF Enter, ResetGetopt
  <2>2. Len(argv') \in Nat
    BY <2>1
  <2>3. PositionOK'
    <3>1. Roles(a)[0] = "start"
      BY <2>1, RolesUnfold
    <3> QED
      BY <2>1, <2>2, <3>1 DEF PositionOK, Fresh
  <2>4. \A i \in OptionsOf(a) : ~(i < 1)
    BY <2>1, <2>2 DEF OptionsOf
  <2>5. \A i \in OptionsOf(argv') : \A j : ~Handled(i, j)'
    BY <2>1, <2>4 DEF Handled
  <2>6. LettersRight' /\ FlagsRight'
    BY <2>1, <2>5 DEF LettersRight, FlagsRight
  <2>7. \A l : SetAt(l)' = {}
    <3>1. \A i \in OptionsOf(argv') : ~HandledWhole(i)'
      BY <2>5 DEF HandledWhole
    <3> QED
      BY <3>1 DEF SetAt
  <2>8. FieldsRight'
    BY <2>1, <2>7 DEF FieldsRight, FieldRight, LastSetting
  <2>9. OperandsRight'
    <3>1. \A i \in OperandsOf(a) : ~(i < 1)
      BY <2>1, <2>2 DEF OperandsOf
    <3>2. OperandsRead' = {}
      BY <2>1, <3>1 DEF OperandsRead
    <3> QED
      BY <2>1, <3>2 DEF OperandsRight
  <2>10. ScanOK'
    BY <2>1, <2>3, <2>6, <2>8, <2>9 DEF ScanOK, Untouched
  <2> QED
    BY <1>1, <1>2, <2>1, <2>10 DEF ArgsInv
<1>4. CASE NextWord
  <2>1. pc = "scan" /\ pc' = "scan"
    BY <1>4 DEF NextWord
  <2>2. ScanOK'
    BY <1>1, <1>4, <2>1, NextWordScan DEF ArgsInv
  <2> QED
    BY <1>1, <1>2, <2>1, <2>2 DEF ArgsInv
<1>5. CASE Option
  <2>1. pc = "scan" /\ ScanOK /\ UNCHANGED argv
    BY <1>5 DEF Option, ArgsInv
  <2>2. CASE ScanOK' /\ pc' = "scan"
    BY <1>1, <1>2, <2>2 DEF ArgsInv
  <2>3. CASE RejectOption /\ ~WellFormed(argv)
    <3>1. /\ UNCHANGED options /\ stdout' = {}
          /\ \/ status' = ERR_INPUT /\ "diagnostic" \in stderr'
             \/ status' = ERR_IO
          /\ pc' = IF flags # {} THEN "explain" ELSE "done"
      BY <2>1, <2>3 DEF RejectOption, Report, Return, ScanOK, Untouched, OK, ERR_INPUT, ERR_IO
    <3>2. pc' = "explain" => ExplainOK'
      BY <2>1, <2>3, <3>1 DEF ExplainOK, options, ERR_INPUT, ERR_IO
    <3>3. pc' \in {"explain", "done"} /\ status' # OK
      BY <3>1 DEF OK, ERR_INPUT, ERR_IO
    <3>4. ~AsksToSeal(argv)
      BY <2>3 DEF AsksToSeal
    <3>5. Promises'
      BY <2>1, <2>3, <3>1, <3>3, <3>4 DEF Promises, DecidedByArgv, ReadAsWritten,
         HelpOnlyWhenWellFormed, RefusalExplained, OK, ERR_INPUT, ERR_IO
    <3> QED
      BY <1>1, <3>2, <3>3, <3>5 DEF ArgsInv
  <2> QED
    BY <1>1, <1>5, <2>1, <2>2, <2>3, OptionScan
<1>6. CASE Check
  <2>1. ScanOK
    BY <1>6 DEF Check, ArgsInv
  <2> QED
    BY <1>1, <1>6, <2>1, CheckLeaves DEF ArgsInv
<1>7. CASE Usage
  <2>1. UsageOK /\ UNCHANGED <<argv, flags>>
    BY <1>7 DEF Usage, ArgsInv, options
  <2>2. /\ pc' = "done" /\ stdout' = {} /\ status' # OK
        /\ status' = ERR_INPUT => "diagnostic" \in stderr'
        /\ status' \in {ERR_INPUT, ERR_IO}
    BY <1>7, <2>1 DEF Usage, Return, UsageOK, OK, ERR_INPUT, ERR_IO
  <2>3. Promises'
    BY <2>1, <2>2 DEF Promises, DecidedByArgv, ReadAsWritten, HelpOnlyWhenWellFormed,
       RefusalExplained, UsageOK
  <2> QED
    BY <1>1, <2>2, <2>3 DEF ArgsInv
<1>8. CASE Explain
  <2>1. ExplainOK /\ UNCHANGED <<argv, flags, status, stdout>>
    BY <1>8 DEF Explain, ArgsInv, options
  <2>2. pc' = "done" /\ status' # OK /\ stderr \subseteq stderr'
    BY <1>8, <2>1 DEF Explain, ExplainOK, OK, ERR_INPUT, ERR_IO
  <2>3. status = ERR_INPUT => ~AsksToSeal(argv)
    BY <2>1 DEF ExplainOK, AsksToSeal
  <2>4. Promises'
    BY <2>1, <2>2, <2>3 DEF Promises, DecidedByArgv, ReadAsWritten, HelpOnlyWhenWellFormed,
       RefusalExplained, ExplainOK
  <2> QED
    BY <1>1, <2>2, <2>4 DEF ArgsInv
<1>9. CASE UNCHANGED argsVars
  <2>1. ScanOK <=> ScanOK'
    BY <1>9 DEF argsVars, getopt, options, streams, ScanOK, PositionOK, Fresh, Past, LettersRight,
       Handled, FlagsRight, FieldsRight, FieldRight, SetAt, HandledWhole, OperandsRight,
       OperandsRead, Untouched
  <2>2. (UsageOK <=> UsageOK') /\ (ExplainOK <=> ExplainOK')
    BY <1>9 DEF argsVars, getopt, options, streams, UsageOK, ExplainOK
  <2>3. Promises <=> Promises'
    BY <1>9 DEF argsVars, getopt, options, streams, Promises, DecidedByArgv, ReadAsWritten,
       HelpOnlyWhenWellFormed, RefusalExplained
  <2>4. pc' = pc
    BY <1>9 DEF argsVars
  <2> QED
    BY <1>1, <2>1, <2>2, <2>3, <2>4 DEF ArgsInv
<1> QED
  BY <1>3, <1>4, <1>5, <1>6, <1>7, <1>8, <1>9 DEF Next, FirstCall, LaterCall

\* The invariant holds before the first call.
LEMMA ArgsStart == Init => ArgsInv
<1> SUFFICES ASSUME Init PROVE ArgsInv
  OBVIOUS
<1>1. TypeOK
  <2>1. NoWord \in WordType
    BY NoWordType
  <2>2. /\ <<>> \in Seq(WordType) /\ <<>> \in Seq(Letters)
    OBVIOUS
  <2> QED
    BY <2>1, <2>2 DEF Init, TypeOK, Letters, Modes, Formats, Status
<1> QED
  BY <1>1 DEF Init, ArgsInv, Promises, DecidedByArgv, ReadAsWritten, HelpOnlyWhenWellFormed,
     RefusalExplained

\* The invariant of the parse, for every argument vector.
THEOREM ArgsInvariant == ArgsSpec => []ArgsInv
  BY ArgsStart, ArgsStep, PTL DEF ArgsSpec

\* Every variable has its type, and getopt never points past the terminating
\* NULL, whatever the vectors.
THEOREM ArgsTypeCorrect == ArgsSpec => []TypeOK
<1>1. ArgsInv => TypeOK
  BY DEF ArgsInv
<1> QED
  BY <1>1, ArgsInvariant, PTL

\* Whether a call seals, helps or is refused depends on its own vector alone,
\* in a process of any number of calls with vectors of any length.
THEOREM CallDecidedByArgv == ArgsSpec => []DecidedByArgv
<1>1. ArgsInv => DecidedByArgv
  BY DEF ArgsInv, Promises
<1> QED
  BY <1>1, ArgsInvariant, PTL

\* A call that goes on has read each setting off the vector as it is written.
THEOREM SettingsReadAsWritten == ArgsSpec => []ReadAsWritten
<1>1. ArgsInv => ReadAsWritten
  BY DEF ArgsInv, Promises
<1> QED
  BY <1>1, ArgsInvariant, PTL

\* Help and version are shown only for a vector with no wrong option in it.
THEOREM HelpHidesNoError == ArgsSpec => []HelpOnlyWhenWellFormed
<1>1. ArgsInv => HelpOnlyWhenWellFormed
  BY DEF ArgsInv, Promises
<1> QED
  BY <1>1, ArgsInvariant, PTL

\* A refusal is explained on stderr; a call that goes on leaves it empty.
THEOREM RefusalsExplained == ArgsSpec => []RefusalExplained
<1>1. ArgsInv => RefusalExplained
  BY DEF ArgsInv, Promises
<1> QED
  BY <1>1, ArgsInvariant, PTL
=============================================================================
