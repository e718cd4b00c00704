-------------------------------- MODULE Args --------------------------------
(***************************************************************************)
(* src/cli/args.c: one process parsing argument vectors, call after call,  *)
(* with getopt_long, whose state outlives a call.  What salt.1 and the     *)
(* GNU library promise about an argument vector is stated apart, without   *)
(* a loop, and the parse is checked against it.                            *)
(*                                                                         *)
(* A word of an argument vector is what strcmp sees of it (text), the      *)
(* option letters getopt finds in it, none for an operand, whether it was  *)
(* written as a long option, and a value in the same word ("--key=v",      *)
(* "-kv").  A long option is the one letter it stands for; a name that is  *)
(* unknown or ambiguous is a letter that is unknown.  POSIXLY_CORRECT is   *)
(* not set: getopt_long permutes the operands behind the options.          *)
(***************************************************************************)
EXTENDS SaltStatus, Sequences, FiniteSetsExt

CONSTANTS Argvs,  \* the argument vectors of the first call, argv[0] left out
          Later   \* those of the calls after it

Absent == "absent"
Valued == {"k", "i", "o", "f"}
Flags  == {"h", "V"}
Modes   == {"text", "json"}
Formats == {"auto", "base64", "json"}
Texts  == {"-", "", "--", "overlong", "word"} \cup Modes \cup Formats

\* In one word only the last option can take a value, the rest of the word; a
\* long option is alone in its word.
WordType == {w \in [text : Texts, letters : Seq(Valued \cup Flags \cup {"?"}),
                    long : BOOLEAN, value : Texts \cup {Absent}] :
                /\ \A i \in 1 .. Len(w.letters) - 1 : w.letters[i] \notin Valued
                /\ w.long => Len(w.letters) = 1}

ASSUME ArgsAssumption == \A a \in Argvs \cup Later : a \in Seq(WordType)

VARIABLES pc,         \* control of the parse in progress
          argv,       \* the words it is given
          optind,     \* getopt's index of the next word
          nextchar,   \* the letters getopt has left of the word in hand
          inHand,     \* that word
          operands,   \* the words permuted behind the options, in order
          key, keyId, mode, format,   \* the state.*_option fields
          flags,      \* state.show_help, state.show_version
          plaintext,  \* state.plaintext_arg
          status,     \* what the call returns
          stdout,     \* what it put on stdout
          stderr,     \* what it put on stderr
          error       \* state.error has a text

getopt  == <<optind, nextchar, inHand, operands>>
options == <<key, keyId, mode, format, flags>>
streams == <<stdout, stderr, error>>
argsVars == <<pc, argv, getopt, options, plaintext, status, streams>>

NoWord == [text |-> "", letters |-> <<>>, long |-> FALSE, value |-> Absent]

Init == /\ pc = "idle" /\ argv = <<>>
        /\ optind = 1 /\ nextchar = <<>> /\ inHand = NoWord /\ operands = <<>>
        /\ key = Absent /\ keyId = Absent /\ mode = "text" /\ format = "auto"
        /\ flags = {} /\ plaintext = Absent
        /\ status = ERR_INPUT /\ stdout = {} /\ stderr = {} /\ error = FALSE

-----------------------------------------------------------------------------
(* Leaving the parse.                                                        *)

Return(s) == status' = s /\ pc' = IF flags # {} /\ s # OK THEN "explain" ELSE "done"

\* salt_cli_report_stream_status, which leaves state.error empty when it works.
Report(text) == \/ stderr' = stderr \cup {text} /\ Return(ERR_INPUT) /\ UNCHANGED <<error, stdout>>
                \/ Return(ERR_IO) /\ error' = TRUE /\ UNCHANGED <<stderr, stdout>>

\* A fault to detect: the usage alone.
ReportUsageOnly == pc' = "usage" /\ UNCHANGED <<status, streams>>

\* A diagnostic and the usage after it.
ReportUsage == \/ stderr' = stderr \cup {"diagnostic"} /\ pc' = "usage"
                  /\ UNCHANGED <<status, error, stdout>>
               \/ Return(ERR_IO) /\ error' = TRUE /\ UNCHANGED <<stderr, stdout>>

\* print_usage and print_version on stdout.
Show(text) == \/ stdout' = {text} /\ Return(OK) /\ UNCHANGED <<stderr, error>>
              \/ Return(ERR_IO) /\ error' = TRUE /\ UNCHANGED <<stdout, stderr>>

-----------------------------------------------------------------------------
(* One call.                                                                 *)

\* A fault to detect: optind = 1 keeps the rest of a word of the last call.
ResetIndexOnly == optind' = 1 /\ operands' = <<>> /\ UNCHANGED <<nextchar, inHand>>

\* optind = 0 makes getopt_long start afresh.
ResetGetopt == optind' = 1 /\ operands' = <<>> /\ nextchar' = <<>> /\ inHand' = NoWord

Enter(a) ==
    /\ argv' = a /\ pc' = "scan"
    /\ key' = Absent /\ keyId' = Absent /\ mode' = "text" /\ format' = "auto"
    /\ flags' = {} /\ plaintext' = Absent
    /\ status' = ERR_INPUT /\ stdout' = {} /\ stderr' = {} /\ error' = FALSE
    /\ ResetGetopt

FirstCall == pc = "idle" /\ \E a \in Argvs : Enter(a)
LaterCall == pc = "done" /\ \E a \in Later : Enter(a)

\* getopt_long moves on to the next word; "--" makes operands of all others.
NextWord ==
    /\ pc = "scan" /\ nextchar = <<>> /\ optind <= Len(argv)
    /\ LET w == argv[optind] IN
          \/ /\ w.letters # <<>>
             /\ nextchar' = w.letters /\ inHand' = w /\ optind' = optind + 1
             /\ UNCHANGED operands
          \/ /\ w.letters = <<>> /\ w.text = "--"
             /\ operands' = operands \o SubSeq(argv, optind + 1, Len(argv))
             /\ optind' = Len(argv) + 1
             /\ UNCHANGED <<nextchar, inHand>>
          \/ /\ w.letters = <<>> /\ w.text # "--"
             /\ operands' = Append(operands, w) /\ optind' = optind + 1
             /\ UNCHANGED <<nextchar, inHand>>
    /\ UNCHANGED <<pc, argv, options, plaintext, status, streams>>

\* A fault to detect: the first of several settings counts.
StoreOnce(l, v) ==
    /\ key' = IF l = "k" /\ key = Absent THEN v ELSE key
    /\ keyId' = IF l = "i" /\ keyId = Absent THEN v ELSE keyId
    /\ mode' = IF l = "o" /\ mode = "text" THEN v ELSE mode
    /\ format' = IF l = "f" /\ format = "auto" THEN v ELSE format
    /\ UNCHANGED <<pc, flags, status, streams>>

\* salt_cli_handle_option, for an option with a value.
Store(l, v) ==
    /\ CASE l = "k" -> key' = v /\ UNCHANGED <<keyId, mode, format>>
         [] l = "i" -> keyId' = v /\ UNCHANGED <<key, mode, format>>
         [] l = "o" -> mode' = v /\ UNCHANGED <<key, keyId, format>>
         [] l = "f" -> format' = v /\ UNCHANGED <<key, keyId, mode>>
    /\ UNCHANGED <<pc, flags, status, streams>>

RejectOption == Report("diagnostic") /\ UNCHANGED options

\* A fault to detect: the values of --output and --key-format are not checked.
HandleUnvalidated(l, v) == Store(l, v)

HandleValued(l, v) == IF (l = "o" /\ v \notin Modes) \/ (l = "f" /\ v \notin Formats)
                      THEN RejectOption ELSE Store(l, v)

\* A fault to detect: --help is answered before the rest is looked at.
HandleFlagAtOnce(l) ==
    /\ flags' = flags \cup {l}
    /\ IF l = "h" THEN Show("usage") ELSE UNCHANGED <<pc, status, streams>>
    /\ UNCHANGED <<key, keyId, mode, format>>

HandleFlag(l) == /\ flags' = flags \cup {l}
                 /\ UNCHANGED <<pc, key, keyId, mode, format, status, streams>>

\* getopt_long returns the next option, ':' or '?', and the loop handles it.
Option ==
    /\ pc = "scan" /\ nextchar # <<>>
    /\ nextchar' = Tail(nextchar)
    /\ LET l == Head(nextchar) IN
          \/ /\ l \in Valued /\ inHand.value # Absent
             /\ HandleValued(l, inHand.value) /\ UNCHANGED optind
          \/ /\ l \in Valued /\ inHand.value = Absent /\ optind <= Len(argv)
             /\ HandleValued(l, argv[optind].text) /\ optind' = optind + 1
          \/ /\ l \in Flags /\ ~(inHand.long /\ inHand.value # Absent)
             /\ HandleFlag(l) /\ UNCHANGED optind
          \/ /\ \/ l \notin Valued \cup Flags
                \/ l \in Flags /\ inHand.long /\ inHand.value # Absent
                \/ l \in Valued /\ inHand.value = Absent /\ optind > Len(argv)
             /\ RejectOption /\ UNCHANGED optind
    /\ UNCHANGED <<argv, inHand, operands, plaintext>>

\* After the loop: help, version, the checks of the options and the operands.
FromStdin(t) == t \in {Absent, "-"}

FirstOperand == IF Len(operands) = 0 THEN Absent ELSE operands[1].text

Check ==
    /\ pc = "scan" /\ nextchar = <<>> /\ optind > Len(argv)
    /\ LET optionsFail == key = "" \/ keyId = "overlong"
           bothStdin   == key = "-" /\ FromStdin(FirstOperand)
       IN /\ plaintext' = IF flags # {} \/ key = Absent \/ optionsFail THEN Absent ELSE FirstOperand
          /\ \/ "h" \in flags /\ Show("usage")
             \/ flags = {"V"} /\ Show("version")
             \/ flags = {} /\ key = Absent /\ ReportUsage
             \/ flags = {} /\ key # Absent /\ optionsFail /\ Report("diagnostic")
             \/ /\ flags = {} /\ key # Absent /\ ~optionsFail
                /\ \/ Len(operands) > 1 /\ ReportUsage
                   \/ Len(operands) <= 1 /\ bothStdin /\ Report("diagnostic")
                   \/ /\ Len(operands) <= 1 /\ ~bothStdin
                      /\ Return(OK) /\ UNCHANGED streams
    /\ UNCHANGED <<argv, getopt, options>>

\* The usage that follows two of the diagnostics.
Usage ==
    /\ pc = "usage"
    /\ \/ stderr' = stderr \cup {"usage"} /\ Return(ERR_INPUT) /\ UNCHANGED <<error, stdout>>
       \/ Return(ERR_IO) /\ error' = TRUE /\ UNCHANGED <<stderr, stdout>>
    /\ UNCHANGED <<argv, getopt, options, plaintext>>

\* main.c: a parse that saw --help or --version and failed is explained with
\* state.error; whether that can be written does not matter.
Explain ==
    /\ pc = "explain" /\ pc' = "done"
    /\ \/ stderr' = stderr \cup {IF error THEN "diagnostic" ELSE "blank"}
       \/ UNCHANGED stderr
    /\ UNCHANGED <<argv, getopt, options, plaintext, status, stdout, error>>

Next == \/ FirstCall \/ LaterCall
        \/ NextWord \/ Option \/ Check \/ Usage \/ Explain

ArgsSpec == Init /\ [][Next]_argsVars

-----------------------------------------------------------------------------
(* What an argument vector says, word by word.                               *)

LastOf(w) == w.letters[Len(w.letters)]
TakesNext(w) == w.letters # <<>> /\ LastOf(w) \in Valued /\ w.value = Absent

\* What each word is: an option, the value of the option before it, the end of
\* the options, or an operand.
Roles(a) ==
    LET role[i \in 0 .. Len(a)] ==
            IF i = 0 THEN "start"
            ELSE IF role[i - 1] \in {"end", "after"} THEN "after"
            ELSE IF role[i - 1] = "option" /\ TakesNext(a[i - 1]) THEN "value"
            ELSE IF a[i].letters # <<>> THEN "option"
            ELSE IF a[i].text = "--" THEN "end" ELSE "operand"
    IN role

OptionsOf(a)  == {i \in 1 .. Len(a) : Roles(a)[i] = "option"}
OperandsOf(a) == {i \in 1 .. Len(a) : Roles(a)[i] \in {"operand", "after"}}

HasValue(a, i) == a[i].value # Absent \/ i < Len(a)
ValueAt(a, i) == IF a[i].value # Absent THEN a[i].value ELSE a[i + 1].text

WellFormed(a) ==
    \A i \in OptionsOf(a) :
        /\ \A j \in 1 .. Len(a[i].letters) : a[i].letters[j] # "?"
        /\ LastOf(a[i]) \in Flags /\ a[i].long => a[i].value = Absent
        /\ LastOf(a[i]) \in Valued => HasValue(a, i)
        /\ LastOf(a[i]) = "o" => ValueAt(a, i) \in Modes
        /\ LastOf(a[i]) = "f" => ValueAt(a, i) \in Formats

FlagsOf(a) == {l \in Flags : \E i \in OptionsOf(a) : \E j \in 1 .. Len(a[i].letters) :
                                 a[i].letters[j] = l}

\* The last of several settings counts.
Setting(a, l, default) ==
    LET at == {i \in OptionsOf(a) : LastOf(a[i]) = l}
    IN IF at = {} THEN default ELSE ValueAt(a, Max(at))

OperandOf(a) == IF OperandsOf(a) = {} THEN Absent ELSE a[Min(OperandsOf(a))].text

AsksToSeal(a) ==
    /\ WellFormed(a) /\ FlagsOf(a) = {}
    /\ Setting(a, "k", "") # "" /\ Setting(a, "i", "") # "overlong"
    /\ Cardinality(OperandsOf(a)) <= 1
    /\ ~(Setting(a, "k", "") = "-" /\ FromStdin(OperandOf(a)))

-----------------------------------------------------------------------------
(* Properties.                                                               *)

\* Every variable has its type, and getopt never points past the terminating
\* NULL of the vector.
TypeOK == /\ pc \in {"idle", "scan", "usage", "explain", "done"}
          /\ argv \in Seq(WordType)
          /\ pc = "scan" => optind \in 1 .. Len(argv) + 1
          /\ operands \in Seq(WordType) /\ nextchar \in Seq(Valued \cup Flags \cup {"?"})
          /\ inHand \in WordType
          /\ key \in Texts \cup {Absent} /\ keyId \in Texts \cup {Absent}
          /\ mode \in Modes /\ format \in Formats /\ flags \subseteq Flags
          /\ plaintext \in Texts \cup {Absent}
          /\ status \in Status /\ error \in BOOLEAN
          /\ stdout \in SUBSET {"usage", "version"}
          /\ stderr \in SUBSET {"diagnostic", "usage", "blank"}

\* Whether a call goes on to seal, shows the help or is refused depends on its
\* own argument vector alone, whatever an earlier call left in getopt and
\* wherever that one was given up: in particular the key and the plaintext are
\* never both read from stdin, which SaltCli takes for granted.
DecidedByArgv ==
    pc = "done" =>
        /\ status = OK => AsksToSeal(argv) \/ (WellFormed(argv) /\ FlagsOf(argv) # {})
        /\ status = ERR_INPUT => ~AsksToSeal(argv) /\ (WellFormed(argv) => FlagsOf(argv) = {})
        /\ status \in {OK, ERR_INPUT, ERR_IO}

\* A call that goes on has read each setting off the vector: a word that an
\* option takes for its value is neither option nor operand, "--" ends the
\* options, operands may stand anywhere and the last setting counts.
ReadAsWritten ==
    pc = "done" /\ status = OK /\ flags = {} =>
        /\ key = Setting(argv, "k", Absent) /\ keyId = Setting(argv, "i", Absent)
        /\ mode = Setting(argv, "o", "text") /\ format = Setting(argv, "f", "auto")
        /\ plaintext = OperandOf(argv)

\* Help and version go to stdout alone, and only when every option of the
\* vector is right: no error is hidden behind --help, before it or after.
HelpOnlyWhenWellFormed ==
    pc = "done" =>
        /\ stdout # {} => status = OK /\ WellFormed(argv) /\ stderr = {}
        /\ "usage" \in stdout <=> status = OK /\ "h" \in flags
        /\ "version" \in stdout <=> status = OK /\ flags = {"V"}

\* A refusal is explained on stderr, and a call that goes on leaves stderr
\* empty for what follows.
RefusalExplained ==
    pc = "done" => /\ status = ERR_INPUT => "diagnostic" \in stderr
                   /\ status = OK => stderr = {}
=============================================================================
