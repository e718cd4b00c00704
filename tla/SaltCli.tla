------------------------------ MODULE SaltCli ------------------------------
(***************************************************************************)
(* One process running the salt CLI: salt_cli_run_with_streams_internal    *)
(* (src/main.c) with the signal handling of src/cli/signal.c, the input    *)
(* loading of src/cli/input.c, the output of src/cli/prepare.c, output.c   *)
(* and stream.c, and the state of src/cli/state.c, while signals arrive    *)
(* and a producer feeds stdin.                                             *)
(*                                                                         *)
(* A request stands for the arguments of one call; its contents are        *)
(* reduced to the classes the control flow tells apart.  The arguments are *)
(* parsed by module Args; here "args" is what the parse comes to.          *)
(***************************************************************************)
EXTENDS StreamRead, OutputLen

CONSTANTS KeyMax,      \* SALT_MAX_KEY_INPUT_LEN
          TextMax,     \* SALT_GITHUB_SECRET_MAX_VALUE_LEN
          Embedded,    \* built with SALT_NO_MAIN, as the tests are
          KeyDocs,     \* the classes of key input a producer may send
          Requests,    \* the calls that may be made
          MaxCalls,    \* calls per process (bound of the model)
          MaxSignals   \* signals per process (bound of the model)

KeyIds == {"none", "empty", "utf8", "badUtf8"}

\* What a key input is: whitespace only, rejected by the parser, or a base64
\* string with the key_id found beside it, which decodes to a key or not.
KeyDocType == [form : {"blank", "malformed", "key"}, id : KeyIds, decodes : BOOLEAN]

RequestType ==
    [args     : {"ok", "help", "rejected", "badShape"},
     manage   : BOOLEAN,                \* manage_signals
     keySrc   : {"argv", "stdin"},
     keyLen   : Nat,                    \* of the --key value, when it is the key
     key      : KeyDocType,             \* the class of that value
     textSrc  : {"argv", "stdin"},
     textLen  : Nat,                    \* of the positional argument
     keyIdOpt : KeyIds,                 \* --key-id
     mode     : {"text", "json"},       \* --output
     sigpipe  : {"default", "ignore"}]  \* SIGPIPE as inherited

ASSUME CliAssumption ==
    /\ KeyMax \in Nat \ {0} /\ TextMax \in Nat \ {0}
    /\ Embedded \in BOOLEAN
    /\ KeyDocs \subseteq KeyDocType
    /\ Requests \subseteq RequestType
    /\ \A r \in Requests : r.args = "ok" => ~(r.keySrc = "stdin" /\ r.textSrc = "stdin")
    /\ ~Embedded => \A r \in Requests : r.manage
    /\ MaxCalls \in Nat /\ MaxSignals \in Nat

VARIABLES pc,          \* control of the call in progress
          req,         \* its arguments
          rc,          \* the status it is going to return
          key,         \* class of the key input being loaded
          keyLen,      \* bytes of key input to copy
          msgLen,      \* state.message_len
          cap,         \* the lengths state.*_cap remembers for the release
          argvText,    \* the plaintext in the process's argument vector
          out,         \* how much of its output the call has put on stdout
          oerr,        \* the error indicator of out_stream, which nothing clears
          diag,        \* a diagnostic reached stderr
          caught,      \* phases of the call in which a signal was handled
          calls,       \* calls made so far
          delivered,   \* signals delivered so far
          inherited,   \* dispositions the process was started with
          ioBefore,    \* an earlier call has returned SALT_ERR_IO
          hardened     \* main has hardened the process

callVars == <<req, key, keyLen, msgLen, cap, argvText>>
cliVars  == <<pc, rc, callVars, out, oerr, diag, caught, calls, delivered, inherited,
              ioBefore, hardened>>
vars     == <<streamVars, signalVars, memoryVars, cliVars>>

Capped == {"trimmed_key_input", "argv_plaintext_copy", "output"}

Pcs == {"idle", "harden", "init", "installInt", "installTerm", "rollback", "reset",
        "args", "help", "loadKey", "readKey", "copyKey", "parseKey", "checkKey",
        "loadText", "readText", "copyText", "checkText", "prepare", "seal",
        "checkSealed", "emit", "report", "restoreInt", "restoreTerm", "scrub",
        "returned", "killed"}

Running == pc \notin {"idle", "returned", "killed"}

\* execve resets handlers to SIG_DFL: only an embedding program has its own.
Init == /\ StreamInit /\ SignalsInit /\ MemoryInit
        /\ ~Embedded => \A s \in Sigs : disposition[s] # "caller"
        /\ pc = "idle"
        /\ req \in Requests
        /\ rc = OK
        /\ key = req.key /\ keyLen = 0 /\ msgLen = 0
        /\ cap = [b \in Capped |-> 0]
        /\ argvText = "absent"
        /\ out = "none" /\ oerr = FALSE /\ diag = FALSE /\ caught = {}
        /\ calls = 0 /\ delivered = 0
        /\ inherited = disposition
        /\ ioBefore = FALSE /\ hardened = FALSE

-----------------------------------------------------------------------------
(* Control. *)

Goto(label) == pc' = label /\ UNCHANGED rc

\* A fault to detect: a cleanup that keeps the handlers.
CleanupWithoutRestore(r) == "scrub"

\* Where "goto cleanup" leads.
Cleanup(r) == IF r.manage THEN "restoreInt" ELSE "scrub"

\* Leave the call with a status a diagnostic on stderr has to explain.
Fail(status) == pc' = "report" /\ rc' = status

\* What a step of the program leaves alone besides the environment.
quiet == <<calls, delivered, inherited, caught, ioBefore, hardened>>

\* A call begins: main starts, or an embedding program calls again, with the
\* streams of the call before.
Call == /\ pc \in {"idle", "returned"} /\ calls < MaxCalls
        /\ calls' = calls + 1
        /\ req' \in Requests
        /\ pc' = IF Embedded THEN "init" ELSE "harden"
        /\ rc' = ERR_INPUT
        /\ key' = req'.key /\ keyLen' = req'.keyLen /\ msgLen' = 0
        /\ cap' = [b \in Capped |-> 0]
        /\ argvText' = IF req'.textSrc = "argv" THEN "present" ELSE "absent"
        /\ out' = "none" /\ diag' = FALSE /\ caught' = {}
        /\ ioBefore' = (ioBefore \/ rc = ERR_IO) /\ hardened' = FALSE
        /\ UNCHANGED <<streamVars, signalVars, memoryVars, oerr, delivered, inherited>>

\* main: setrlimit and prctl; a failure ends the process at once.
Harden == /\ pc = "harden"
          /\ \/ Goto("init") /\ hardened' = TRUE /\ UNCHANGED diag
             \/ /\ pc' = "returned" /\ rc' = ERR_INTERNAL
                /\ diag' \in BOOLEAN /\ UNCHANGED hardened
          /\ UNCHANGED <<streamVars, signalVars, memoryVars, callVars, out, oerr, calls,
                         delivered, inherited, caught, ioBefore>>

\* The argv and stream checks, then salt_cli_state_init.
StateInit ==
    /\ pc = "init"
    /\ IF req.args = "badShape"
       THEN Goto("returned") /\ UNCHANGED memoryVars
       ELSE /\ Goto(IF req.manage THEN "installInt" ELSE "reset")
            /\ Alloc("fixed", 1)
    /\ UNCHANGED <<streamVars, signalVars, callVars, out, oerr, diag, quiet>>

-----------------------------------------------------------------------------
(* salt_cli_ensure_signal_handlers and salt_cli_reset_interrupted. *)

\* A fault to detect: leaving without the diagnostic.
InstallSigintSilent ==
    /\ pc = "installInt"
    /\ \/ InstallHandler("SIGINT") /\ Goto("installTerm")
       \/ pc' = Cleanup(req) /\ rc' = ERR_INTERNAL /\ UNCHANGED signalVars
    /\ UNCHANGED <<streamVars, memoryVars, callVars, out, oerr, diag, quiet>>

InstallSigint ==
    /\ pc = "installInt"
    /\ \/ InstallHandler("SIGINT") /\ Goto("installTerm")
       \/ Fail(ERR_INTERNAL) /\ UNCHANGED signalVars
    /\ UNCHANGED <<streamVars, memoryVars, callVars, out, oerr, diag, quiet>>

\* A fault to detect: going on with only one handler.
InstallSigtermUnchecked ==
    /\ pc = "installTerm"
    /\ \/ InstallHandler("SIGTERM") /\ Goto("reset")
       \/ Goto("reset") /\ UNCHANGED signalVars
    /\ UNCHANGED <<streamVars, memoryVars, callVars, out, oerr, diag, quiet>>

InstallSigterm ==
    /\ pc = "installTerm"
    /\ \/ InstallHandler("SIGTERM") /\ Goto("reset")
       \/ Goto("rollback") /\ UNCHANGED signalVars
    /\ UNCHANGED <<streamVars, memoryVars, callVars, out, oerr, diag, quiet>>

RollBack == /\ pc = "rollback"
            /\ RollBackSigint
            /\ Fail(ERR_INTERNAL)
            /\ UNCHANGED <<streamVars, memoryVars, callVars, out, oerr, diag, quiet>>

Reset == /\ pc = "reset"
         /\ ResetInterrupted
         /\ Goto("args")
         /\ UNCHANGED <<streamVars, memoryVars, callVars, out, oerr, diag, quiet>>

-----------------------------------------------------------------------------
(* Arguments and help. *)

ParseArgs ==
    /\ pc = "args"
    /\ \/ req.args = "ok" /\ Goto("loadKey")
       \/ req.args = "help" /\ Goto("help")
       \/ req.args = "rejected" /\ Fail(ERR_INPUT)
    /\ UNCHANGED <<streamVars, signalVars, memoryVars, callVars, out, oerr, diag, quiet>>

\* Only what this call's own write and flush return decides.
WriteHelp ==
    /\ pc = "help"
    /\ \/ out' = "full" /\ rc' = OK /\ pc' = Cleanup(req) /\ UNCHANGED oerr
       \/ out' \in {"none", "partial"} /\ Fail(ERR_IO) /\ oerr' = TRUE
    /\ UNCHANGED <<streamVars, signalVars, memoryVars, callVars, diag, quiet>>

-----------------------------------------------------------------------------
(* salt_cli_input_load_key_input. *)

LoadKey ==
    /\ pc = "loadKey"
    /\ IF req.keySrc = "stdin" THEN StartRead(KeyMax) /\ Goto("readKey")
                               ELSE Goto("copyKey") /\ UNCHANGED streamVars
    /\ UNCHANGED <<signalVars, memoryVars, callVars, out, oerr, diag, quiet>>

\* Take the outcome of a read: on success the buffer becomes dest.
ReadDone(dest) ==
    /\ rpc = "done" /\ rpc' = "idle"
    /\ IF result = OK THEN HandOver("reading", dest) ELSE UNCHANGED memoryVars
    /\ UNCHANGED <<pipeVars, max, got, from, result>>

\* Stdin key input is trimmed first, and refused when nothing is left.
TakeKey ==
    /\ pc = "readKey"
    /\ ReadDone("stdin_key")
    /\ \/ result # OK /\ Fail(result) /\ UNCHANGED <<key, keyLen>>
       \/ /\ result = OK
          /\ key' \in {k \in KeyDocs : got = 0 => k.form = "blank"}
          /\ IF key'.form = "blank"
             THEN Fail(ERR_INPUT) /\ UNCHANGED keyLen
             ELSE Goto("copyKey") /\ keyLen' \in 1 .. got
    /\ UNCHANGED <<signalVars, req, msgLen, cap, argvText, out, oerr, diag, quiet>>

CopyKey ==
    /\ pc = "copyKey"
    /\ \/ /\ keyLen > KeyMax
          /\ Fail(ERR_INPUT) /\ UNCHANGED <<memoryVars, cap>>
       \/ /\ keyLen <= KeyMax
          /\ Fail(ERR_INTERNAL) /\ UNCHANGED <<memoryVars, cap>>
       \/ /\ keyLen <= KeyMax
          /\ Alloc("trimmed_key_input", keyLen + 1)
          /\ cap' = [cap EXCEPT !["trimmed_key_input"] = keyLen + 1]
          /\ Goto("parseKey")
    /\ UNCHANGED <<streamVars, signalVars, req, key, keyLen, msgLen, argvText,
                   out, oerr, diag, quiet>>

ParseKey ==
    /\ pc = "parseKey"
    /\ IF key.form = "key" THEN Goto("checkKey") ELSE Fail(ERR_INPUT)
    /\ UNCHANGED <<streamVars, signalVars, memoryVars, callVars, out, oerr, diag, quiet>>

CheckKey ==
    /\ pc = "checkKey"
    /\ IF interrupted THEN Fail(ERR_SIGNAL) ELSE Goto("loadText")
    /\ UNCHANGED <<streamVars, signalVars, memoryVars, callVars, out, oerr, diag, quiet>>

-----------------------------------------------------------------------------
(* salt_cli_input_load_plaintext. *)

LoadText ==
    /\ pc = "loadText"
    /\ IF req.textSrc = "stdin" THEN StartRead(TextMax) /\ Goto("readText")
                                ELSE Goto("copyText") /\ UNCHANGED streamVars
    /\ UNCHANGED <<signalVars, memoryVars, callVars, out, oerr, diag, quiet>>

TakeText ==
    /\ pc = "readText"
    /\ ReadDone("stdin_plaintext")
    /\ IF result = OK THEN Goto("checkText") /\ msgLen' = got
                      ELSE Fail(result) /\ UNCHANGED msgLen
    /\ UNCHANGED <<signalVars, req, key, keyLen, cap, argvText, out, oerr, diag, quiet>>

\* The program that is installed wipes the argument it has copied.
CopyText ==
    /\ pc = "copyText"
    /\ \/ /\ req.textLen > TextMax
          /\ Fail(ERR_INPUT) /\ UNCHANGED <<memoryVars, cap, msgLen, argvText>>
       \/ /\ req.textLen <= TextMax
          /\ cap' = [cap EXCEPT !["argv_plaintext_copy"] = req.textLen + 1]
          /\ \/ Fail(ERR_INTERNAL) /\ UNCHANGED <<memoryVars, msgLen, argvText>>
             \/ /\ Alloc("argv_plaintext_copy", req.textLen + 1)
                /\ msgLen' = req.textLen
                /\ argvText' = IF Embedded THEN argvText ELSE "zeroed"
                /\ Goto("checkText")
    /\ UNCHANGED <<streamVars, signalVars, req, key, keyLen, out, oerr, diag, quiet>>

CheckText ==
    /\ pc = "checkText"
    /\ \/ interrupted /\ Fail(ERR_SIGNAL)
       \/ ~interrupted /\ msgLen = 0 /\ Fail(ERR_INPUT)
       \/ ~interrupted /\ msgLen # 0 /\ Goto("prepare")
    /\ UNCHANGED <<streamVars, signalVars, memoryVars, callVars, out, oerr, diag, quiet>>

-----------------------------------------------------------------------------
(* salt_cli_prepare_output.  The tests for an output size or an output of    *)
(* zero bytes are left out: sealing at least one byte yields neither.        *)

Prepare ==
    /\ pc = "prepare"
    /\ \/ /\ Alloc("output", RequiredOutputLen(msgLen))
          /\ cap' = [cap EXCEPT !["output"] = RequiredOutputLen(msgLen)]
          /\ Goto("seal")
       \/ Fail(ERR_INTERNAL) /\ UNCHANGED <<memoryVars, cap>>
    /\ UNCHANGED <<streamVars, signalVars, req, key, keyLen, msgLen, argvText,
                   out, oerr, diag, quiet>>

\* The statuses salt_seal_base64 returns for a message of 1 .. TextMax bytes.
SealStatuses == IF key.decodes THEN {OK, ERR_CRYPTO, ERR_INTERNAL}
                               ELSE {ERR_CRYPTO, ERR_INPUT}

Seal ==
    /\ pc = "seal"
    /\ \E status \in SealStatuses :
          IF status = OK THEN Goto("checkSealed") ELSE Fail(status)
    /\ UNCHANGED <<streamVars, signalVars, memoryVars, callVars, out, oerr, diag, quiet>>

\* A fault to detect: no look at the flag after sealing.
CheckSealedDropped ==
    /\ pc = "checkSealed"
    /\ Goto("emit")
    /\ UNCHANGED <<streamVars, signalVars, memoryVars, callVars, out, oerr, diag, quiet>>

CheckSealed ==
    /\ pc = "checkSealed"
    /\ IF interrupted THEN Fail(ERR_SIGNAL) ELSE Goto("emit")
    /\ UNCHANGED <<streamVars, signalVars, memoryVars, callVars, out, oerr, diag, quiet>>

-----------------------------------------------------------------------------
(* salt_cli_emit_output and the diagnostics.                                 *)

\* salt_cli_resolve_effective_key_id.
EffectiveKeyId == IF req.keyIdOpt \notin {"none", "empty"} THEN req.keyIdOpt ELSE key.id

\* JSON output needs a key_id that is UTF-8.
NoKeyId == req.mode = "json" /\ EffectiveKeyId # "utf8"

\* A fault to detect: a write that fails unnoticed, for want of a flush.
EmitUnflushed ==
    /\ pc = "emit"
    /\ IF NoKeyId
       THEN Fail(ERR_INPUT) /\ UNCHANGED <<out, oerr>>
       ELSE /\ out' \in {"none", "partial", "full"} /\ rc' = OK /\ pc' = Cleanup(req)
            /\ oerr' = (oerr \/ out' # "full")
    /\ UNCHANGED <<streamVars, signalVars, memoryVars, callVars, diag, quiet>>

\* A fault to detect: a flush judged by what fflush returns alone.
EmitUnindicated ==
    /\ pc = "emit"
    /\ IF NoKeyId
       THEN Fail(ERR_INPUT) /\ UNCHANGED <<out, oerr>>
       ELSE \/ out' = "full" /\ rc' = OK /\ pc' = Cleanup(req) /\ UNCHANGED oerr
            \/ out' \in {"none", "partial"} /\ Fail(ERR_IO) /\ oerr' = TRUE
    /\ UNCHANGED <<streamVars, signalVars, memoryVars, callVars, diag, quiet>>

\* Once a write or a flush of out_stream has failed, a line that goes out whole
\* is taken for a failure, too: cli_stream_flush looks at ferror, and the
\* failure may have been an earlier call's.
Emit ==
    /\ pc = "emit"
    /\ IF NoKeyId
       THEN Fail(ERR_INPUT) /\ UNCHANGED <<out, oerr>>
       ELSE \/ /\ ~oerr /\ UNCHANGED oerr
               /\ out' = "full" /\ rc' = OK /\ pc' = Cleanup(req)
            \/ oerr /\ out' = "full" /\ Fail(ERR_IO) /\ UNCHANGED oerr
            \/ out' \in {"none", "partial"} /\ Fail(ERR_IO) /\ oerr' = TRUE
    /\ UNCHANGED <<streamVars, signalVars, memoryVars, callVars, diag, quiet>>

\* salt_cli_report_stream_status: a diagnostic that cannot be written turns
\* whatever failed into ERR_IO.
Report ==
    /\ pc = "report"
    /\ \/ diag' = TRUE /\ UNCHANGED rc
       \/ rc' = ERR_IO /\ diag' \in {diag, TRUE}
    /\ pc' = Cleanup(req)
    /\ UNCHANGED <<streamVars, signalVars, memoryVars, callVars, out, oerr, quiet>>

-----------------------------------------------------------------------------
(* cleanup: salt_cli_restore_signal_handlers, then salt_cli_state_cleanup.   *)

RestoreSigint ==
    /\ pc = "restoreInt"
    /\ RestoreHandler("SIGINT")
    /\ Goto("restoreTerm")
    /\ UNCHANGED <<streamVars, memoryVars, callVars, out, oerr, diag, quiet>>

RestoreSigterm ==
    /\ pc = "restoreTerm"
    /\ RestoreHandler("SIGTERM")
    /\ Goto("scrub")
    /\ UNCHANGED <<streamVars, memoryVars, callVars, out, oerr, diag, quiet>>

\* A fault to detect: the terminator of the plaintext buffer is not counted.
WipeLenShort == [b \in Buffers \ {"reading"} |->
                CASE b \in Capped -> cap[b]
                  [] b = "stdin_key" -> KeyMax + 1
                  [] b = "stdin_plaintext" -> TextMax
                  [] b = "fixed" -> 1]

\* The length salt_cli_state_cleanup wipes of each buffer it owns.
WipeLen == [b \in Buffers \ {"reading"} |->
                CASE b \in Capped -> cap[b]
                  [] b = "stdin_key" -> KeyMax + 1
                  [] b = "stdin_plaintext" -> TextMax + 1
                  [] b = "fixed" -> 1]

StateCleanup ==
    /\ pc = "scrub"
    /\ ReleaseAll(Buffers \ {"reading"}, WipeLen)
    /\ Goto("returned")
    /\ UNCHANGED <<streamVars, signalVars, callVars, out, oerr, diag, quiet>>

-----------------------------------------------------------------------------
(* The steps of the program and of its environment.                          *)

Reading == /\ pc # "killed"
           /\ ReaderStep
           /\ UNCHANGED <<signalVars, cliVars>>

Program == \/ Harden \/ StateInit \/ InstallSigint \/ InstallSigterm \/ RollBack
           \/ Reset \/ ParseArgs \/ WriteHelp
           \/ LoadKey \/ TakeKey \/ CopyKey \/ ParseKey \/ CheckKey
           \/ LoadText \/ TakeText \/ CopyText \/ CheckText
           \/ Prepare \/ Seal \/ CheckSealed \/ Emit \/ Report
           \/ RestoreSigint \/ RestoreSigterm \/ StateCleanup
           \/ Reading

\* The part of a call during which a signal is handled.
Phase == CASE pc \in {"installTerm", "rollback", "reset"} -> "setup"
           [] pc \in {"emit", "help", "report", "restoreInt", "restoreTerm"} -> "late"
           [] OTHER -> "work"

Deliver(s, d) == /\ Running /\ delivered < MaxSignals
                 /\ disposition[s] = d
                 /\ delivered' = delivered + 1

\* The CLI's handler runs; a read that is blocked fails with EINTR.
SignalHandled(s) ==
    /\ Deliver(s, "salt")
    /\ HandlerRuns
    /\ caught' = caught \cup {Phase}
    /\ IF rpc \in Blocked THEN CallFails ELSE UNCHANGED streamVars
    /\ UNCHANGED <<memoryVars, pc, rc, callVars, out, oerr, diag, calls, inherited,
                   ioBefore, hardened>>

\* A handler of the embedding program fails a blocked read unless it has
\* SA_RESTART, in which case nothing of the CLI changes.
SignalForCaller(s) ==
    /\ Deliver(s, "caller")
    /\ rpc \in Blocked /\ CallFails
    /\ UNCHANGED <<signalVars, memoryVars, pc, rc, callVars, out, oerr, diag, caught,
                   calls, inherited, ioBefore, hardened>>

SignalKills(s) ==
    /\ Deliver(s, "default")
    /\ pc' = "killed"
    /\ UNCHANGED <<streamVars, signalVars, memoryVars, rc, callVars, out, oerr, diag,
                   caught, calls, inherited, ioBefore, hardened>>

\* The reader of stdout or stderr is gone, and SIGPIPE is not ignored.
BrokenPipe ==
    /\ pc \in {"help", "emit", "report"}
    /\ req.sigpipe = "default"
    /\ pc' = "killed"
    /\ UNCHANGED <<streamVars, signalVars, memoryVars, rc, callVars, out, oerr, diag, quiet>>

ProducerStep == /\ pc # "killed"
                /\ Producer
                /\ UNCHANGED <<signalVars, memoryVars, cliVars>>

Environment == \/ Call \/ ProducerStep \/ BrokenPipe
               \/ \E s \in Sigs : SignalHandled(s) \/ SignalForCaller(s) \/ SignalKills(s)

\* Nothing is left to do: the process was killed, or returned for good.
Finished == /\ pc = "killed" \/ (pc = "returned" /\ calls = MaxCalls)
            /\ UNCHANGED vars

Next == Program \/ Environment \/ Finished

Spec == Init /\ [][Next]_vars

\* The program runs whenever it can.
FairProgramSpec == Spec /\ WF_vars(Program)

-----------------------------------------------------------------------------
(* Safety.                                                                   *)

CliTypeOK == /\ pc \in Pcs
             /\ req \in Requests
             /\ rc \in Status
             /\ key \in KeyDocType
             /\ keyLen \in Nat /\ msgLen \in Nat
             /\ cap \in [Capped -> Nat]
             /\ argvText \in {"absent", "present", "zeroed"}
             /\ out \in {"none", "partial", "full"}
             /\ oerr \in BOOLEAN /\ diag \in BOOLEAN
             /\ caught \in SUBSET {"setup", "work", "late"}
             /\ calls \in Nat /\ delivered \in Nat
             /\ inherited \in [Sigs -> Dispositions \ {"salt"}]
             /\ ioBefore \in BOOLEAN /\ hardened \in BOOLEAN

\* Every variable has its type: pc is a label of the control flow of main.c,
\* input.c and prepare.c, and every length is a natural number.
TypeOK == StreamTypeOK /\ SignalsTypeOK /\ MemoryTypeOK /\ CliTypeOK

\* When a call returns, by whatever path and also when only one of the two
\* handlers could be installed, SIGINT and SIGTERM have the dispositions the
\* process was started with, and no saved one is waiting to be put back
\* (signal.c's roll-back and salt_cli_restore_signal_handlers).
HandlersRestored == pc = "returned" => /\ disposition = inherited
                                       /\ \A s \in Sigs : ~haveSaved[s]

\* When a call returns, every buffer it allocated has been freed, and each
\* was wiped over its whole allocation: the lengths state.c and input.c pass
\* to the release cover what the allocating function asked for.
Scrubbed == pc = "returned" => /\ \A b \in Buffers : heap[b] = 0
                               /\ residue = {}

\* A call returns SALT_OK only with its whole output on stdout, SALT_ERR_IO with
\* less than that, and any other status with nothing: no failure after the
\* ciphertext exists leaves a truncated secret behind.  The exception is the sticky
\* error indicator (cli_stream_flush): once a call has returned SALT_ERR_IO and
\* left the indicator set, a later one may say so of a line that is all there.
OutputMatchesStatus ==
    pc = "returned" =>
        /\ rc = OK => out = "full"
        /\ rc = ERR_IO /\ out = "full" => oerr /\ ioBefore
        /\ rc \notin {OK, ERR_IO} => out = "none"

\* Once a read of stdin or a write to stdout has failed, no later call that
\* seals through the same FILE is told it succeeded: input.c and
\* cli_stream_flush look at the error indicator, and nothing clears it.
BrokenStreamsStayBroken ==
    pc = "returned" /\ rc = OK /\ req.args = "ok"
        => /\ ~oerr
           /\ "stdin" \in {req.keySrc, req.textSrc} => ~ferr

\* A call that came as far as its arguments and fails has told stderr why, or
\* returns SALT_ERR_IO because it could not (salt_cli_report_stream_status); so
\* do a failing sigaction, allocation or seal.  Only the hardening of main is not
\* covered, which ignores what its fputs returns, and a call without an argv.
FailureDiagnosed ==
    /\ pc = "returned" /\ ~diag
    /\ req.args # "badShape"
    /\ Embedded \/ hardened
    => rc \in {OK, ERR_IO}

\* SALT_ERR_SIGNAL is only returned by a call in which the handler ran: a flag
\* an earlier call left set is never taken for a signal
\* (salt_cli_reset_interrupted).
SignalStatusJustified == pc = "returned" /\ rc = ERR_SIGNAL => caught # {}

\* A signal handled while the call reads, parses or seals keeps it from
\* succeeding and from writing to stdout (the checks of input.c and prepare.c).
InterruptNeverSucceeds ==
    pc = "returned" /\ req.args = "ok" /\ "work" \in caught
        => rc # OK /\ out = "none"

\* What is sealed from stdin is the whole stream, from where this call began
\* to read to the end of file, and no longer than SALT_GITHUB_SECRET_MAX_VALUE_LEN
\* (the size probe of cli_input_read_stream_limited).
WholeInputSealed ==
    pc \in {"prepare", "seal", "checkSealed", "emit"} /\ req.textSrc = "stdin"
        => /\ writer = "closed" /\ pending = 0
           /\ msgLen = sent - from /\ msgLen <= TextMax

\* A rejected oversize input is not consumed past the limit: the byte fgetc
\* probed is back in the stream, so the next reader of the same FILE starts
\* exactly max bytes further (ungetc in cli_input_read_stream_limited).
ProbePutsBack == rpc = "done" /\ result = ERR_INPUT => sent - pending = from + max

\* Buffers that hold the key input, the plaintext or the ciphertext.
Secrets == Buffers \ {"fixed"}

\* From the moment a call that manages signals holds any secret until its
\* cleanup begins, neither SIGINT nor SIGTERM can kill the process and leave
\* the secret unwiped: both handlers are in place (the order of main.c).
PlaintextGuarded ==
    /\ req.manage /\ Running
    /\ pc \notin {"restoreTerm", "scrub"}
    /\ \E b \in Secrets : heap[b] > 0
    => \A s \in Sigs : disposition[s] = "salt"

\* main.c gives the handlers back before it wipes, so a signal can still kill the
\* process with its secrets in memory.  What holds of a managed call that dies
\* so is that its caller missed nothing: the whole output, the diagnostic, or
\* the failed attempt to write one, was already out.  SIGPIPE can kill earlier.
KilledOnlyWhenTold ==
    /\ pc = "killed" /\ req.manage /\ req.sigpipe = "ignore"
    /\ \E b \in Secrets : heap[b] > 0
    => IF rc = OK THEN out = "full" ELSE diag \/ rc = ERR_IO

-----------------------------------------------------------------------------
(* Why the handlers come back: the inductive invariant behind                *)
(* HandlersRestored.                                                         *)

\* The two states a signal can be in while the process lives.
Theirs(s) == disposition[s] = inherited[s] /\ ~haveSaved[s]
Ours(s)   == disposition[s] = "salt" /\ saved[s] = inherited[s] /\ haveSaved[s]

\* Labels only a call that manages signals passes.
ManagedPcs == {"installInt", "installTerm", "rollback", "restoreInt", "restoreTerm"}

\* Labels at which nothing has been installed yet, or all has been given back.
CleanPcs == {"idle", "harden", "init", "installInt", "scrub", "returned"}

HandlersInv ==
    pc # "killed" =>
        /\ pc \in ManagedPcs => req.manage
        /\ \A s \in Sigs : Theirs(s) \/ (Ours(s) /\ req.manage)
        /\ pc \in CleanPcs => \A s \in Sigs : Theirs(s)
        /\ pc \in {"installTerm", "rollback"} => Ours("SIGINT") /\ Theirs("SIGTERM")
        /\ pc = "restoreTerm" => Theirs("SIGINT")

-----------------------------------------------------------------------------
(* Why nothing is left in memory: the inductive invariant behind Scrubbed.   *)

\* A read is under way exactly while the call waits for one, with its limit.
ReadLinked == /\ rpc # "idle" <=> pc \in {"readKey", "readText"}
              /\ pc = "readKey" => max = KeyMax
              /\ pc = "readText" => max = TextMax
              /\ rpc \notin {"idle", "done"} => result = OK

\* The buffer of a read exists from its allocation until it fails or is taken.
NoReadBuffer == \/ rpc \in {"idle", "check", "alloc"}
                \/ rpc = "done" /\ result # OK
ReadBuffer == heap["reading"] = IF NoReadBuffer THEN 0 ELSE max + 1

\* The length a buffer was allocated with is the one it will be wiped with.
LengthsAgree == \A b \in Buffers \ {"reading"} : heap[b] \in {0, WipeLen[b]}

EmptyPcs == {"idle", "harden", "init", "returned"}
BeforeCopyText == {"installInt", "installTerm", "reset", "args", "loadKey", "readKey",
                   "copyKey", "parseKey", "checkKey", "loadText", "copyText"}

ScrubInv ==
    /\ residue = {}
    /\ pc # "killed" =>
        /\ ReadLinked /\ ReadBuffer /\ LengthsAgree
        /\ pc \in EmptyPcs => \A b \in Buffers : heap[b] = 0
        /\ pc \in BeforeCopyText => heap["argv_plaintext_copy"] = 0

-----------------------------------------------------------------------------
(* Liveness.                                                                 *)

\* Every call ends once its producer has ended the stream: no path through the
\* read, its size probe included, sleeps with nobody left to wake it.
CallEnds == Running /\ writer = "closed" ~> ~Running

\* Once fread or fgetc has come back with the error indicator set, by a signal,
\* an error, or a failed read of an earlier call on the same FILE, the call ends
\* without any help from the producer: input.c does not try the read again.
FailedReadEnds ==
    ferr /\ rpc \in {"after", "probeEof"} /\ Running ~> ~Running

-----------------------------------------------------------------------------
(* What the documents say and the code does not do.  Each is refuted by a    *)
(* run of its own.                                                           *)

\* DESIGN.md: status 5 is "SIGINT, SIGTERM caught during execution".  A signal
\* caught once the first handler is installed, before any input is read, is
\* forgotten when main.c resets the flag, and the call goes on to succeed.
SignalReported == pc = "returned" /\ "setup" \in caught => rc # OK

\* README.md: status 4 reports "broken pipes"; SIGPIPE keeps its disposition,
\* so a process nobody sent SIGINT or SIGTERM dies instead of returning.
BrokenPipeReturns == delivered = 0 => pc # "killed"

\* DESIGN.md: "Argv scrubbing (on exit)".  input.c scrubs the argument when it
\* has copied it, which a call that fails over its key never does.
ArgvScrubbedOnExit ==
    pc = "returned" /\ ~Embedded /\ req.args = "ok" /\ rc = ERR_INPUT
        => argvText # "present"

\* signals.h: "graceful interruption for long-running stdin reads".  A signal
\* handled after the check of the flag but before read(2) sleeps wakes nobody.
InterruptEndsCall == interrupted /\ "work" \in caught /\ Running ~> ~Running

=============================================================================
