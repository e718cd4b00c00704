-------------------------- MODULE SaltCliPromises --------------------------
(***************************************************************************)
(* What a call promises besides clean hands: that its status, its output   *)
(* and its diagnostics agree, that it holds secrets only under its own     *)
(* handlers, that an interruption it has seen keeps it from succeeding,    *)
(* that what it seals from stdin is the whole of it, and that it does not  *)
(* trust a stream on which anything has failed.                            *)
(***************************************************************************)
EXTENDS SaltCliProofs

-----------------------------------------------------------------------------
(* The outcome is told.                                                      *)

\* Labels of a call that has not failed yet, nor begun to clean up.
Setup == {"harden", "init", "installInt", "installTerm", "rollback", "reset"}
Sealed == {"checkText", "prepare", "seal", "checkSealed", "emit"}
Work  == Sealed \cup {"args", "help", "loadKey", "readKey", "copyKey", "parseKey",
                      "checkKey", "loadText", "readText", "copyText"}
Leaving == {"restoreInt", "restoreTerm", "scrub"}

\* What the caller has been told agrees with the status.
Told == /\ rc = OK => out = "full"
        /\ rc = ERR_IO /\ out = "full" => oerr /\ ioBefore
        /\ rc \notin {OK, ERR_IO} => out = "none"
        /\ diag \/ rc \in {OK, ERR_IO}

\* Until the report a call has written nothing, unless it was the write that
\* failed or one that was not believed; from there on its outcome is told, except
\* by a call that had not come as far as its arguments.  The indicator of stdout
\* is set only by a failure that some call has returned, or is about to.
OutcomeInv ==
    /\ oerr => ioBefore \/ rc = ERR_IO
    /\ pc = "idle" => rc = OK
    /\ pc \in Setup \cup Work => out = "none" /\ rc = ERR_INPUT
    /\ pc = "harden" => ~Embedded /\ ~hardened
    /\ pc = "report" => /\ rc # OK
                        /\ out = "full" => rc = ERR_IO /\ oerr /\ ioBefore
                        /\ rc # ERR_IO => out = "none"
    /\ pc \in Leaving => Told
    /\ pc = "returned" => \/ Told
                          \/ /\ out = "none" /\ rc \notin {OK, ERR_IO}
                             /\ req.args = "badShape" \/ ~(Embedded \/ hardened)

\* A call that fails comes to the report with nothing written; a call that is
\* told, or was never to be told, keeps it so.
LEMMA OutcomeStep == ASSUME TypeOK, OutcomeInv, [Next]_vars PROVE OutcomeInv'
<1> USE DEF OutcomeInv, Told, Setup, Work, Sealed, Leaving, Goto, Fail, quiet, callVars,
            OK, ERR_INPUT, ERR_CRYPTO, ERR_INTERNAL, ERR_IO, ERR_SIGNAL
<1>1. CASE Call
  BY <1>1 DEF Call
<1>2. CASE Harden \/ StateInit \/ InstallSigint \/ InstallSigterm \/ RollBack \/ Reset
  <2>1. CASE Harden
    BY <2>1 DEF Harden
  <2>2. CASE StateInit
    BY <2>2 DEF StateInit
  <2>3. CASE InstallSigint \/ InstallSigterm \/ RollBack \/ Reset
    BY <2>3 DEF InstallSigint, InstallSigterm, RollBack, Reset
  <2> QED
    BY <1>2, <2>1, <2>2, <2>3
<1>3. CASE ParseArgs \/ LoadKey \/ ParseKey \/ CheckKey \/ LoadText \/ CheckText
  BY <1>3 DEF ParseArgs, LoadKey, ParseKey, CheckKey, LoadText, CheckText
<1>4. CASE TakeKey \/ TakeText
  BY <1>4 DEF TakeKey, TakeText
<1>5. CASE CopyKey \/ CopyText \/ Prepare
  BY <1>5 DEF CopyKey, CopyText, Prepare
<1>6. CASE Seal \/ CheckSealed
  BY <1>6 DEF Seal, SealStatuses, CheckSealed
<1>7. CASE WriteHelp \/ Emit
  BY <1>7 DEF WriteHelp, Emit, Cleanup
<1>8. CASE Report
  BY <1>8 DEF Report, Cleanup
<1>9. CASE RestoreSigint \/ RestoreSigterm \/ StateCleanup
  BY <1>9 DEF RestoreSigint, RestoreSigterm, StateCleanup
<1>10. CASE BrokenPipe \/ \E s \in Sigs : SignalKills(s)
  BY <1>10 DEF BrokenPipe, SignalKills
<1>11. CASE Reading \/ ProducerStep \/ UNCHANGED vars
  BY <1>11 DEF Reading, ProducerStep, vars, cliVars
<1>12. CASE \E s \in Sigs : SignalHandled(s) \/ SignalForCaller(s)
  BY <1>12 DEF SignalHandled, SignalForCaller
<1> QED
  BY <1>1, <1>2, <1>3, <1>4, <1>5, <1>6, <1>7, <1>8, <1>9, <1>10, <1>11, <1>12
  DEF Next, Program, Environment, Finished

\* OutcomeInv holds in every reachable state.
LEMMA OutcomeInvariant == Spec => []OutcomeInv
<1>1. Init => OutcomeInv
  BY DEF Init, OutcomeInv, Setup, Work, Sealed, Leaving
<1> QED
  BY <1>1, OutcomeStep, TypeCorrect, PTL DEF Spec

\* SALT_OK means the whole output, and any other failure than SALT_ERR_IO no
\* output at all, on every path of salt_cli_run_with_streams_internal; SALT_ERR_IO
\* means less than the whole, unless an earlier call has failed with it and left
\* the indicator of stdout set.
THEOREM OutputCorrect == Spec => []OutputMatchesStatus
<1>1. OutcomeInv => OutputMatchesStatus
  BY DEF OutcomeInv, Told, OutputMatchesStatus
<1> QED
  BY <1>1, OutcomeInvariant, PTL

\* A call that fails has said why on stderr, or says that it could not, once main
\* has hardened the process.
THEOREM DiagnosisCorrect == Spec => []FailureDiagnosed
<1>1. OutcomeInv => FailureDiagnosed
  BY DEF OutcomeInv, Told, FailureDiagnosed
<1> QED
  BY <1>1, OutcomeInvariant, PTL

-----------------------------------------------------------------------------
(* Secrets are held under the handlers of the CLI.                           *)

NoSecrets == \A b \in Secrets : heap[b] = 0
AllOurs   == \A s \in Sigs : Ours(s)

GuardInv ==
    /\ pc \in Setup \cup {"idle", "returned"} => NoSecrets
    /\ pc \in Work \cup {"reset"} /\ req.manage => AllOurs
    /\ pc \in {"report", "restoreInt"} /\ req.manage => AllOurs \/ NoSecrets
    /\ KilledOnlyWhenTold

\* A step that leaves the signal state alone and holds no secret it did not hold
\* before keeps the invariant, as long as it stays under the handlers.
LEMMA QuietGuard ==
    ASSUME GuardInv, UNCHANGED <<signalVars, memoryVars, inherited, req>>,
           pc # "killed", pc' # "killed",
           pc' \in Setup => pc \in Setup,
           pc' \notin {"idle", "returned", "reset"},
           pc' \in Work => pc \in Work \cup {"reset"},
           pc' \in {"report", "restoreInt"} /\ req.manage =>
               pc \in Work \cup {"rollback", "installInt", "report", "restoreInt"}
    PROVE  GuardInv'
  BY DEF GuardInv, AllOurs, Ours, NoSecrets, KilledOnlyWhenTold, signalVars, memoryVars, Setup

\* Every step keeps it.  A process that is killed with a secret in memory had
\* lost a handler, which only the cleanup takes away.
LEMMA GuardStep ==
    ASSUME TypeOK, HandlersInv, ScrubInv, OutcomeInv, GuardInv, [Next]_vars PROVE GuardInv'
<1> USE DEF Goto, Fail, quiet, callVars, Setup, Work, Sealed, Leaving
<1>0. SignalsTypeOK /\ MemoryTypeOK /\ req.manage \in BOOLEAN
  BY CliAssumption DEF TypeOK, CliTypeOK, RequestType
<1>b. Secrets \subseteq Buffers /\ "fixed" \notin Secrets
  BY DEF Secrets
<1>1. CASE Call
  BY <1>1 DEF Call, GuardInv, KilledOnlyWhenTold, NoSecrets, memoryVars
<1>2. CASE Harden
  BY <1>2 DEF Harden, GuardInv, KilledOnlyWhenTold, NoSecrets, memoryVars
<1>3. CASE StateInit
  BY <1>0, <1>b, <1>3
  DEF StateInit, Alloc, GuardInv, KilledOnlyWhenTold, NoSecrets, memoryVars, MemoryTypeOK
<1>4. CASE InstallSigint
  BY <1>4 DEF InstallSigint, GuardInv, KilledOnlyWhenTold, NoSecrets, memoryVars
<1>5. CASE InstallSigterm
  <2>1. CASE InstallHandler("SIGTERM") /\ Goto("reset")
    BY <1>0, <1>5, <2>1
    DEF InstallSigterm, InstallHandler, HandlersInv, Ours, Theirs, AllOurs, GuardInv,
        KilledOnlyWhenTold, NoSecrets, memoryVars, SignalsTypeOK, Sigs
  <2>2. CASE Goto("rollback")
    BY <1>5, <2>2 DEF InstallSigterm, GuardInv, KilledOnlyWhenTold, NoSecrets, memoryVars
  <2> QED
    BY <1>5, <2>1, <2>2 DEF InstallSigterm
<1>6. CASE RollBack
  BY <1>6 DEF RollBack, GuardInv, KilledOnlyWhenTold, NoSecrets, memoryVars
<1>7. CASE Reset
  BY <1>7 DEF Reset, ResetInterrupted, GuardInv, KilledOnlyWhenTold, NoSecrets, AllOurs, Ours,
              memoryVars
<1>8. CASE ParseArgs \/ LoadKey \/ ParseKey \/ CheckKey \/ LoadText \/ CheckText
  BY <1>8, QuietGuard DEF ParseArgs, LoadKey, ParseKey, CheckKey, LoadText, CheckText
<1>9. CASE WriteHelp \/ Seal \/ CheckSealed \/ Emit \/ Report
  BY <1>9, QuietGuard DEF WriteHelp, Seal, CheckSealed, Emit, Report, Cleanup
<1>10. CASE TakeKey \/ TakeText \/ CopyKey \/ CopyText \/ Prepare
  BY <1>10
  DEF TakeKey, TakeText, CopyKey, CopyText, Prepare, GuardInv, KilledOnlyWhenTold, AllOurs,
      Ours, signalVars
<1>11. CASE RestoreSigint \/ RestoreSigterm
  BY <1>11 DEF RestoreSigint, RestoreSigterm, GuardInv, KilledOnlyWhenTold
<1>12. CASE StateCleanup
  BY <1>b, <1>12 DEF StateCleanup, ReleaseAll, ScrubInv, ReadLinked, ReadBuffer, NoReadBuffer,
                     GuardInv, KilledOnlyWhenTold, NoSecrets
<1>13. CASE Reading
  <2>1. pc \in {"readKey", "readText"} /\ UNCHANGED <<signalVars, cliVars>>
    BY <1>13 DEF Reading, ScrubInv, ReadLinked, ReaderStep, ReadCheck, ReadAlloc, FreadByte,
                 FreadReturns, Sleep, Wake, ReadFails, CallFails, ReadAfter, Probe, ProbeEof,
                 Unget
  <2> QED
    BY <2>1 DEF GuardInv, KilledOnlyWhenTold, AllOurs, Ours, signalVars, cliVars
<1>14. CASE ProducerStep \/ UNCHANGED vars
  BY <1>14 DEF ProducerStep, vars, cliVars, signalVars, memoryVars, GuardInv,
               KilledOnlyWhenTold, NoSecrets, AllOurs, Ours
<1>15. CASE \E s \in Sigs : SignalHandled(s) \/ SignalForCaller(s)
  BY <1>15 DEF SignalHandled, SignalForCaller, Deliver, Running, HandlerRuns, signalVars,
               memoryVars, GuardInv, KilledOnlyWhenTold, NoSecrets, AllOurs, Ours
<1>16. ASSUME NEW s \in Sigs, SignalKills(s) PROVE GuardInv'
  <2>1. /\ pc' = "killed" /\ Running /\ disposition[s] = "default"
        /\ UNCHANGED <<heap, req, rc, out, diag>>
    BY <1>16 DEF SignalKills, Deliver, memoryVars
  <2>2. ~AllOurs
    BY <2>1 DEF AllOurs, Ours
  <2>3. pc \in Pcs
    BY DEF TypeOK, CliTypeOK
  <2>4. NoSecrets \/ ~req.manage \/ pc \in {"restoreTerm", "scrub"}
    BY <2>1, <2>2, <2>3 DEF GuardInv, Running, Pcs
  <2>5. \/ ~req.manage \/ \A b \in Secrets : heap[b] = 0
        \/ IF rc = OK THEN out = "full" ELSE diag \/ rc = ERR_IO
    BY <2>4 DEF NoSecrets, OutcomeInv, Told
  <2>6. KilledOnlyWhenTold'
    <3>1. \A b \in Secrets : heap[b] = 0 => ~(heap[b] > 0)
      OBVIOUS
    <3> QED
      BY <2>1, <2>5, <3>1 DEF KilledOnlyWhenTold
  <2> QED
    BY <2>1, <2>6 DEF GuardInv
<1>17. CASE BrokenPipe
  BY <1>17 DEF BrokenPipe, GuardInv, KilledOnlyWhenTold
<1> QED
  BY <1>1, <1>2, <1>3, <1>4, <1>5, <1>6, <1>7, <1>8, <1>9, <1>10, <1>11, <1>12, <1>13, <1>14,
     <1>15, <1>16, <1>17 DEF Next, Program, Environment, Finished

\* GuardInv holds in every reachable state.
LEMMA GuardInvariant == Spec => []GuardInv
<1>1. Init => GuardInv
  BY DEF Init, MemoryInit, GuardInv, NoSecrets, Secrets, KilledOnlyWhenTold, Setup, Work, Sealed
<1> QED
  BY <1>1, GuardStep, TypeCorrect, HandlersInvariant, ScrubInvariant, OutcomeInvariant,
     PTL DEF Spec

\* From the moment a call that manages signals holds a secret until its cleanup
\* begins, both handlers are in place.
THEOREM PlaintextGuardedCorrect == Spec => []PlaintextGuarded
<1>1. TypeOK /\ GuardInv => PlaintextGuarded
  <2> SUFFICES ASSUME TypeOK, GuardInv, req.manage, Running,
                      pc \notin {"restoreTerm", "scrub"}, ~NoSecrets
               PROVE  \A s \in Sigs : disposition[s] = "salt"
    BY DEF PlaintextGuarded, NoSecrets
  <2>1. AllOurs
    BY DEF GuardInv, TypeOK, CliTypeOK, Running, Pcs, Setup, Work, Sealed
  <2> QED
    BY <2>1 DEF AllOurs, Ours
<1> QED
  BY <1>1, GuardInvariant, TypeCorrect, PTL

\* A managed call that SIGINT or SIGTERM kills with its secrets in memory had
\* come to its cleanup, and its outcome was out.
THEOREM KilledOnlyWhenToldCorrect == Spec => []KilledOnlyWhenTold
<1>1. GuardInv => KilledOnlyWhenTold
  BY DEF GuardInv
<1> QED
  BY <1>1, GuardInvariant, PTL

-----------------------------------------------------------------------------
(* Interruptions.                                                            *)

\* The flag, a status and the result of a read only speak of a signal when the
\* handler has run in this call.
SignalInv ==
    /\ pc \in Work /\ interrupted => caught # {}
    /\ rc = ERR_SIGNAL => caught # {}
    /\ rpc # "idle" /\ result = ERR_SIGNAL => caught # {}

\* A signal handled at work is still in the flag when the flag is next tested.
InterruptInv ==
    pc # "killed" /\ req.args = "ok" =>
        /\ pc # "help"
        /\ pc \in Setup \cup {"emit"} => "work" \notin caught
        /\ pc \in Work /\ "work" \in caught => interrupted
        /\ pc \in Leaving \cup {"report", "returned"} /\ "work" \in caught => rc # OK /\ out = "none"

\* A step of the read comes back with ERR_SIGNAL only if it found the flag set.
LEMMA ReaderResult ==
    ASSUME ReaderStep, rpc # "done" => result = OK
    PROVE  rpc' # "idle" /\ (result' = ERR_SIGNAL => interrupted)
<1> USE DEF ReadGoto, Refuse, Discard, OK, ERR_SIGNAL, ERR_IO, ERR_INPUT, ERR_INTERNAL
<1>1. CASE ReadCheck \/ ReadAlloc \/ FreadByte \/ FreadReturns
  BY <1>1 DEF ReadCheck, ReadAlloc, FreadByte, FreadReturns
<1>2. CASE Sleep \/ Wake \/ ReadFails
  BY <1>2 DEF Sleep, Wake, ReadFails, CallFails
<1>3. CASE ReadAfter \/ Probe \/ ProbeEof \/ Unget
  BY <1>3 DEF ReadAfter, Probe, ProbeEof, Unget
<1> QED
  BY <1>1, <1>2, <1>3 DEF ReaderStep

\* No step makes the flag, the status or a read speak of a signal that did not
\* come: the flag of an earlier call is reset before it is first tested.
LEMMA SignalStepKeeps ==
    ASSUME ScrubInv, SignalInv, [Next]_vars PROVE SignalInv'
<1> USE DEF SignalInv, Goto, Fail, quiet, callVars, Work, Sealed, OK, ERR_INPUT, ERR_CRYPTO,
            ERR_INTERNAL, ERR_IO, ERR_SIGNAL
<1>1. CASE Call
  BY <1>1 DEF Call, ScrubInv, ReadLinked, streamVars
<1>2. CASE Harden \/ StateInit \/ InstallSigint \/ InstallSigterm \/ RollBack \/ Reset
  BY <1>2 DEF Harden, StateInit, InstallSigint, InstallSigterm, RollBack, Reset,
              ResetInterrupted, streamVars
<1>3. CASE ParseArgs \/ ParseKey \/ CheckKey \/ CheckText \/ CheckSealed
  BY <1>3 DEF ParseArgs, ParseKey, CheckKey, CheckText, CheckSealed, signalVars, streamVars
<1>4. CASE LoadKey \/ LoadText
  BY <1>4 DEF LoadKey, LoadText, StartRead, signalVars, streamVars
<1>5. CASE TakeKey \/ TakeText
  BY <1>5 DEF TakeKey, TakeText, ReadDone, signalVars
<1>6. CASE CopyKey \/ CopyText \/ Prepare
  BY <1>6 DEF CopyKey, CopyText, Prepare, signalVars, streamVars
<1>7. CASE Seal
  BY <1>7 DEF Seal, SealStatuses, signalVars, streamVars
<1>8. CASE WriteHelp \/ Emit \/ Report
  BY <1>8 DEF WriteHelp, Emit, Report, Cleanup, signalVars, streamVars
<1>9. CASE RestoreSigint \/ RestoreSigterm \/ StateCleanup
  BY <1>9 DEF RestoreSigint, RestoreSigterm, RestoreHandler, StateCleanup, streamVars
<1>10. CASE Reading
  <2>1. /\ ReaderStep /\ rpc # "idle" /\ pc # "killed"
        /\ UNCHANGED <<interrupted, pc, rc, caught>>
    BY <1>10 DEF Reading, ReaderStep, ReadCheck, ReadAlloc, FreadByte, FreadReturns, Sleep,
                 Wake, ReadFails, CallFails, ReadAfter, Probe, ProbeEof, Unget, signalVars,
                 cliVars
  <2>2. pc \in Work /\ (rpc # "done" => result = OK)
    BY <2>1 DEF ScrubInv, ReadLinked
  <2> QED
    BY <2>1, <2>2, ReaderResult
<1>11. CASE ProducerStep \/ BrokenPipe \/ UNCHANGED vars
  BY <1>11 DEF ProducerStep, Producer, Produce, CloseWriter, BrokenPipe, readVars, streamVars,
               signalVars, cliVars, vars
<1>12. ASSUME NEW s \in Sigs, SignalHandled(s) \/ SignalForCaller(s) \/ SignalKills(s)
       PROVE SignalInv'
  BY <1>12 DEF SignalHandled, SignalForCaller, SignalKills, CallFails, ReadGoto, Blocked,
               streamVars, signalVars
<1> QED
  BY <1>1, <1>2, <1>3, <1>4, <1>5, <1>6, <1>7, <1>8, <1>9, <1>10, <1>11, <1>12
  DEF Next, Program, Environment, Finished

\* SALT_ERR_SIGNAL is only returned by a call in which the handler ran.
THEOREM SignalStatusCorrect == Spec => []SignalStatusJustified
<1>1. Init => SignalInv
  BY DEF Init, StreamInit, SignalInv, Work, Sealed, OK, ERR_SIGNAL
<1>2. SignalInv => SignalStatusJustified
  BY DEF SignalInv, SignalStatusJustified
<1> QED
  BY <1>1, <1>2, SignalStepKeeps, ScrubInvariant, PTL DEF Spec

\* A signal handled at work stays in the flag up to the test that stops the
\* call; before the work begins and in the cleanup no handler of salt is there
\* to be run at work.
LEMMA InterruptStep ==
    ASSUME TypeOK, HandlersInv, OutcomeInv, InterruptInv, [Next]_vars PROVE InterruptInv'
<1> USE DEF InterruptInv, Goto, Fail, quiet, callVars, Setup, Work, Sealed, Leaving, OK,
            ERR_INPUT, ERR_CRYPTO, ERR_INTERNAL, ERR_IO, ERR_SIGNAL
<1>1. CASE Call
  BY <1>1 DEF Call
<1>2. CASE Harden \/ StateInit \/ InstallSigint \/ InstallSigterm \/ RollBack \/ Reset
  BY <1>2 DEF Harden, StateInit, InstallSigint, InstallSigterm, RollBack, Reset, OutcomeInv
<1>3. CASE ParseArgs \/ LoadKey \/ ParseKey \/ CheckKey \/ LoadText
  BY <1>3 DEF ParseArgs, LoadKey, ParseKey, CheckKey, LoadText, OutcomeInv, signalVars
<1>4. CASE TakeKey \/ TakeText
  BY <1>4 DEF TakeKey, TakeText, OutcomeInv, signalVars
<1>5. CASE CopyKey \/ CopyText \/ Prepare
  BY <1>5 DEF CopyKey, CopyText, Prepare, OutcomeInv, signalVars
<1>6. CASE CheckText \/ CheckSealed
  BY <1>6 DEF CheckText, CheckSealed, OutcomeInv, signalVars
<1>7. CASE Seal
  BY <1>7 DEF Seal, SealStatuses, OutcomeInv, signalVars
<1>8. CASE WriteHelp \/ Emit
  BY <1>8 DEF WriteHelp, Emit, Cleanup, signalVars
<1>9. CASE Report
  BY <1>9 DEF Report, Cleanup, OutcomeInv
<1>10. CASE RestoreSigint \/ RestoreSigterm \/ StateCleanup
  BY <1>10 DEF RestoreSigint, RestoreSigterm, StateCleanup
<1>11. CASE Reading \/ ProducerStep \/ UNCHANGED vars
  BY <1>11 DEF Reading, ProducerStep, vars, cliVars, signalVars
<1>12. ASSUME NEW s \in Sigs, SignalHandled(s) PROVE InterruptInv'
  <2>1. /\ pc # "killed" /\ Running /\ disposition[s] = "salt" /\ interrupted'
        /\ caught' = caught \cup {Phase} /\ UNCHANGED <<pc, rc, req, out>>
    BY <1>12 DEF SignalHandled, Deliver, HandlerRuns, Running, callVars
  <2>2. pc \notin CleanPcs
    <3>1. inherited[s] # "salt"
      BY DEF TypeOK, CliTypeOK
    <3> QED
      BY <2>1, <3>1 DEF HandlersInv, Theirs
  <2>3. pc \in {"emit", "report", "restoreInt", "restoreTerm"} \cup Setup => Phase # "work"
    BY <2>2 DEF Phase, CleanPcs
  <2> QED
    BY <2>1, <2>2, <2>3 DEF CleanPcs
<1>13. ASSUME NEW s \in Sigs, SignalForCaller(s) \/ SignalKills(s) PROVE InterruptInv'
  BY <1>13 DEF SignalForCaller, SignalKills, signalVars
<1>14. CASE BrokenPipe
  BY <1>14 DEF BrokenPipe
<1> QED
  BY <1>1, <1>2, <1>3, <1>4, <1>5, <1>6, <1>7, <1>8, <1>9, <1>10, <1>11, <1>12, <1>13, <1>14
  DEF Next, Program, Environment, Finished

\* A call in which the handler ran while it read, parsed or sealed neither
\* succeeds nor writes.
THEOREM InterruptCorrect == Spec => []InterruptNeverSucceeds
<1>1. Init => InterruptInv
  BY DEF Init, InterruptInv, Setup, Work, Sealed, Leaving
<1>2. InterruptInv => InterruptNeverSucceeds
  BY DEF InterruptInv, InterruptNeverSucceeds, Leaving
<1> QED
  BY <1>1, <1>2, InterruptStep, TypeCorrect, HandlersInvariant, OutcomeInvariant, PTL DEF Spec

-----------------------------------------------------------------------------
(* The bytes of a read.                                                      *)

Drained == writer = "closed" /\ pending = 0

\* Every byte taken from the stream since a read began is in its buffer, but for
\* the one the probe has in hand.
AccountInv ==
    /\ rpc \in ReadPcs \ {"idle", "unget", "done"} => from + got = sent - pending /\ got <= max
    /\ rpc \in {"probe", "probeBlocked", "probeEof", "unget"} => got = max
    /\ rpc = "unget" => from + got + 1 = sent - pending
    /\ rpc = "after" /\ ~ferr /\ got # max => Drained
    /\ rpc = "probeEof" /\ ~ferr => Drained
    /\ rpc = "done" /\ result = OK => Drained /\ from + got = sent /\ got <= max
    /\ ProbePutsBack

\* What is handed over from a read is all there was.
TextInv ==
    /\ pc = "copyText" => req.textSrc = "argv"
    /\ pc \in Sealed /\ req.textSrc = "stdin" =>
          Drained /\ msgLen = sent - from /\ msgLen <= TextMax

\* A step of the read keeps the account: the buffer, the hand of the probe and
\* the pipe together hold what the stream held.
LEMMA ReaderAccount ==
    ASSUME StreamTypeOK, AccountInv, ReaderStep, rpc \notin {"idle", "done"} => result = OK
    PROVE  AccountInv'
<1> USE DEF AccountInv, ProbePutsBack, Drained, StreamTypeOK, ReadPcs, ReadGoto, Refuse,
            pipeVars, OK, ERR_SIGNAL, ERR_IO, ERR_INPUT, ERR_INTERNAL
<1>1. CASE ReadCheck \/ ReadAlloc
  BY <1>1 DEF ReadCheck, ReadAlloc
<1>2. CASE FreadByte
  BY <1>2 DEF FreadByte
<1>3. CASE FreadReturns
  BY <1>3 DEF FreadReturns
<1>4. CASE Sleep \/ Wake
  BY <1>4 DEF Sleep, Wake
<1>5. CASE ReadFails
  BY <1>5 DEF ReadFails, CallFails
<1>6. CASE ReadAfter
  BY <1>6 DEF ReadAfter, Discard
<1>7. CASE Probe
  BY <1>7 DEF Probe
<1>8. CASE ProbeEof
  BY <1>8 DEF ProbeEof, Discard
<1>9. CASE Unget
  BY <1>9 DEF Unget, Discard
<1> QED
  BY <1>1, <1>2, <1>3, <1>4, <1>5, <1>6, <1>7, <1>8, <1>9 DEF ReaderStep

\* A process that was killed does nothing.
LEMMA KilledStays == ASSUME pc = "killed", [Next]_vars PROVE UNCHANGED vars
  BY DEF Next, Program, Environment, Finished, Call, Harden, StateInit, InstallSigint,
         InstallSigterm, RollBack, Reset, ParseArgs, WriteHelp, LoadKey, TakeKey, CopyKey,
         ParseKey, CheckKey, LoadText, TakeText, CopyText, CheckText, Prepare, Seal,
         CheckSealed, Emit, Report, RestoreSigint, RestoreSigterm, StateCleanup, Reading,
         ProducerStep, BrokenPipe, SignalHandled, SignalForCaller, SignalKills, Deliver,
         Running

\* So does every step of the process and of its environment.
LEMMA AccountStep ==
    ASSUME TypeOK, ScrubInv, AccountInv, [Next]_vars PROVE AccountInv'
<1>0. StreamTypeOK /\ StreamStep
  BY StreamFrame DEF TypeOK
<1> USE DEF AccountInv, ProbePutsBack, Drained, StreamTypeOK, ReadPcs
<1>1. ASSUME NEW limit \in Nat, StartRead(limit) PROVE AccountInv'
  BY <1>0, <1>1 DEF StartRead, pipeVars, OK, ERR_INPUT
<1>2. CASE ReadTaken
  BY <1>0, <1>2 DEF ReadTaken
<1>3. CASE ReaderStep
  <2>1. CASE pc = "killed"
    BY <2>1, KilledStays DEF vars, streamVars
  <2>2. CASE pc # "killed"
    BY <1>0, <1>3, <2>2, ReaderAccount DEF ScrubInv, ReadLinked
  <2> QED
    BY <2>1, <2>2
<1>4. CASE Producer
  BY <1>0, <1>4 DEF Producer, Produce, CloseWriter, readVars
<1>5. CASE CallFails
  BY <1>0, <1>5 DEF CallFails, ReadGoto
<1>6. CASE UNCHANGED streamVars
  BY <1>6 DEF streamVars
<1> QED
  BY <1>0, <1>1, <1>2, <1>3, <1>4, <1>5, <1>6 DEF StreamStep

\* AccountInv holds in every reachable state.
LEMMA AccountInvariant == Spec => []AccountInv
<1>1. Init => AccountInv
  BY DEF Init, StreamInit, AccountInv, ProbePutsBack, ReadPcs
<1> QED
  BY <1>1, AccountStep, TypeCorrect, ScrubInvariant, PTL DEF Spec

\* An input refused for its size leaves the stream at exactly the limit.
THEOREM ProbeCorrect == Spec => []ProbePutsBack
<1>1. AccountInv => ProbePutsBack
  BY DEF AccountInv
<1> QED
  BY <1>1, AccountInvariant, PTL

\* Once the text is taken nothing can be added to a stream that is drained, and
\* no later step of the call reads it.
LEMMA TextStep ==
    ASSUME TypeOK, ScrubInv, AccountInv, TextInv, [Next]_vars PROVE TextInv'
<1> USE DEF TextInv, Sealed, Drained, Goto, Fail, quiet, callVars
<1>0. StreamTypeOK /\ CliTypeOK
  BY DEF TypeOK
<1>1. CASE Call \/ Harden \/ StateInit \/ WriteHelp \/ Emit \/ Report
  BY <1>1 DEF Call, Harden, StateInit, WriteHelp, Emit, Report, Cleanup
<1>2. CASE InstallSigint \/ InstallSigterm \/ RollBack \/ Reset \/ RestoreSigint
           \/ RestoreSigterm \/ StateCleanup
  BY <1>2 DEF InstallSigint, InstallSigterm, RollBack, Reset, RestoreSigint, RestoreSigterm,
              StateCleanup
<1>3. CASE ParseArgs \/ LoadKey \/ TakeKey \/ CopyKey \/ ParseKey \/ CheckKey
  BY <1>3 DEF ParseArgs, LoadKey, TakeKey, CopyKey, ParseKey, CheckKey
<1>4. CASE LoadText
  <2>1. req.textSrc \in {"argv", "stdin"}
    BY <1>0, CliAssumption DEF CliTypeOK, RequestType
  <2> QED
    BY <1>4, <2>1 DEF LoadText
<1>5. CASE TakeText
  <2>1. CASE result # OK
    BY <1>5, <2>1 DEF TakeText
  <2>2. CASE result = OK
    <3>1. Drained /\ from + got = sent /\ got <= TextMax
      BY <1>5, <2>2 DEF TakeText, ReadDone, AccountInv, ScrubInv, ReadLinked
    <3>2. /\ pc' = "checkText" /\ msgLen' = got
          /\ UNCHANGED <<writer, pending, sent, from>>
      BY <1>5, <2>2 DEF TakeText, ReadDone, pipeVars
    <3>3. got = sent - from
      BY <1>0, <3>1 DEF StreamTypeOK
    <3> QED
      BY <3>1, <3>2, <3>3
  <2> QED
    BY <2>1, <2>2
<1>6. CASE CopyText
  BY <1>6 DEF CopyText
<1>7. CASE CheckText \/ Prepare \/ Seal \/ CheckSealed
  BY <1>7 DEF CheckText, Prepare, Seal, CheckSealed, streamVars
<1>8. CASE Reading
  <2>1. pc \notin Sealed /\ UNCHANGED <<pc, req>>
    BY <1>8 DEF Reading, ScrubInv, ReadLinked, ReaderStep, ReadCheck, ReadAlloc, FreadByte,
                FreadReturns, Sleep, Wake, ReadFails, CallFails, ReadAfter, Probe, ProbeEof,
                Unget, cliVars, callVars
  <2> QED
    BY <2>1
<1>9. CASE ProducerStep \/ UNCHANGED vars
  BY <1>9 DEF ProducerStep, Producer, Produce, CloseWriter, readVars, vars, cliVars, streamVars
<1>10. ASSUME NEW s \in Sigs, SignalHandled(s) \/ SignalForCaller(s) PROVE TextInv'
  BY <1>10 DEF SignalHandled, SignalForCaller, CallFails, ReadGoto, streamVars
<1>11. CASE BrokenPipe \/ \E s \in Sigs : SignalKills(s)
  BY <1>11 DEF BrokenPipe, SignalKills
<1> QED
  BY <1>1, <1>2, <1>3, <1>4, <1>5, <1>6, <1>7, <1>8, <1>9, <1>10, <1>11
  DEF Next, Program, Environment, Finished

\* What is sealed from stdin is the whole stream, and no longer than the limit.
THEOREM WholeInputCorrect == Spec => []WholeInputSealed
<1>1. Init => TextInv
  BY DEF Init, TextInv, Sealed
<1>2. TextInv => WholeInputSealed
  BY DEF TextInv, Drained, Sealed, WholeInputSealed
<1> QED
  BY <1>1, <1>2, TextStep, TypeCorrect, ScrubInvariant, AccountInvariant, PTL DEF Spec

-----------------------------------------------------------------------------
(* The error indicators.                                                     *)

\* Labels behind the key input of a call, and what its sources were worth.
Keyed == Work \ {"args", "help", "loadKey", "readKey"}
StreamsSound == ~oerr /\ ("stdin" \in {req.keySrc, req.textSrc} => ~ferr)

\* Whatever has been taken from stdin came with its indicator clear, and nothing
\* reads on in this call.
SoundInv ==
    /\ pc = "help" => req.args # "ok"
    /\ pc \in Work \ {"args", "help"} => req.args = "ok"
    /\ pc = "readKey" => req.keySrc = "stdin"
    /\ pc = "readText" => req.textSrc = "stdin"
    /\ pc = "copyText" => req.textSrc # "stdin"
    /\ rpc = "done" /\ result = OK => ~ferr
    /\ pc \in Keyed /\ req.keySrc = "stdin" => ~ferr
    /\ pc \in Sealed /\ req.textSrc = "stdin" => ~ferr
    /\ pc \in Leaving \cup {"returned"} /\ rc = OK /\ req.args = "ok" => StreamsSound

\* A read is done well only with the indicator clear.
LEMMA ReaderSound ==
    ASSUME ReaderStep, rpc # "done" => result = OK
    PROVE  rpc' = "done" /\ result' = OK => ~ferr'
<1> USE DEF ReadGoto, Refuse, Discard, pipeVars, OK, ERR_SIGNAL, ERR_IO, ERR_INPUT,
            ERR_INTERNAL
<1>1. CASE ReadCheck \/ ReadAlloc \/ FreadByte \/ FreadReturns
  BY <1>1 DEF ReadCheck, ReadAlloc, FreadByte, FreadReturns
<1>2. CASE Sleep \/ Wake \/ ReadFails
  BY <1>2 DEF Sleep, Wake, ReadFails, CallFails
<1>3. CASE ReadAfter \/ Probe \/ ProbeEof \/ Unget
  BY <1>3 DEF ReadAfter, Probe, ProbeEof, Unget
<1> QED
  BY <1>1, <1>2, <1>3 DEF ReaderStep

\* The indicator of stdin is set only while a call reads, that of stdout only by
\* the write that fails.
LEMMA SoundStep ==
    ASSUME TypeOK, ScrubInv, OutcomeInv, SoundInv, [Next]_vars PROVE SoundInv'
<1> USE DEF SoundInv, StreamsSound, Keyed, Work, Sealed, Leaving, Goto, Fail, quiet, callVars,
            OK, ERR_INPUT, ERR_CRYPTO, ERR_INTERNAL, ERR_IO, ERR_SIGNAL
<1>0. req.args = "ok" => ~(req.keySrc = "stdin" /\ req.textSrc = "stdin")
  BY CliAssumption DEF TypeOK, CliTypeOK
<1>1. CASE Call
  BY <1>1 DEF Call, ScrubInv, ReadLinked, streamVars
<1>2. CASE Harden \/ StateInit \/ InstallSigint \/ InstallSigterm \/ RollBack \/ Reset
  BY <1>2 DEF Harden, StateInit, InstallSigint, InstallSigterm, RollBack, Reset, OutcomeInv,
              Setup, streamVars
<1>3. CASE ParseArgs \/ ParseKey \/ CheckKey \/ CheckText \/ CheckSealed
  BY <1>3 DEF ParseArgs, ParseKey, CheckKey, CheckText, CheckSealed, streamVars
<1>4. CASE LoadKey \/ LoadText
  BY <1>0, <1>4 DEF LoadKey, LoadText, StartRead, pipeVars, streamVars
<1>5. CASE TakeKey \/ TakeText
  <2>1. /\ rpc = "done" /\ rpc' = "idle" /\ UNCHANGED <<ferr, req, oerr>>
        /\ \/ pc = "readKey" /\ pc' = "copyKey" /\ result = OK
           \/ pc = "readText" /\ pc' = "checkText" /\ result = OK
           \/ pc' = "report"
    <3>1. CASE TakeKey
      BY <3>1 DEF TakeKey, ReadDone, pipeVars
    <3>2. CASE TakeText
      BY <3>2 DEF TakeText, ReadDone, pipeVars
    <3> QED
      BY <1>5, <3>1, <3>2
  <2> QED
    BY <1>0, <2>1
<1>6. CASE CopyKey \/ CopyText \/ Prepare
  BY <1>6 DEF CopyKey, CopyText, Prepare, streamVars
<1>7. CASE Seal
  BY <1>7 DEF Seal, SealStatuses, streamVars
<1>8. CASE WriteHelp \/ Emit
  BY <1>8 DEF WriteHelp, Emit, Cleanup, streamVars
<1>9. CASE Report
  BY <1>9 DEF Report, Cleanup, OutcomeInv, streamVars
<1>10. CASE RestoreSigint \/ RestoreSigterm \/ StateCleanup
  BY <1>10 DEF RestoreSigint, RestoreSigterm, StateCleanup, streamVars
<1>11. CASE Reading
  <2>1. /\ ReaderStep /\ rpc # "idle" /\ pc # "killed"
        /\ UNCHANGED <<pc, req, rc, oerr>>
    BY <1>11 DEF Reading, ReaderStep, ReadCheck, ReadAlloc, FreadByte, FreadReturns, Sleep,
                 Wake, ReadFails, CallFails, ReadAfter, Probe, ProbeEof, Unget, cliVars
  <2>2. pc \in {"readKey", "readText"} /\ (rpc # "done" => result = OK)
    BY <2>1 DEF ScrubInv, ReadLinked
  <2> QED
    BY <1>0, <2>1, <2>2, ReaderSound
<1>12. CASE ProducerStep \/ BrokenPipe \/ UNCHANGED vars
  BY <1>12 DEF ProducerStep, Producer, Produce, CloseWriter, BrokenPipe, readVars, streamVars,
               cliVars, vars
<1>13. ASSUME NEW s \in Sigs, SignalHandled(s) \/ SignalForCaller(s) PROVE SoundInv'
  <2>1. /\ UNCHANGED <<pc, req, rc, oerr>> /\ pc # "killed"
        /\ UNCHANGED streamVars \/ (rpc \in Blocked /\ CallFails)
    BY <1>13 DEF SignalHandled, SignalForCaller, Deliver, Running
  <2>2. CASE UNCHANGED streamVars
    BY <2>1, <2>2 DEF streamVars
  <2>3. CASE rpc \in Blocked /\ CallFails
    <3>1. pc \in {"readKey", "readText"} /\ rpc' # "done"
      BY <2>1, <2>3 DEF ScrubInv, ReadLinked, Blocked, CallFails, ReadGoto
    <3> QED
      BY <1>0, <2>1, <3>1
  <2> QED
    BY <2>1, <2>2, <2>3
<1>14. ASSUME NEW s \in Sigs, SignalKills(s) PROVE SoundInv'
  BY <1>14 DEF SignalKills, streamVars
<1> QED
  BY <1>1, <1>2, <1>3, <1>4, <1>5, <1>6, <1>7, <1>8, <1>9, <1>10, <1>11, <1>12, <1>13, <1>14
  DEF Next, Program, Environment, Finished

\* No call seals through a FILE whose error indicator is set, whichever call it
\* was that failed on it.
THEOREM BrokenStreamsCorrect == Spec => []BrokenStreamsStayBroken
<1>1. Init => SoundInv
  BY DEF Init, StreamInit, SoundInv, Keyed, Work, Sealed, Leaving
<1>2. SoundInv => BrokenStreamsStayBroken
  BY DEF SoundInv, StreamsSound, BrokenStreamsStayBroken
<1> QED
  BY <1>1, <1>2, SoundStep, TypeCorrect, ScrubInvariant, OutcomeInvariant, PTL DEF Spec
=============================================================================
