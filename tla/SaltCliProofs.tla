--------------------------- MODULE SaltCliProofs ---------------------------
(***************************************************************************)
(* Proofs about SaltCli, for all values of its constants.                  *)
(***************************************************************************)
EXTENDS SaltCli, TLAPS

\* A remainder is a natural number below the divisor.
LEMMA ModRange == \A a \in Nat, b \in Nat \ {0} : a % b \in Nat
  OBVIOUS

\* An output length is a natural number (salt_required_base64_output_len).
LEMMA OutputLenType == \A m \in Nat : RequiredOutputLen(m) \in Nat
<1> SUFFICES ASSUME NEW m \in Nat PROVE RequiredOutputLen(m) \in Nat
  OBVIOUS
<1>1. EncodedLen(m + SEALBYTES) \in Nat
  BY SizeAssumption, ModRange DEF EncodedLen, Wrap
<1> QED
  BY <1>1, SizeAssumption DEF RequiredOutputLen

-----------------------------------------------------------------------------
(* The dispositions and the flag.  Only six steps touch them.                *)

SignalStep == \/ \E s \in Sigs : InstallHandler(s) \/ RestoreHandler(s)
              \/ RollBackSigint \/ ResetInterrupted \/ HandlerRuns
              \/ UNCHANGED signalVars

\* Whatever a step of the process does to the signal state is one operation of
\* signal.c, or nothing.
LEMMA SignalFrame == [Next]_vars => SignalStep
<1> SUFFICES ASSUME [Next]_vars PROVE SignalStep
  OBVIOUS
<1> USE DEF SignalStep
<1>1. CASE InstallSigint \/ InstallSigterm \/ RestoreSigint \/ RestoreSigterm
  BY <1>1 DEF InstallSigint, InstallSigterm, RestoreSigint, RestoreSigterm, Sigs
<1>2. CASE RollBack \/ Reset \/ \E s \in Sigs : SignalHandled(s)
  BY <1>2 DEF RollBack, Reset, SignalHandled
<1>3. CASE Harden \/ StateInit \/ ParseArgs \/ WriteHelp \/ LoadKey \/ TakeKey \/ CopyKey
           \/ ParseKey \/ CheckKey \/ LoadText \/ TakeText \/ CopyText \/ CheckText
  BY <1>3 DEF Harden, StateInit, ParseArgs, WriteHelp, LoadKey, TakeKey, CopyKey,
              ParseKey, CheckKey, LoadText, TakeText, CopyText, CheckText
<1>4. CASE Prepare \/ Seal \/ CheckSealed \/ Emit \/ Report \/ StateCleanup \/ Reading
  BY <1>4 DEF Prepare, Seal, CheckSealed, Emit, Report, StateCleanup, Reading
<1>5. CASE \/ Call \/ ProducerStep \/ BrokenPipe
           \/ \E s \in Sigs : SignalForCaller(s) \/ SignalKills(s)
  BY <1>5 DEF Call, ProducerStep, BrokenPipe, SignalForCaller, SignalKills
<1>6. CASE UNCHANGED vars
  BY <1>6 DEF vars
<1> QED
  BY <1>1, <1>2, <1>3, <1>4, <1>5, <1>6 DEF Next, Program, Environment, Finished

\* The signal state stays well typed.
LEMMA SignalsType == SignalsTypeOK /\ [Next]_vars => SignalsTypeOK'
<1> SUFFICES ASSUME SignalsTypeOK, SignalStep PROVE SignalsTypeOK'
  BY SignalFrame
<1> USE DEF SignalsTypeOK
<1>1. ASSUME NEW s \in Sigs, InstallHandler(s) PROVE SignalsTypeOK'
  BY <1>1 DEF InstallHandler, Dispositions
<1>2. ASSUME NEW s \in Sigs, RestoreHandler(s) PROVE SignalsTypeOK'
  BY <1>2 DEF RestoreHandler
<1>3. CASE RollBackSigint
  BY <1>3 DEF RollBackSigint, Sigs
<1>4. CASE ResetInterrupted \/ HandlerRuns
  BY <1>4 DEF ResetInterrupted, HandlerRuns
<1>5. CASE UNCHANGED signalVars
  BY <1>5 DEF signalVars
<1> QED
  BY <1>1, <1>2, <1>3, <1>4, <1>5 DEF SignalStep

-----------------------------------------------------------------------------
(* The buffers.                                                              *)

MemoryStep == \/ \E b \in Buffers, n \in Nat : Alloc(b, n) \/ Release(b, n)
              \/ \E b, c \in Buffers : HandOver(b, c)
              \/ ReleaseAll(Buffers \ {"reading"}, WipeLen)
              \/ UNCHANGED memoryVars

\* A step of the read allocates its buffer, releases it, or leaves it alone.
LEMMA ReaderMemoryFrame ==
    ASSUME StreamTypeOK, ReaderStep PROVE MemoryStep
<1> USE DEF MemoryStep
<1>1. "reading" \in Buffers /\ max + 1 \in Nat
  BY DEF Buffers, StreamTypeOK
<1>2. ASSUME NEW s, Discard(s) PROVE MemoryStep
  BY <1>1, <1>2 DEF Discard
<1>3. CASE ReadAlloc
  BY <1>1, <1>3 DEF ReadAlloc
<1>4. CASE ReadAfter \/ ProbeEof \/ Unget
  BY <1>2, <1>4 DEF ReadAfter, ProbeEof, Unget
<1>5. CASE ReadCheck \/ FreadByte \/ FreadReturns \/ Sleep \/ Wake \/ ReadFails \/ Probe
  BY <1>5 DEF ReadCheck, FreadByte, FreadReturns, Sleep, Wake, ReadFails, Probe, memoryVars
<1> QED
  BY <1>3, <1>4, <1>5 DEF ReaderStep

\* Whatever a step does to the buffers is one operation of module Memory with a
\* natural length, or nothing.
LEMMA MemoryFrame == ASSUME TypeOK, [Next]_vars PROVE MemoryStep
<1> USE DEF MemoryStep
<1>1. CASE StateInit \/ CopyKey \/ CopyText
  <2>1. /\ {"fixed", "trimmed_key_input", "argv_plaintext_copy"} \subseteq Buffers
        /\ keyLen + 1 \in Nat /\ req.textLen + 1 \in Nat
    BY CliAssumption DEF Buffers, TypeOK, CliTypeOK, RequestType
  <2> QED
    BY <1>1, <2>1 DEF StateInit, CopyKey, CopyText
<1>2. CASE Prepare
  BY <1>2, OutputLenType DEF Prepare, Buffers, TypeOK, CliTypeOK
<1>3. CASE TakeKey \/ TakeText
  BY <1>3 DEF TakeKey, TakeText, ReadDone, Buffers
<1>4. CASE StateCleanup
  BY <1>4 DEF StateCleanup
<1>5. CASE Reading
  BY <1>5, ReaderMemoryFrame DEF Reading, TypeOK
<1>6. CASE \/ Harden \/ InstallSigint \/ InstallSigterm \/ RollBack \/ Reset \/ ParseArgs
           \/ WriteHelp \/ LoadKey \/ ParseKey \/ CheckKey \/ LoadText \/ CheckText
  BY <1>6 DEF Harden, InstallSigint, InstallSigterm, RollBack, Reset, ParseArgs,
              WriteHelp, LoadKey, ParseKey, CheckKey, LoadText, CheckText
<1>7. CASE \/ Seal \/ CheckSealed \/ Emit \/ Report \/ RestoreSigint \/ RestoreSigterm
  BY <1>7 DEF Seal, CheckSealed, Emit, Report, RestoreSigint, RestoreSigterm
<1>8. CASE Environment
  BY <1>8 DEF Environment, Call, ProducerStep, BrokenPipe, SignalHandled, SignalForCaller,
              SignalKills
<1>9. CASE UNCHANGED vars
  BY <1>9 DEF vars
<1> QED
  BY <1>1, <1>2, <1>3, <1>4, <1>5, <1>6, <1>7, <1>8, <1>9 DEF Next, Program, Finished

\* The buffers stay well typed.
LEMMA MemoryType == ASSUME TypeOK, [Next]_vars PROVE MemoryTypeOK'
<1>0. MemoryStep /\ MemoryTypeOK
  BY MemoryFrame DEF TypeOK
<1> USE DEF MemoryTypeOK
<1>1. ASSUME NEW b \in Buffers, NEW n \in Nat, Alloc(b, n) \/ Release(b, n)
      PROVE MemoryTypeOK'
  BY <1>0, <1>1 DEF Alloc, Release
<1>2. ASSUME NEW b \in Buffers, NEW c \in Buffers, HandOver(b, c)
      PROVE MemoryTypeOK'
  BY <1>0, <1>2 DEF HandOver
<1>3. CASE ReleaseAll(Buffers \ {"reading"}, WipeLen)
  BY <1>0, <1>3 DEF ReleaseAll
<1>4. CASE UNCHANGED memoryVars
  BY <1>0, <1>4 DEF memoryVars
<1> QED
  BY <1>0, <1>1, <1>2, <1>3, <1>4 DEF MemoryStep

-----------------------------------------------------------------------------
(* The stream and the read.                                                  *)

\* The read's end as the CLI takes it: only rpc changes.
ReadTaken == rpc' = "idle" /\ UNCHANGED <<pipeVars, max, got, from, result>>

StreamStep == \/ \E limit \in Nat : StartRead(limit)
              \/ ReadTaken
              \/ ReaderStep \/ Producer \/ CallFails
              \/ UNCHANGED streamVars

\* Whatever a step does to the stream is a step of the read, of the producer or
\* of a failing system call, the start or the end of a read, or nothing.
LEMMA StreamFrame == [Next]_vars => StreamStep
<1> SUFFICES ASSUME [Next]_vars PROVE StreamStep
  OBVIOUS
<1> USE DEF StreamStep
<1>1. CASE LoadKey \/ LoadText
  BY <1>1, CliAssumption DEF LoadKey, LoadText
<1>2. CASE TakeKey \/ TakeText
  BY <1>2 DEF TakeKey, TakeText, ReadDone, ReadTaken
<1>3. CASE Reading \/ ProducerStep
  BY <1>3 DEF Reading, ProducerStep
<1>4. CASE \/ Harden \/ StateInit \/ InstallSigint \/ InstallSigterm \/ RollBack \/ Reset
           \/ ParseArgs \/ WriteHelp \/ CopyKey \/ ParseKey \/ CheckKey \/ CopyText
           \/ CheckText
  BY <1>4 DEF Harden, StateInit, InstallSigint, InstallSigterm, RollBack, Reset,
              ParseArgs, WriteHelp, CopyKey, ParseKey, CheckKey, CopyText, CheckText
<1>5. CASE \/ Prepare \/ Seal \/ CheckSealed \/ Emit \/ Report \/ RestoreSigint
           \/ RestoreSigterm \/ StateCleanup
  BY <1>5 DEF Prepare, Seal, CheckSealed, Emit, Report, RestoreSigint, RestoreSigterm,
              StateCleanup
<1>6. CASE \/ Call \/ BrokenPipe
           \/ \E s \in Sigs : SignalHandled(s) \/ SignalForCaller(s) \/ SignalKills(s)
  BY <1>6 DEF Call, BrokenPipe, SignalHandled, SignalForCaller, SignalKills
<1>7. CASE UNCHANGED vars
  BY <1>7 DEF vars
<1> QED
  BY <1>1, <1>2, <1>3, <1>4, <1>5, <1>6, <1>7 DEF Next, Program, Environment, Finished

\* The stream and the read stay well typed.
LEMMA StreamType == ASSUME StreamTypeOK, [Next]_vars PROVE StreamTypeOK'
<1>0. StreamStep
  BY StreamFrame
<1> USE DEF StreamTypeOK, pipeVars, readVars, ReadPcs, Status, OK
<1>1. ASSUME NEW limit \in Nat, StartRead(limit) PROVE StreamTypeOK'
  BY <1>1 DEF StartRead
<1>2. CASE ReadTaken
  BY <1>2 DEF ReadTaken
<1>3. CASE ReaderStep
  <2>1. CASE ReadCheck \/ ReadAlloc
    BY <2>1 DEF ReadCheck, ReadAlloc, ReadGoto, Refuse
  <2>2. CASE FreadByte \/ FreadReturns
    BY <2>2 DEF FreadByte, FreadReturns, ReadGoto
  <2>3. CASE Sleep \/ Wake \/ ReadFails
    BY <2>3 DEF Sleep, Wake, ReadFails, CallFails, ReadGoto
  <2>4. CASE ReadAfter \/ ProbeEof
    BY <2>4 DEF ReadAfter, ProbeEof, ReadGoto, Discard, Refuse
  <2>5. CASE Probe
    BY <2>5 DEF Probe, ReadGoto
  <2>6. CASE Unget
    BY <2>6 DEF Unget, Discard, Refuse
  <2> QED
    BY <1>3, <2>1, <2>2, <2>3, <2>4, <2>5, <2>6 DEF ReaderStep
<1>4. CASE Producer
  BY <1>4 DEF Producer, Produce, CloseWriter
<1>5. CASE CallFails
  BY <1>5 DEF CallFails, ReadGoto
<1>6. CASE UNCHANGED streamVars
  BY <1>6 DEF streamVars
<1> QED
  BY <1>0, <1>1, <1>2, <1>3, <1>4, <1>5, <1>6 DEF StreamStep

-----------------------------------------------------------------------------
(* The call.                                                                 *)

\* A request is one of those the process may get, so its fields have their types.
LEMMA RequestFields ==
    ASSUME NEW r \in Requests
    PROVE  /\ r.key \in KeyDocType /\ r.keyLen \in Nat /\ r.textLen \in Nat
           /\ Cleanup(r) \in Pcs
  BY CliAssumption DEF RequestType, Cleanup, Pcs

\* The state of the call stays well typed.
LEMMA CliType == ASSUME TypeOK, [Next]_vars PROVE CliTypeOK'
<1> USE DEF CliTypeOK, Pcs, Goto, Fail, Status, OK, ERR_INPUT, ERR_CRYPTO, ERR_INTERNAL,
            ERR_IO, ERR_SIGNAL, quiet, callVars
<1>0. CliTypeOK
  BY DEF TypeOK
<1>1. CASE Call
  <2>1. req' \in Requests
    BY <1>1 DEF Call
  <2>2. cap' \in [Capped -> Nat]
    BY <1>1 DEF Call
  <2>3. req'.key \in KeyDocType /\ req'.keyLen \in Nat
    BY <2>1, RequestFields
  <2>4. calls' \in Nat
    BY <1>0, <1>1 DEF Call
  <2>5. caught' \in SUBSET {"setup", "work", "late"} /\ diag' \in BOOLEAN
    BY <1>1 DEF Call
  <2>6. pc' \in Pcs /\ argvText' \in {"absent", "present", "zeroed"}
    BY <1>1 DEF Call
  <2> QED
    BY <1>0, <1>1, <2>1, <2>2, <2>3, <2>4, <2>5, <2>6 DEF Call
<1>2. CASE Harden \/ StateInit
  <2>1. CASE Harden
    <3>1. /\ pc' \in {"init", "returned"} /\ rc' \in {rc, ERR_INTERNAL}
          /\ diag' \in BOOLEAN /\ hardened' \in BOOLEAN
      BY <1>0, <2>1 DEF Harden
    <3>2. UNCHANGED <<callVars, out, oerr, calls, delivered, inherited, caught, ioBefore>>
      BY <2>1 DEF Harden
    <3> QED
      BY <1>0, <3>1, <3>2
  <2>2. CASE StateInit
    BY <1>0, <2>2 DEF StateInit
  <2> QED
    BY <1>2, <2>1, <2>2
<1>3. CASE InstallSigint \/ InstallSigterm \/ RollBack \/ Reset
  <2>1. CASE InstallSigint
    BY <1>0, <2>1 DEF InstallSigint
  <2>2. CASE InstallSigterm
    BY <1>0, <2>2 DEF InstallSigterm
  <2>3. CASE RollBack
    BY <1>0, <2>3 DEF RollBack
  <2>4. CASE Reset
    BY <1>0, <2>4 DEF Reset
  <2> QED
    BY <1>3, <2>1, <2>2, <2>3, <2>4
<1>4. CASE ParseArgs \/ LoadKey \/ ParseKey \/ CheckKey \/ LoadText \/ CheckText
  <2>1. CASE ParseArgs
    BY <1>0, <2>1 DEF ParseArgs
  <2>2. CASE LoadKey
    BY <1>0, <2>2 DEF LoadKey
  <2>3. CASE ParseKey
    BY <1>0, <2>3 DEF ParseKey
  <2>4. CASE CheckKey
    BY <1>0, <2>4 DEF CheckKey
  <2>5. CASE LoadText
    BY <1>0, <2>5 DEF LoadText
  <2>6. CASE CheckText
    BY <1>0, <2>6 DEF CheckText
  <2> QED
    BY <1>4, <2>1, <2>2, <2>3, <2>4, <2>5, <2>6
<1>5. CASE WriteHelp \/ Emit \/ Report
  <2>1. CASE WriteHelp
    BY <1>0, RequestFields, <2>1 DEF WriteHelp
  <2>2. CASE Emit
    BY <1>0, RequestFields, <2>2 DEF Emit
  <2>3. CASE Report
    BY <1>0, RequestFields, <2>3 DEF Report
  <2> QED
    BY <1>5, <2>1, <2>2, <2>3
<1>6. CASE TakeKey
  <2>1. got \in Nat /\ result \in Status
    BY DEF TypeOK, StreamTypeOK
  <2>2. \A n \in 1 .. got : n \in Nat
    BY <2>1
  <2> QED
    BY <1>0, <1>6, <2>1, <2>2, CliAssumption DEF TakeKey
<1>7. CASE TakeText
  BY <1>0, <1>7 DEF TakeText, TypeOK, StreamTypeOK
<1>8. CASE CopyKey
  <2>1. keyLen + 1 \in Nat
    BY <1>0
  <2>2. cap' \in [Capped -> Nat]
    BY <1>0, <1>8, <2>1 DEF CopyKey
  <2> QED
    BY <1>0, <1>8, <2>2 DEF CopyKey
<1>9. CASE CopyText
  <2>1. req.textLen + 1 \in Nat
    BY <1>0, RequestFields
  <2>2. cap' \in [Capped -> Nat]
    BY <1>0, <1>9, <2>1 DEF CopyText
  <2> QED
    BY <1>0, <1>9, <2>2, RequestFields DEF CopyText
<1>10. CASE Prepare
  <2>1. RequiredOutputLen(msgLen) \in Nat
    BY <1>0, OutputLenType
  <2>2. cap' \in [Capped -> Nat]
    BY <1>0, <1>10, <2>1 DEF Prepare
  <2> QED
    BY <1>0, <1>10, <2>2 DEF Prepare
<1>11. CASE Seal \/ CheckSealed
  <2>1. CASE Seal
    BY <1>0, <2>1 DEF Seal, SealStatuses
  <2>2. CASE CheckSealed
    BY <1>0, <2>2 DEF CheckSealed
  <2> QED
    BY <1>11, <2>1, <2>2
<1>12. CASE RestoreSigint \/ RestoreSigterm \/ StateCleanup
  <2>1. CASE RestoreSigint
    BY <1>0, <2>1 DEF RestoreSigint
  <2>2. CASE RestoreSigterm
    BY <1>0, <2>2 DEF RestoreSigterm
  <2>3. CASE StateCleanup
    BY <1>0, <2>3 DEF StateCleanup
  <2> QED
    BY <1>12, <2>1, <2>2, <2>3
<1>13. CASE Reading
  BY <1>0, <1>13 DEF Reading, cliVars
<1>14. CASE BrokenPipe \/ ProducerStep \/ UNCHANGED vars
  <2>1. CASE BrokenPipe
    BY <1>0, <2>1 DEF BrokenPipe
  <2>2. CASE ProducerStep
    BY <1>0, <2>2 DEF ProducerStep, cliVars
  <2>3. CASE UNCHANGED vars
    BY <1>0, <2>3 DEF vars, cliVars
  <2> QED
    BY <1>14, <2>1, <2>2, <2>3
<1>15. ASSUME NEW s \in Sigs, SignalHandled(s) PROVE CliTypeOK'
  <2>1. Phase \in {"setup", "work", "late"}
    BY DEF Phase
  <2>2. caught' \in SUBSET {"setup", "work", "late"}
    BY <1>0, <1>15, <2>1 DEF SignalHandled
  <2> QED
    BY <1>0, <1>15, <2>2 DEF SignalHandled, Deliver
<1>16. ASSUME NEW s \in Sigs, SignalForCaller(s) \/ SignalKills(s) PROVE CliTypeOK'
  <2>1. delivered' \in Nat
    BY <1>0, <1>16 DEF SignalForCaller, SignalKills, Deliver
  <2>2. CASE SignalForCaller(s)
    BY <1>0, <2>1, <2>2 DEF SignalForCaller
  <2>3. CASE SignalKills(s)
    BY <1>0, <2>1, <2>3 DEF SignalKills
  <2> QED
    BY <1>16, <2>2, <2>3
<1> HIDE DEF CliTypeOK, Pcs, Goto, Fail, Status, OK, ERR_INPUT, ERR_CRYPTO, ERR_INTERNAL,
             ERR_IO, ERR_SIGNAL, quiet, callVars
<1>17. ASSUME Program PROVE CliTypeOK'
  BY <1>17, <1>2, <1>3, <1>4, <1>5, <1>6, <1>7, <1>8, <1>9, <1>10, <1>11, <1>12, <1>13
     DEF Program
<1>18. ASSUME Environment PROVE CliTypeOK'
  BY <1>18, <1>1, <1>14, <1>15, <1>16 DEF Environment
<1> QED
  BY <1>14, <1>17, <1>18 DEF Next, Finished

\* Every variable has its type in every state: the type invariant is inductive.
THEOREM TypeCorrect == Spec => []TypeOK
<1>1. Init => TypeOK
  <2> SUFFICES ASSUME Init PROVE TypeOK
    OBVIOUS
  <2>1. StreamTypeOK
    <3>1. ferr \in BOOLEAN
      BY DEF Init, StreamInit
    <3> QED
      BY <3>1 DEF Init, StreamInit, StreamTypeOK, ReadPcs, Status
  <2>2. SignalsTypeOK
    BY DEF Init, SignalsInit, SignalsTypeOK, Dispositions
  <2>3. MemoryTypeOK
    BY DEF Init, MemoryInit, MemoryTypeOK
  <2>4. CliTypeOK
    BY RequestFields DEF Init, CliTypeOK, Pcs, Status, SignalsInit
  <2> QED
    BY <2>1, <2>2, <2>3, <2>4 DEF TypeOK
<1>2. TypeOK /\ [Next]_vars => TypeOK'
  BY StreamType, SignalsType, MemoryType, CliType DEF TypeOK
<1> QED
  BY <1>1, <1>2, PTL DEF Spec

-----------------------------------------------------------------------------
(* The dispositions are given back.                                          *)

\* A step that leaves the signal state alone, and goes to a clean label only
\* from one, keeps the invariant.
LEMMA QuietHandlers ==
    ASSUME HandlersInv, UNCHANGED <<signalVars, inherited>>,
           pc' = "killed" \/ /\ pc # "killed"
                             /\ pc' \in ManagedPcs => req'.manage
                             /\ req.manage => req'.manage \/ pc \in CleanPcs
                             /\ pc' \in CleanPcs => pc \in CleanPcs \/ ~req.manage
                             /\ pc' \notin {"rollback", "installTerm", "restoreTerm"}
    PROVE  HandlersInv'
  BY DEF HandlersInv, Theirs, Ours, signalVars

\* Every step keeps it.
LEMMA HandlersStep ==
    ASSUME TypeOK, HandlersInv, [Next]_vars PROVE HandlersInv'
<1> USE DEF quiet, callVars, Goto, Fail, ManagedPcs, CleanPcs
<1>0. SignalsTypeOK /\ req.manage \in BOOLEAN /\ \A s \in Sigs : s = "SIGINT" \/ s = "SIGTERM"
  BY CliAssumption DEF TypeOK, CliTypeOK, RequestType, Sigs
<1>1. CASE Call
  BY <1>1 DEF Call, HandlersInv, Theirs, Ours, signalVars
<1>2. CASE Harden \/ StateInit
  BY <1>2, QuietHandlers DEF Harden, StateInit
<1>3. CASE InstallSigint
  BY <1>0, <1>3 DEF InstallSigint, InstallHandler, HandlersInv, Theirs, Ours, signalVars,
                    SignalsTypeOK, Sigs
<1>4. CASE InstallSigterm
  <2>1. CASE InstallHandler("SIGTERM") /\ Goto("reset")
    BY <1>0, <1>4, <2>1 DEF InstallSigterm, InstallHandler, HandlersInv, Theirs, Ours,
                            SignalsTypeOK, Sigs
  <2>2. CASE Goto("rollback") /\ UNCHANGED signalVars
    BY <1>0, <1>4, <2>2 DEF InstallSigterm, HandlersInv, Theirs, Ours, signalVars, Sigs
  <2> QED
    BY <1>4, <2>1, <2>2 DEF InstallSigterm
<1>5. CASE RollBack
  BY <1>0, <1>5 DEF RollBack, RollBackSigint, HandlersInv, Theirs, Ours, SignalsTypeOK, Sigs
<1>6. CASE Reset
  BY <1>6 DEF Reset, ResetInterrupted, HandlersInv, Theirs, Ours
<1>7. CASE RestoreSigint
  BY <1>0, <1>7 DEF RestoreSigint, RestoreHandler, HandlersInv, Theirs, Ours, SignalsTypeOK,
                    Sigs
<1>8. CASE RestoreSigterm
  BY <1>0, <1>8 DEF RestoreSigterm, RestoreHandler, HandlersInv, Theirs, Ours, SignalsTypeOK,
                    Sigs
<1>9. CASE ParseArgs \/ LoadKey \/ TakeKey \/ CopyKey \/ ParseKey \/ CheckKey
  BY <1>9, QuietHandlers
  DEF ParseArgs, LoadKey, TakeKey, CopyKey, ParseKey, CheckKey
<1>10. CASE LoadText \/ TakeText \/ CopyText \/ CheckText \/ Prepare \/ Seal \/ CheckSealed
  BY <1>10, QuietHandlers
  DEF LoadText, TakeText, CopyText, CheckText, Prepare, Seal, CheckSealed
<1>11. CASE WriteHelp \/ Emit \/ Report
  BY <1>0, <1>11, QuietHandlers DEF WriteHelp, Emit, Report, Cleanup
<1>12. CASE StateCleanup
  BY <1>12, QuietHandlers DEF StateCleanup
<1>13. CASE Reading \/ ProducerStep \/ UNCHANGED vars
  BY <1>13 DEF Reading, ProducerStep, vars, cliVars, signalVars, HandlersInv, Theirs, Ours
<1>14. ASSUME NEW s \in Sigs, SignalHandled(s) \/ SignalForCaller(s) PROVE HandlersInv'
  BY <1>14 DEF SignalHandled, SignalForCaller, Deliver, HandlerRuns, signalVars,
               HandlersInv, Theirs, Ours
<1>15. ASSUME NEW s \in Sigs, BrokenPipe \/ SignalKills(s) PROVE HandlersInv'
  BY <1>15 DEF BrokenPipe, SignalKills, HandlersInv
<1>16. CASE BrokenPipe
  BY <1>16 DEF BrokenPipe, HandlersInv
<1> QED
  BY <1>1, <1>2, <1>3, <1>4, <1>5, <1>6, <1>7, <1>8, <1>9, <1>10, <1>11, <1>12, <1>13,
     <1>14, <1>15, <1>16 DEF Next, Program, Environment, Finished

\* HandlersInv holds in every reachable state.
LEMMA HandlersInvariant == Spec => []HandlersInv
<1>1. Init => HandlersInv
  BY DEF Init, SignalsInit, HandlersInv, Theirs, ManagedPcs
<1>2. TypeOK /\ HandlersInv /\ [Next]_vars => HandlersInv'
  BY HandlersStep
<1> QED
  BY <1>1, <1>2, TypeCorrect, PTL DEF Spec

\* A call that returns has given both dispositions back, whichever of the paths
\* through ensure and restore it took and whatever signals came in between.
THEOREM HandlersCorrect == Spec => []HandlersRestored
<1>1. TypeOK /\ HandlersInv => HandlersRestored
  <2> SUFFICES ASSUME TypeOK, HandlersInv, pc = "returned"
               PROVE  disposition = inherited /\ \A s \in Sigs : ~haveSaved[s]
    BY DEF HandlersRestored
  <2>1. \A s \in Sigs : Theirs(s)
    BY DEF HandlersInv, CleanPcs
  <2> QED
    BY <2>1 DEF Theirs, TypeOK, SignalsTypeOK, CliTypeOK
<1> QED
  BY <1>1, HandlersInvariant, TypeCorrect, PTL

-----------------------------------------------------------------------------
(* Nothing is left in memory.                                                *)

\* The wipe lengths, one buffer at a time.
LEMMA WipeLenValues ==
    /\ WipeLen["stdin_key"] = KeyMax + 1
    /\ WipeLen["stdin_plaintext"] = TextMax + 1
    /\ WipeLen["fixed"] = 1
    /\ \A b \in Capped : WipeLen[b] = cap[b]
  BY DEF WipeLen, Capped, Buffers

\* The next ones: a capped buffer follows cap, the others never change.
LEMMA WipeLenNext ==
    /\ \A b \in Capped : WipeLen'[b] = cap'[b]
    /\ \A b \in Buffers \ (Capped \cup {"reading"}) : WipeLen'[b] = WipeLen[b]
  BY DEF WipeLen, Capped, Buffers

\* Only cap decides the wipe lengths.
LEMMA WipeLenStays == ASSUME UNCHANGED cap PROVE WipeLen' = WipeLen
  BY DEF WipeLen

\* Lengths still agree if every buffer stays, goes, or gets its wipe length.
LEMMA LengthsStay ==
    ASSUME LengthsAgree, UNCHANGED cap,
           \A b \in Buffers \ {"reading"} : heap'[b] \in {0, heap[b], WipeLen[b]}
    PROVE  LengthsAgree'
  BY WipeLenStays DEF LengthsAgree

\* A step that moves on without touching memory or a read keeps the invariant.
LEMMA QuietScrub ==
    ASSUME ScrubInv, UNCHANGED <<memoryVars, streamVars, cap>>,
           pc' = "killed" \/ /\ pc \notin {"killed", "readKey", "readText"}
                             /\ pc' \notin {"readKey", "readText"}
                             /\ pc' \in EmptyPcs => pc \in EmptyPcs
                             /\ pc' \in BeforeCopyText => pc \in EmptyPcs \cup BeforeCopyText
    PROVE  ScrubInv'
<1>1. residue' = {}
  BY DEF ScrubInv, memoryVars
<1>2. CASE pc' = "killed"
  BY <1>1, <1>2 DEF ScrubInv
<1>3. CASE pc' # "killed"
  <2>1. LengthsAgree'
    BY <1>3, LengthsStay DEF ScrubInv, memoryVars
  <2>2. ReadLinked' /\ ReadBuffer'
    BY <1>3 DEF ScrubInv, ReadLinked, ReadBuffer, NoReadBuffer, memoryVars, streamVars, EmptyPcs
  <2>3. "argv_plaintext_copy" \in Buffers
    BY DEF Buffers
  <2> QED
    BY <1>1, <1>3, <2>1, <2>2, <2>3 DEF ScrubInv, memoryVars
<1> QED
  BY <1>2, <1>3

\* What a step of the read does to its buffer: nothing, or a release of the
\* whole of it, and the other buffers are left alone.
LEMMA ReaderBuffer ==
    ASSUME MemoryTypeOK, StreamTypeOK, residue = {}, ReadBuffer, ReaderStep,
           rpc # "done" => result = OK
    PROVE  /\ residue' = {} /\ ReadBuffer'
           /\ \A b \in Buffers \ {"reading"} : heap'[b] = heap[b]
<1> DEFINE Goal == /\ residue' = {} /\ ReadBuffer'
                   /\ \A b \in Buffers \ {"reading"} : heap'[b] = heap[b]
<1> USE DEF ReadBuffer, NoReadBuffer, MemoryTypeOK
<1>0. max \in Nat /\ "reading" \in Buffers
  BY DEF StreamTypeOK, Buffers
<1>1. ASSUME NEW s, s # OK, Discard(s), rpc \in {"after", "probeEof", "unget"} PROVE Goal
  BY <1>0, <1>1 DEF Discard, Release, Refuse
<1>2. CASE ReadCheck
  BY <1>2 DEF ReadCheck, Refuse, ReadGoto, memoryVars, OK, ERR_SIGNAL
<1>3. CASE ReadAlloc
  BY <1>0, <1>3 DEF ReadAlloc, Alloc, Refuse, ReadGoto, memoryVars, OK, ERR_INTERNAL
<1>4. CASE FreadByte \/ FreadReturns
  BY <1>4 DEF FreadByte, FreadReturns, ReadGoto, memoryVars
<1>5. CASE Sleep \/ Wake \/ ReadFails
  BY <1>5 DEF Sleep, Wake, ReadFails, CallFails, ReadGoto, memoryVars
<1>6. CASE Probe
  BY <1>6 DEF Probe, ReadGoto, memoryVars
<1>7. OK # ERR_SIGNAL /\ OK # ERR_IO /\ OK # ERR_INPUT
  BY DEF OK, ERR_SIGNAL, ERR_IO, ERR_INPUT
<1>8. CASE ReadAfter
  <2>1. CASE (ReadGoto("probe") \/ ReadGoto("done")) /\ UNCHANGED memoryVars
    BY <1>8, <2>1 DEF ReadAfter, ReadGoto, memoryVars
  <2> QED
    BY <1>1, <1>7, <1>8, <2>1 DEF ReadAfter
<1>9. CASE ProbeEof
  <2>1. CASE ReadGoto("done") /\ UNCHANGED memoryVars
    BY <1>9, <2>1 DEF ProbeEof, ReadGoto, memoryVars
  <2> QED
    BY <1>1, <1>7, <1>9, <2>1 DEF ProbeEof
<1>10. CASE Unget
  BY <1>1, <1>7, <1>10 DEF Unget
<1> QED
  BY <1>2, <1>3, <1>4, <1>5, <1>6, <1>8, <1>9, <1>10 DEF ReaderStep

\* A step of the read keeps the invariant.
LEMMA ReaderKeepsScrub ==
    ASSUME TypeOK, ScrubInv, Reading PROVE ScrubInv'
<1>1. /\ ReaderStep /\ pc' = pc /\ cap' = cap /\ pc # "killed"
      /\ residue = {} /\ ReadLinked /\ ReadBuffer /\ LengthsAgree
      /\ MemoryTypeOK /\ StreamTypeOK
  BY DEF Reading, cliVars, callVars, TypeOK, ScrubInv
<1>2. /\ rpc \notin {"idle", "done"} /\ rpc' # "idle" /\ UNCHANGED max
      /\ rpc' = "done" \/ UNCHANGED result
  BY <1>1 DEF ReaderStep, ReadCheck, ReadAlloc, FreadByte, FreadReturns, Sleep, Wake,
              ReadFails, CallFails, ReadAfter, Discard, Probe, ProbeEof, Unget, ReadGoto, Refuse
<1>3. /\ residue' = {} /\ ReadBuffer'
      /\ \A b \in Buffers \ {"reading"} : heap'[b] = heap[b]
  BY <1>1, <1>2, ReaderBuffer DEF ReadLinked
<1>4. LengthsAgree'
  BY <1>1, <1>3, LengthsStay
<1>5. ReadLinked'
  BY <1>1, <1>2 DEF ReadLinked
<1>6. pc \in {"readKey", "readText"} /\ "argv_plaintext_copy" \in Buffers \ {"reading"}
  BY <1>1, <1>2 DEF ReadLinked, Buffers
<1> QED
  BY <1>1, <1>3, <1>4, <1>5, <1>6 DEF ScrubInv, EmptyPcs

\* Every other step keeps it, too.
LEMMA ScrubStep ==
    ASSUME TypeOK, ScrubInv, [Next]_vars PROVE ScrubInv'
<1> USE DEF quiet, callVars, Goto, Fail, EmptyPcs, BeforeCopyText
<1>0. MemoryTypeOK /\ StreamTypeOK /\ CliTypeOK /\ residue = {}
  BY DEF TypeOK, ScrubInv
<1>b. /\ {"stdin_key", "stdin_plaintext", "fixed"} \subseteq Buffers \ {"reading"}
      /\ Capped \subseteq Buffers \ {"reading"} /\ "reading" \in Buffers
      /\ Capped = {"trimmed_key_input", "argv_plaintext_copy", "output"}
  BY DEF Buffers, Capped
<1>1. CASE Call
  <2>1. LengthsAgree'
    BY <1>1 DEF Call, ScrubInv, LengthsAgree, memoryVars
  <2>2. ReadLinked' /\ ReadBuffer'
    BY <1>1 DEF Call, ScrubInv, ReadLinked, ReadBuffer, NoReadBuffer, memoryVars, streamVars
  <2> QED
    BY <1>b, <1>1, <2>1, <2>2 DEF Call, ScrubInv, memoryVars
<1>2. CASE Harden \/ InstallSigint \/ InstallSigterm \/ RollBack \/ Reset
  BY <1>2, QuietScrub DEF Harden, InstallSigint, InstallSigterm, RollBack, Reset
<1>3. CASE ParseArgs \/ ParseKey \/ CheckKey \/ CheckText \/ Seal \/ CheckSealed
  BY <1>3, QuietScrub DEF ParseArgs, ParseKey, CheckKey, CheckText, Seal, CheckSealed
<1>4. CASE WriteHelp \/ Emit \/ Report \/ RestoreSigint \/ RestoreSigterm
  BY <1>4, QuietScrub DEF WriteHelp, Emit, Report, RestoreSigint, RestoreSigterm, Cleanup
<1>5. CASE BrokenPipe \/ \E s \in Sigs : SignalKills(s)
  BY <1>0, <1>5 DEF BrokenPipe, SignalKills, ScrubInv, memoryVars
<1>6. CASE Reading
  BY <1>6, ReaderKeepsScrub
<1>7. CASE ProducerStep \/ UNCHANGED vars
  <2>1. UNCHANGED <<pc, cap, memoryVars, rpc, max, result>>
    BY <1>7 DEF ProducerStep, Producer, Produce, CloseWriter, readVars, cliVars, vars, streamVars
  <2>2. LengthsAgree' \/ pc = "killed"
    BY <2>1, LengthsStay DEF ScrubInv, memoryVars
  <2> QED
    BY <1>0, <2>1, <2>2 DEF ScrubInv, ReadLinked, ReadBuffer, NoReadBuffer, memoryVars
<1>8. ASSUME NEW s \in Sigs, SignalHandled(s) \/ SignalForCaller(s) PROVE ScrubInv'
  <2>1. /\ UNCHANGED <<pc, cap, memoryVars, max, result>> /\ pc # "killed"
        /\ rpc' = rpc \/ (rpc \in Blocked /\ rpc' \in {"after", "probeEof"})
    BY <1>8 DEF SignalHandled, SignalForCaller, Deliver, Running, CallFails, ReadGoto, streamVars,
                Blocked
  <2>2. LengthsAgree'
    BY <2>1, LengthsStay DEF ScrubInv, memoryVars
  <2>3. ReadLinked' /\ ReadBuffer'
    BY <2>1 DEF ScrubInv, ReadLinked, ReadBuffer, NoReadBuffer, memoryVars, Blocked
  <2> QED
    BY <1>0, <2>1, <2>2, <2>3 DEF ScrubInv, memoryVars
<1>9. CASE StateInit
  <2>1. CASE req.args = "badShape"
    BY <1>9, <2>1, QuietScrub DEF StateInit
  <2>2. CASE req.args # "badShape"
    <3>1. /\ Alloc("fixed", 1) /\ UNCHANGED <<streamVars, cap>>
          /\ pc = "init" /\ pc' \in {"installInt", "reset"}
      BY <1>9, <2>2 DEF StateInit
    <3>2. LengthsAgree'
      BY <1>0, <3>1, WipeLenValues, LengthsStay DEF ScrubInv, Alloc, MemoryTypeOK
    <3>3. ReadLinked' /\ ReadBuffer'
      BY <1>0, <1>b, <3>1 DEF ScrubInv, ReadLinked, ReadBuffer, NoReadBuffer, Alloc, streamVars,
                              MemoryTypeOK
    <3> QED
      BY <1>0, <1>b, <3>1, <3>2, <3>3 DEF ScrubInv, Alloc, MemoryTypeOK
  <2> QED
    BY <2>1, <2>2
<1>10. CASE LoadKey \/ LoadText
  <2>1. CASE UNCHANGED streamVars
    BY <1>10, <2>1, QuietScrub DEF LoadKey, LoadText, ScrubInv, ReadLinked, StartRead, streamVars
  <2>2. CASE ~UNCHANGED streamVars
    <3>1. /\ UNCHANGED <<memoryVars, cap>>
          /\ \/ pc = "loadKey" /\ pc' = "readKey" /\ StartRead(KeyMax)
             \/ pc = "loadText" /\ pc' = "readText" /\ StartRead(TextMax)
      BY <1>10, <2>2 DEF LoadKey, LoadText
    <3>2. LengthsAgree'
      BY <3>1, LengthsStay DEF ScrubInv, memoryVars
    <3>3. ReadLinked' /\ ReadBuffer'
      BY <3>1 DEF ScrubInv, ReadLinked, ReadBuffer, NoReadBuffer, memoryVars, StartRead
    <3> QED
      BY <1>0, <3>1, <3>2, <3>3 DEF ScrubInv, memoryVars
  <2> QED
    BY <2>1, <2>2
<1>11. CASE TakeKey \/ TakeText
  <2>1. PICK dest \in {"stdin_key", "stdin_plaintext"} :
            /\ ReadDone(dest) /\ UNCHANGED cap
            /\ heap["reading"] = IF result = OK THEN WipeLen[dest] ELSE 0
            /\ pc' \in {"report", "copyKey", "checkText"}
            /\ pc' = "copyKey" => pc = "readKey"
            /\ pc # "killed"
    <3>1. CASE TakeKey
      BY <1>11, <3>1, WipeLenValues
      DEF TakeKey, ScrubInv, ReadLinked, ReadBuffer, NoReadBuffer, ReadDone
    <3>2. CASE TakeText
      BY <1>11, <3>2, WipeLenValues
      DEF TakeText, ScrubInv, ReadLinked, ReadBuffer, NoReadBuffer, ReadDone
    <3> QED
      BY <1>11, <3>1, <3>2
  <2>2. \A b \in Buffers \ {"reading"} : heap'[b] \in {0, heap[b], WipeLen[b]}
    BY <1>0, <2>1 DEF ReadDone, HandOver, memoryVars, MemoryTypeOK
  <2>3. LengthsAgree'
    BY <2>1, <2>2, LengthsStay DEF ScrubInv
  <2>4. ReadLinked' /\ ReadBuffer'
    BY <1>0, <1>b, <2>1 DEF ScrubInv, ReadLinked, ReadBuffer, NoReadBuffer, ReadDone, HandOver,
                            memoryVars, MemoryTypeOK
  <2>5. heap'["argv_plaintext_copy"] = heap["argv_plaintext_copy"] /\ residue' = {}
    BY <1>0, <1>b, <2>1 DEF ReadDone, HandOver, memoryVars, MemoryTypeOK
  <2> QED
    BY <2>1, <2>3, <2>4, <2>5 DEF ScrubInv
<1>12. CASE CopyKey \/ CopyText \/ Prepare
  <2>1. PICK c \in Capped : \E n \in Nat :
            /\ pc \in {"copyKey", "copyText", "prepare"} /\ pc' \notin EmptyPcs
            /\ pc' \notin {"killed", "readKey", "readText"}
            /\ pc' \in BeforeCopyText => pc \in BeforeCopyText /\ c # "argv_plaintext_copy"
            /\ UNCHANGED streamVars
            /\ \/ UNCHANGED <<memoryVars, cap>>
               \/ /\ Alloc(c, n) \/ (UNCHANGED memoryVars /\ heap[c] = 0)
                  /\ cap' = [cap EXCEPT ![c] = n]
    <3>1. keyLen + 1 \in Nat /\ req.textLen + 1 \in Nat /\ RequiredOutputLen(msgLen) \in Nat
      BY <1>0, RequestFields, OutputLenType DEF CliTypeOK
    <3>2. CASE CopyKey
      BY <1>b, <3>1, <3>2 DEF CopyKey
    <3>3. CASE CopyText
      BY <1>b, <3>1, <3>3 DEF CopyText, ScrubInv
    <3>4. CASE Prepare
      BY <1>b, <3>1, <3>4 DEF Prepare
    <3> QED
      BY <1>12, <3>2, <3>3, <3>4
  <2>2. PICK n \in Nat :
            \/ UNCHANGED <<memoryVars, cap>>
            \/ /\ Alloc(c, n) \/ (UNCHANGED memoryVars /\ heap[c] = 0)
               /\ cap' = [cap EXCEPT ![c] = n]
    BY <2>1
  <2>3. CASE UNCHANGED <<memoryVars, cap>>
    BY <2>1, <2>3, QuietScrub
  <2>4. CASE /\ Alloc(c, n) \/ (UNCHANGED memoryVars /\ heap[c] = 0)
             /\ cap' = [cap EXCEPT ![c] = n]
    <3>1. /\ heap'[c] \in {0, n} /\ residue' = {}
          /\ \A b \in Buffers \ {c} : heap'[b] = heap[b]
      BY <1>0, <1>b, <2>4 DEF Alloc, MemoryTypeOK, memoryVars
    <3>2. /\ WipeLen'[c] = n
          /\ \A b \in Buffers \ {"reading", c} : WipeLen'[b] = WipeLen[b]
      BY <1>0, <1>b, <2>4, WipeLenValues, WipeLenNext DEF CliTypeOK
    <3>3. LengthsAgree'
      BY <1>b, <2>1, <3>1, <3>2 DEF ScrubInv, LengthsAgree
    <3>4. ReadLinked' /\ ReadBuffer'
      BY <1>b, <2>1, <3>1 DEF ScrubInv, ReadLinked, ReadBuffer, NoReadBuffer, streamVars
    <3> QED
      BY <1>b, <2>1, <3>1, <3>3, <3>4 DEF ScrubInv
  <2> QED
    BY <2>2, <2>3, <2>4
<1>13. CASE StateCleanup
  <2>1. \A b \in Buffers \ {"reading"} : ~(WipeLen[b] < heap[b])
    <3> SUFFICES ASSUME NEW b \in Buffers \ {"reading"} PROVE ~(WipeLen[b] < heap[b])
      OBVIOUS
    <3>1. heap[b] \in {0, WipeLen[b]} /\ heap[b] \in Nat
      BY <1>0, <1>13 DEF StateCleanup, ScrubInv, LengthsAgree, MemoryTypeOK
    <3>2. WipeLen[b] \in Nat
      <4>1. CASE b \in Capped
        BY <1>0, <4>1, WipeLenValues DEF CliTypeOK
      <4>2. CASE b \in {"stdin_key", "stdin_plaintext", "fixed"}
        BY <4>2, CliAssumption, WipeLenValues
      <4> QED
        BY <4>1, <4>2 DEF Buffers, Capped
    <3> QED
      BY <3>1, <3>2
  <2>2. residue' = {} /\ \A b \in Buffers : heap'[b] = 0
    BY <1>0, <1>b, <1>13, <2>1
    DEF StateCleanup, ReleaseAll, ScrubInv, ReadLinked, ReadBuffer, NoReadBuffer
  <2>3. ReadLinked' /\ ReadBuffer' /\ LengthsAgree'
    BY <1>b, <1>13, <2>2
    DEF StateCleanup, ScrubInv, ReadLinked, ReadBuffer, NoReadBuffer, LengthsAgree, streamVars
  <2> QED
    BY <1>13, <2>2, <2>3 DEF StateCleanup, ScrubInv
<1> QED
  BY <1>1, <1>2, <1>3, <1>4, <1>5, <1>6, <1>7, <1>8, <1>9, <1>10, <1>11, <1>12, <1>13
  DEF Next, Program, Environment, Finished

\* ScrubInv holds in every reachable state.
LEMMA ScrubInvariant == Spec => []ScrubInv
<1>1. Init => ScrubInv
  BY DEF Init, StreamInit, MemoryInit, ScrubInv, ReadLinked, ReadBuffer, NoReadBuffer,
         LengthsAgree, EmptyPcs, BeforeCopyText, Buffers
<1>2. TypeOK /\ ScrubInv /\ [Next]_vars => ScrubInv'
  BY ScrubStep
<1> QED
  BY <1>1, <1>2, TypeCorrect, PTL DEF Spec

\* A call that returns has wiped and freed all it allocated, however it ended:
\* the lengths the releases are called with are the lengths allocated.
THEOREM ScrubbedCorrect == Spec => []Scrubbed
<1>1. ScrubInv => Scrubbed
  BY DEF ScrubInv, Scrubbed, EmptyPcs
<1> QED
  BY <1>1, ScrubInvariant, PTL
=============================================================================
