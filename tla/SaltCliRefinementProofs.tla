----------------------- MODULE SaltCliRefinementProofs -----------------------
(***************************************************************************)
(* The proof that SaltCli implements CliContract: every step of the        *)
(* process is a step of the contract, or one its callers cannot see.       *)
(***************************************************************************)
EXTENDS SaltCliPromises, SaltCliRefinement

\* Where the process is, in the words of the contract.
LEMMA Phases ==
    /\ Running => phaseMap = "running" /\ pc # "returned"
    /\ pc = "returned" => phaseMap = "returned"
    /\ pc = "idle" => phaseMap = "ready"
    /\ pc = "killed" => phaseMap = "killed"
    /\ handlersMap \in {"theirs", "ours"}
  BY DEF phaseMap, Running, handlersMap

\* The same of the next state.
LEMMA NextPhases ==
    /\ Running' => phaseMap' = "running" /\ pc' # "returned"
    /\ pc' = "returned" => phaseMap' = "returned"
    /\ pc' = "killed" => phaseMap' = "killed"
    /\ handlersMap' \in {"theirs", "ours"}
  BY DEF phaseMap, Running, handlersMap

\* A step within a call that writes nothing is work nobody sees.
LEMMA Inside ==
    ASSUME Running, Running', UNCHANGED <<out, ioBefore>> PROVE Contract!Work
  BY Phases, NextPhases DEF Contract!Work

\* A step that gives up the process changes nothing else.
LEMMA Killed ==
    ASSUME Running, pc' = "killed",
           UNCHANGED <<out, ioBefore, signalVars, memoryVars, inherited>>
    PROVE  Contract!Kill
<1>1. UNCHANGED <<disposition, haveSaved, inherited, residue, heap, out, ioBefore>>
  BY DEF signalVars, memoryVars
<1>2. UNCHANGED handlersMap
  BY <1>1 DEF handlersMap
<1> QED
  BY <1>1, <1>2, Phases, NextPhases DEF Contract!Kill

\* A step that writes to stdout while nothing is there yet.
LEMMA Writes ==
    ASSUME Running, Running', out = "none", out' \in {"none", "partial", "full"},
           UNCHANGED <<signalVars, memoryVars, inherited, ioBefore>>
    PROVE  Contract!Work \/ Contract!Write
<1>1. UNCHANGED <<disposition, haveSaved, inherited, residue, heap>>
  BY DEF signalVars, memoryVars
<1>2. UNCHANGED handlersMap
  BY <1>1 DEF handlersMap
<1>3. CASE out' = "none"
  BY <1>3, Inside
<1>4. CASE out' \in {"partial", "full"}
  BY <1>1, <1>2, <1>4, Phases, NextPhases DEF Contract!Write
<1> QED
  BY <1>3, <1>4

\* A step that returns with clean hands and a status its output bears out.
LEMMA Returns ==
    ASSUME Running, pc' = "returned", UNCHANGED <<out, ioBefore>>,
           \A s \in Sigs : Theirs(s)', disposition' \in [Sigs -> Dispositions],
           inherited' \in [Sigs -> Dispositions \ {"salt"}],
           residue' = {}, \A b \in Buffers : heap'[b] = 0,
           rc' \in Status, rc' = OK => out = "full",
           rc' = ERR_IO /\ out = "full" => ioBefore,
           rc' \notin {OK, ERR_IO} => out = "none"
    PROVE  Contract!Return
<1>1. disposition' = inherited' /\ \A s \in Sigs : ~haveSaved'[s]
  BY DEF Theirs
<1>2. handlersMap' = "theirs"
  BY <1>1 DEF handlersMap
<1>3. ~(residue' # {} \/ \E b \in Buffers : heap'[b] > 0)
  BY SMT
<1> QED
  BY <1>2, <1>3, Phases, NextPhases
  DEF Contract!Return, Contract!Bears, Contract!Status, Contract!OK, Contract!ERR_IO, Contract!ERR_INPUT,
      Contract!ERR_CRYPTO, Contract!ERR_INTERNAL, Contract!ERR_SIGNAL, Status, OK, ERR_IO,
      ERR_INPUT, ERR_CRYPTO, ERR_INTERNAL, ERR_SIGNAL

\* Every step of the process is one of the contract, or none.
LEMMA ContractStep ==
    ASSUME TypeOK, TypeOK', HandlersInv, HandlersInv', ScrubInv, ScrubInv', OutcomeInv,
           [Next]_vars
    PROVE  [Contract!Next]_(Contract!contractVars)
<1> USE DEF quiet, callVars, Goto, Fail, Contract!Next
<1>1. CASE Call
  <2>1. /\ pc \in {"idle", "returned"} /\ Running' /\ out' = "none"
        /\ ioBefore' = (ioBefore \/ rc = ERR_IO) /\ (pc = "idle" => rc = OK)
        /\ UNCHANGED <<disposition, haveSaved, inherited, residue, heap>>
    BY <1>1 DEF Call, Running, OutcomeInv, signalVars, memoryVars
  <2>2. UNCHANGED handlersMap
    BY <2>1 DEF handlersMap
  <2> QED
    BY <2>1, <2>2, Phases, NextPhases
    DEF Contract!Begin, Contract!OK, Contract!ERR_IO, OK, ERR_IO
<1>2. CASE InstallSigint \/ InstallSigterm \/ RollBack \/ Reset
  BY <1>2, Inside DEF InstallSigint, InstallSigterm, RollBack, Reset, Running
<1>3. CASE ParseArgs \/ LoadKey \/ TakeKey \/ CopyKey \/ ParseKey \/ CheckKey
  BY <1>3, Inside DEF ParseArgs, LoadKey, TakeKey, CopyKey, ParseKey, CheckKey, Running
<1>4. CASE LoadText \/ TakeText \/ CopyText \/ CheckText \/ Prepare \/ Seal \/ CheckSealed
  BY <1>4, Inside
  DEF LoadText, TakeText, CopyText, CheckText, Prepare, Seal, CheckSealed, Running
<1>5. CASE Report \/ RestoreSigint \/ RestoreSigterm
  BY <1>5, Inside DEF Report, Cleanup, RestoreSigint, RestoreSigterm, Running
<1>6. CASE WriteHelp \/ Emit
  BY <1>6, Writes
  DEF WriteHelp, Emit, Cleanup, Running, OutcomeInv, Work, Sealed
<1>7. CASE BrokenPipe \/ \E s \in Sigs : SignalKills(s)
  BY <1>7, Killed DEF BrokenPipe, SignalKills, Deliver, Running
<1>8. CASE \E s \in Sigs : SignalHandled(s) \/ SignalForCaller(s)
  BY <1>8, Inside DEF SignalHandled, SignalForCaller, Deliver, Running
<1>9. CASE Reading
  <2>1. Running /\ UNCHANGED <<pc, out, ioBefore>>
    BY <1>9 DEF Reading, ScrubInv, ReadLinked, Running, ReaderStep, ReadCheck, ReadAlloc,
                FreadByte, FreadReturns, Sleep, Wake, ReadFails, CallFails, ReadAfter, Probe,
                ProbeEof, Unget, cliVars
  <2> QED
    BY <2>1, Inside DEF Running
<1>10. CASE ProducerStep \/ UNCHANGED vars
  <2>1. UNCHANGED <<pc, rc, out, ioBefore, disposition, haveSaved, inherited, residue,
                    heap>>
    BY <1>10 DEF ProducerStep, vars, cliVars, signalVars, memoryVars
  <2>2. UNCHANGED <<phaseMap, handlersMap>>
    BY <2>1 DEF phaseMap, handlersMap
  <2> QED
    BY <2>1, <2>2 DEF Contract!contractVars
<1>11. CASE Harden \/ StateInit \/ StateCleanup
  <2>1. CASE pc' # "returned"
    BY <1>11, <2>1, Inside DEF Harden, StateInit, StateCleanup, Running
  <2>2. CASE pc' = "returned"
    <3>1. Running /\ UNCHANGED <<out, ioBefore>> /\ pc # "killed" /\ pc' # "killed"
      BY <1>11, <2>2 DEF Harden, StateInit, StateCleanup, Running
    <3>2. \A s \in Sigs : Theirs(s)'
      BY <2>2 DEF HandlersInv, CleanPcs
    <3>3. residue' = {} /\ \A b \in Buffers : heap'[b] = 0
      BY <2>2 DEF ScrubInv, EmptyPcs
    <3>4. /\ rc' = OK => out = "full"
          /\ rc' = ERR_IO /\ out = "full" => ioBefore
          /\ rc' \notin {OK, ERR_IO} => out = "none"
      <4>1. CASE Harden \/ StateInit
        BY <2>2, <4>1 DEF Harden, StateInit, OutcomeInv, Setup, OK, ERR_INPUT, ERR_INTERNAL,
                          ERR_IO
      <4>2. CASE StateCleanup
        BY <2>2, <4>2 DEF StateCleanup, OutcomeInv, Leaving, Told
      <4> QED
        BY <1>11, <4>1, <4>2
    <3>5. /\ disposition' \in [Sigs -> Dispositions] /\ rc' \in Status
          /\ inherited' \in [Sigs -> Dispositions \ {"salt"}]
      BY DEF TypeOK, SignalsTypeOK, CliTypeOK
    <3> QED
      BY <2>2, <3>1, <3>2, <3>3, <3>4, <3>5, Returns
  <2> QED
    BY <2>1, <2>2
<1> QED
  BY <1>1, <1>2, <1>3, <1>4, <1>5, <1>6, <1>7, <1>8, <1>9, <1>10, <1>11
  DEF Next, Program, Environment, Finished

\* The process implements the contract: whatever a caller can see of it is a
\* behaviour of CliContract, however many calls and signals there are.
THEOREM ContractCorrect == Spec => ImplementsContract
<1>1. Init => Contract!Init
  <2> SUFFICES ASSUME Init PROVE Contract!Init
    OBVIOUS
  <2>1. disposition = inherited /\ \A s \in Sigs : ~haveSaved[s]
    BY DEF Init, SignalsInit
  <2>2. residue = {} /\ \A b \in Buffers : ~(heap[b] > 0)
    BY DEF Init, MemoryInit
  <2>3. pc = "idle" /\ out = "none" /\ handlersMap = "theirs" /\ ioBefore = FALSE
    BY <2>1 DEF Init, handlersMap
  <2> QED
    BY <2>2, <2>3, Phases DEF Contract!Init, Contract!OK, OK
<1>2. TypeOK /\ TypeOK' /\ HandlersInv /\ HandlersInv' /\ ScrubInv /\ ScrubInv' /\ OutcomeInv
        /\ [Next]_vars => [Contract!Next]_(Contract!contractVars)
  BY ContractStep
<1> QED
  BY <1>1, <1>2, TypeCorrect, HandlersInvariant, ScrubInvariant, OutcomeInvariant, PTL
  DEF Spec, ImplementsContract, Contract!ContractSpec
=============================================================================
