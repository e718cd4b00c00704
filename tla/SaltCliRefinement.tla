------------------------- MODULE SaltCliRefinement -------------------------
(***************************************************************************)
(* SaltCli implements CliContract.                                         *)
(***************************************************************************)
EXTENDS SaltCli

phaseMap == CASE pc = "idle" -> "ready"
              [] pc = "returned" -> "returned"
              [] pc = "killed" -> "killed"
              [] OTHER -> "running"

handlersMap == IF disposition = inherited /\ \A s \in Sigs : ~haveSaved[s]
               THEN "theirs" ELSE "ours"

Contract == INSTANCE CliContract WITH
    phase    <- phaseMap,
    status   <- IF pc = "returned" THEN rc ELSE OK,
    stdout   <- out,
    handlers <- handlersMap,
    secrets  <- residue # {} \/ \E b \in Buffers : heap[b] > 0,
    doubt    <- ioBefore

\* Every step of the process is one its callers' contract allows, or none they
\* can see: output comes at most once in a call, before the return, and what is
\* returned agrees with it (salt_cli_run_with_streams_internal).
ImplementsContract == Contract!ContractSpec
=============================================================================
