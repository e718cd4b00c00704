------------------------------- MODULE Signals -------------------------------
(***************************************************************************)
(* src/cli/signal.c: the process-wide SIGINT and SIGTERM dispositions, the *)
(* ones saved when the CLI installs its own, and the interruption flag its *)
(* handler sets.  Each sigaction() call is a step of its own, because a    *)
(* signal can be delivered between any two of them.                        *)
(***************************************************************************)
EXTENDS SaltStatus

Sigs == {"SIGINT", "SIGTERM"}

\* What the kernel does with a signal: kill the process, drop it, run a
\* handler the embedding program installed, or run salt_cli_signal_handler.
Dispositions == {"default", "ignore", "caller", "salt"}

VARIABLES disposition,  \* the disposition in force
          saved,        \* salt_cli_saved_sigint_action, ..._sigterm_action
          haveSaved,    \* salt_cli_have_saved_sigint, ..._sigterm
          interrupted   \* salt_cli_interrupted

signalVars == <<disposition, saved, haveSaved, interrupted>>

SignalsTypeOK == /\ disposition \in [Sigs -> Dispositions]
                 /\ saved \in [Sigs -> Dispositions]
                 /\ haveSaved \in [Sigs -> BOOLEAN]
                 /\ interrupted \in BOOLEAN

\* A zeroed struct sigaction is SIG_DFL.
SignalsInit == /\ disposition \in [Sigs -> Dispositions \ {"salt"}]
               /\ saved = [s \in Sigs |-> "default"]
               /\ haveSaved = [s \in Sigs |-> FALSE]
               /\ interrupted = FALSE

\* sigaction(s, &action, &saved) succeeds.
InstallHandler(s) ==
    /\ disposition' = [disposition EXCEPT ![s] = "salt"]
    /\ saved' = [saved EXCEPT ![s] = disposition[s]]
    /\ haveSaved' = [haveSaved EXCEPT ![s] = TRUE]
    /\ UNCHANGED interrupted

\* A fault to detect: the roll-back only forgets what it has saved.
RollBackForgets ==
    /\ haveSaved' = [haveSaved EXCEPT !["SIGINT"] = FALSE]
    /\ UNCHANGED <<disposition, saved, interrupted>>

\* The saved SIGINT action goes back when SIGTERM cannot be installed.
RollBackSigint ==
    /\ disposition' = [disposition EXCEPT !["SIGINT"] = saved["SIGINT"]]
    /\ haveSaved' = [haveSaved EXCEPT !["SIGINT"] = FALSE]
    /\ UNCHANGED <<saved, interrupted>>

\* One half of salt_cli_restore_signal_handlers.
RestoreHandler(s) ==
    /\ disposition' = [disposition EXCEPT ![s] = IF haveSaved[s] THEN saved[s] ELSE @]
    /\ haveSaved' = [haveSaved EXCEPT ![s] = FALSE]
    /\ UNCHANGED <<saved, interrupted>>

\* A fault to detect: the flag of an earlier call survives.
ResetNothing == UNCHANGED signalVars

\* salt_cli_reset_interrupted.
ResetInterrupted == /\ interrupted' = FALSE
                    /\ UNCHANGED <<disposition, saved, haveSaved>>

\* salt_cli_signal_handler runs.
HandlerRuns == /\ interrupted' = TRUE
               /\ UNCHANGED <<disposition, saved, haveSaved>>
=============================================================================
