---------------------------- MODULE CliContract ----------------------------
(***************************************************************************)
(* What one salt process promises whoever calls it, with everything inside *)
(* left out (include/salt.h, salt_cli_run_with_streams): the result is     *)
(* written in one piece or the status says it was not, the dispositions of *)
(* SIGINT and SIGTERM are borrowed and given back, and a call that returns *)
(* keeps no secret.  The process may be killed while a call is running.    *)
(*                                                                         *)
(* A caller that has been told of an I/O failure may be told of another    *)
(* that is none: the streams are its own, and their error indicators stay. *)
(***************************************************************************)
EXTENDS SaltStatus

VARIABLES phase,     \* "ready", "running", "returned" or "killed"
          status,    \* of the call that returned last
          stdout,    \* what the current call has written: none, partial, full
          handlers,  \* whether the dispositions are the caller's: theirs, ours
          secrets,   \* whether the process holds a secret of a call
          doubt      \* whether an earlier call has returned SALT_ERR_IO

contractVars == <<phase, status, stdout, handlers, secrets, doubt>>

Init == /\ phase = "ready" /\ status = OK /\ stdout = "none"
        /\ handlers = "theirs" /\ secrets = FALSE /\ doubt = FALSE

Begin == /\ phase \in {"ready", "returned"}
         /\ phase' = "running" /\ status' = OK /\ stdout' = "none"
         /\ doubt' = (doubt \/ status = ERR_IO)
         /\ UNCHANGED <<handlers, secrets>>

\* Anything a call does inside.
Work == /\ phase = "running"
        /\ handlers' \in {"theirs", "ours"}
        /\ secrets' \in BOOLEAN
        /\ UNCHANGED <<phase, status, stdout, doubt>>

\* The one moment a call writes to stdout.
Write == /\ phase = "running" /\ stdout = "none"
         /\ stdout' \in {"partial", "full"}
         /\ UNCHANGED <<phase, status, handlers, secrets, doubt>>

\* What a status says of the output.  SALT_ERR_IO of a line that is all there is
\* for callers who have heard SALT_ERR_IO before.
Bears(s) == CASE s = OK     -> stdout = "full"
              [] s = ERR_IO -> stdout = "full" => doubt
              [] OTHER      -> stdout = "none"

\* A call returns with clean hands and a status its output bears out.
Return == /\ phase = "running" /\ phase' = "returned"
          /\ handlers' = "theirs" /\ ~secrets'
          /\ status' \in {s \in Status : Bears(s)}
          /\ UNCHANGED <<stdout, doubt>>

Kill == /\ phase = "running" /\ phase' = "killed"
        /\ UNCHANGED <<status, stdout, handlers, secrets, doubt>>

Next == Begin \/ Work \/ Write \/ Return \/ Kill

ContractSpec == Init /\ [][Next]_contractVars
=============================================================================
