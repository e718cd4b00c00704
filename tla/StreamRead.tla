----------------------------- MODULE StreamRead -----------------------------
(***************************************************************************)
(* src/cli/input.c, cli_input_read_stream_limited: reading at most max     *)
(* bytes from a stdio stream a producer feeds through a pipe.  The read is *)
(* a sequence of system calls; the producer, the kernel and signals act    *)
(* between any two of its steps.                                           *)
(*                                                                         *)
(* A stream is the number of bytes in it: pending counts the bytes the     *)
(* reader can still take (in the pipe or in stdio's own buffer).  The      *)
(* contents play no part in how much is read.                              *)
(***************************************************************************)
EXTENDS Signals, Memory, Integers

CONSTANT StreamBound   \* most bytes the producer writes (bound of the model)

ASSUME StreamBoundAssumption == StreamBound \in Nat

VARIABLES pending,  \* bytes waiting
          sent,     \* bytes the producer has written
          writer,   \* whether the producer still holds its end open
          ferr,     \* the error indicator of the FILE, which nothing clears
          rpc,      \* where the read is; "idle" when none is active
          max,      \* max_len
          got,      \* bytes_read so far
          from,     \* offset in the stream at which this read began
          result    \* the status the read returns

pipeVars   == <<pending, sent, writer, ferr>>
readVars   == <<rpc, max, got, from, result>>
streamVars == <<pending, sent, writer, ferr, rpc, max, got, from, result>>

Blocked == {"blocked", "probeBlocked"}
ReadPcs == {"idle", "check", "alloc", "fread", "blocked", "after", "probe",
            "probeBlocked", "probeEof", "unget", "done"}

StreamTypeOK == /\ pending \in Nat
                /\ sent \in Nat
                /\ writer \in {"open", "closed"}
                /\ ferr \in BOOLEAN
                /\ rpc \in ReadPcs
                /\ max \in Nat
                /\ got \in Nat
                /\ from \in Int
                /\ result \in Status

StreamInit == /\ pending = 0 /\ sent = 0
              /\ writer = "open"
              /\ ferr = FALSE
              /\ rpc = "idle"
              /\ max = 0 /\ got = 0 /\ from = 0
              /\ result = OK

-----------------------------------------------------------------------------
(* The producer at the other end of the pipe. *)

Produce == /\ writer = "open" /\ sent < StreamBound
           /\ pending' = pending + 1
           /\ sent' = sent + 1
           /\ UNCHANGED <<writer, ferr, readVars>>

CloseWriter == /\ writer = "open"
               /\ writer' = "closed"
               /\ UNCHANGED <<pending, sent, ferr, readVars>>

Producer == Produce \/ CloseWriter

-----------------------------------------------------------------------------
(* cli_input_read_stream_limited. *)

StartRead(limit) == /\ rpc' = "check"
                    /\ max' = limit /\ got' = 0
                    /\ from' = sent - pending
                    /\ result' = OK
                    /\ UNCHANGED pipeVars

ReadGoto(label) == /\ rpc' = label
               /\ UNCHANGED <<max, got, from, result>>

\* Return a failure before the buffer exists.
Refuse(status) == /\ rpc' = "done" /\ result' = status
                  /\ UNCHANGED <<max, got, from>>

\* Wipe and free the buffer, then return a failure.
Discard(status) == /\ Release("reading", max + 1)
                   /\ Refuse(status)

ReadCheck == /\ rpc = "check"
             /\ IF interrupted THEN Refuse(ERR_SIGNAL) ELSE ReadGoto("alloc")
             /\ UNCHANGED <<pipeVars, memoryVars>>

ReadAlloc == /\ rpc = "alloc"
             /\ \/ Alloc("reading", max + 1) /\ ReadGoto("fread")
                \/ Refuse(ERR_INTERNAL) /\ UNCHANGED memoryVars
             /\ UNCHANGED pipeVars

\* A fault to detect: stdio taking a byte that is not there.
FreadByteUnchecked ==
    /\ rpc = "fread" /\ got < max
    /\ pending' = pending - 1
    /\ got' = got + 1
    /\ UNCHANGED <<sent, writer, ferr, rpc, max, from, result, memoryVars>>

\* fread takes what is there, a byte at a time.
FreadByte == /\ rpc = "fread" /\ got < max /\ pending > 0
             /\ pending' = pending - 1
             /\ got' = got + 1
             /\ UNCHANGED <<sent, writer, ferr, rpc, max, from, result, memoryVars>>

FreadReturns == /\ rpc = "fread"
                /\ got = max \/ (pending = 0 /\ writer = "closed")
                /\ ReadGoto("after")
                /\ UNCHANGED <<pipeVars, memoryVars>>

\* read(2) finds an empty pipe with a writer, and sleeps.
Sleep == /\ pending = 0 /\ writer = "open"
         /\ \/ rpc = "fread" /\ got < max /\ ReadGoto("blocked")
            \/ rpc = "probe" /\ ReadGoto("probeBlocked")
         /\ UNCHANGED <<pipeVars, memoryVars>>

Wake == /\ pending > 0 \/ writer = "closed"
        /\ \/ rpc = "blocked" /\ ReadGoto("fread")
           \/ rpc = "probeBlocked" /\ ReadGoto("probe")
        /\ UNCHANGED <<pipeVars, memoryVars>>

\* What a system call that fails leaves: EOF from stdio, the indicator set.
CallFails == /\ ferr' = TRUE
             /\ \/ rpc \in {"fread", "blocked"} /\ ReadGoto("after")
                \/ rpc \in {"probe", "probeBlocked"} /\ ReadGoto("probeEof")
             /\ UNCHANGED <<pending, sent, writer>>

\* read(2) fails by itself (EIO).
ReadFails == /\ rpc = "probe" \/ (rpc = "fread" /\ got < max)
             /\ CallFails
             /\ UNCHANGED memoryVars

\* Faults to detect: a full buffer taken for the whole input; a failed read
\* tried again.
ReadAfterWithoutProbe ==
    /\ rpc = "after"
    /\ \/ interrupted /\ Discard(ERR_SIGNAL)
       \/ ~interrupted /\ ferr /\ Discard(ERR_IO)
       \/ ~interrupted /\ ~ferr /\ ReadGoto("done") /\ UNCHANGED memoryVars
    /\ UNCHANGED pipeVars

ReadAfterRetrying ==
    /\ rpc = "after"
    /\ \/ ferr /\ ReadGoto("fread") /\ UNCHANGED memoryVars
       \/ interrupted /\ ~ferr /\ Discard(ERR_SIGNAL)
       \/ ~interrupted /\ ~ferr /\ ReadGoto("probe") /\ UNCHANGED memoryVars
    /\ UNCHANGED pipeVars

\* A fault to detect: a short read taken for one to continue.
ReadAfterUntilFull ==
    /\ rpc = "after"
    /\ \/ interrupted /\ Discard(ERR_SIGNAL)
       \/ ~interrupted /\ ferr /\ Discard(ERR_IO)
       \/ ~interrupted /\ ~ferr /\ got = max /\ ReadGoto("probe") /\ UNCHANGED memoryVars
       \/ ~interrupted /\ ~ferr /\ got # max /\ ReadGoto("fread") /\ UNCHANGED memoryVars
    /\ UNCHANGED pipeVars

\* A fault to detect: a read that brought anything passes for a good one.
ReadAfterUnindicated ==
    /\ rpc = "after"
    /\ \/ interrupted /\ Discard(ERR_SIGNAL)
       \/ ~interrupted /\ ferr /\ got = 0 /\ Discard(ERR_IO)
       \/ ~interrupted /\ got = max /\ ReadGoto("probe") /\ UNCHANGED memoryVars
       \/ ~interrupted /\ got \notin {0, max} /\ ReadGoto("done") /\ UNCHANGED memoryVars
       \/ ~interrupted /\ ~ferr /\ got = 0 /\ ReadGoto("done") /\ UNCHANGED memoryVars
    /\ UNCHANGED pipeVars

ReadAfter ==
    /\ rpc = "after"
    /\ \/ interrupted /\ Discard(ERR_SIGNAL)
       \/ ~interrupted /\ ferr /\ Discard(ERR_IO)
       \/ ~interrupted /\ ~ferr /\ got = max /\ ReadGoto("probe") /\ UNCHANGED memoryVars
       \/ ~interrupted /\ ~ferr /\ got # max /\ ReadGoto("done") /\ UNCHANGED memoryVars
    /\ UNCHANGED pipeVars

\* fgetc probes for one byte too many.
Probe == /\ rpc = "probe"
         /\ \/ pending > 0 /\ pending' = pending - 1 /\ ReadGoto("unget")
            \/ pending = 0 /\ writer = "closed" /\ UNCHANGED pending /\ ReadGoto("probeEof")
         /\ UNCHANGED <<sent, writer, ferr, memoryVars>>

ProbeEof == /\ rpc = "probeEof"
            /\ IF ferr THEN Discard(ERR_IO) ELSE ReadGoto("done") /\ UNCHANGED memoryVars
            /\ UNCHANGED pipeVars

\* A fault to detect: the probed byte is not put back.
UngetForgotten == /\ rpc = "unget"
                  /\ Discard(ERR_INPUT)
                  /\ UNCHANGED pipeVars

\* ungetc puts the probed byte back, or fails and loses it.
Unget == /\ rpc = "unget"
         /\ \/ pending' = pending + 1 /\ Discard(ERR_INPUT)
            \/ UNCHANGED pending /\ Discard(ERR_IO)
         /\ UNCHANGED <<sent, writer, ferr>>

\* The steps of the reading thread.  Waking up is the kernel's.
ReaderStep == \/ ReadCheck \/ ReadAlloc \/ FreadByte \/ FreadReturns
              \/ Sleep \/ Wake \/ ReadFails \/ ReadAfter
              \/ Probe \/ ProbeEof \/ Unget
=============================================================================
