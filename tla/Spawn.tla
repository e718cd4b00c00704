------------------------------- MODULE Spawn -------------------------------
(***************************************************************************)
(* bench/bench_spawn.c: spawn_run starts one salt, feeds its stdin through *)
(* a pipe or from /dev/null, and waits for it.  Parent and child run side  *)
(* by side, each with its table of file descriptors; a new descriptor is   *)
(* the lowest free one.                                                    *)
(*                                                                         *)
(* A call that EINTR makes the code repeat is a step that changes nothing. *)
(***************************************************************************)
EXTENDS Integers, FiniteSets

CONSTANTS MaxFd,      \* largest descriptor a process can have
          DataLen,    \* stdin_len of a case with stdin_data
          PipeSize    \* what the pipe holds before a write sleeps

ASSUME SpawnAssumption == /\ MaxFd \in Nat /\ MaxFd >= 2
                          /\ DataLen \in Nat \ {0} /\ PipeSize \in Nat \ {0}

Fd == 0 .. MaxFd
NoFd == -1

\* What a descriptor stands for; "std" is whatever the benchmark was started
\* with as stdin, stdout and stderr.
Closed == "closed"
Files == {"std", "pipe read", "pipe write", "null in", "null out"}
Table == [Fd -> Files \cup {Closed}]

VARIABLES step,      \* where spawn_run is
          piped,     \* stdin_data is not NULL
          parent,    \* the descriptors of the benchmark
          local,     \* stdin_pipe, devnull_in, devnull_out
          child,     \* "none", "forked", "running", "fed", "zombie"
          theirs,    \* the descriptors of the child
          buffered,  \* bytes in the pipe
          written,   \* what write_all has written
          eaten,     \* what the child has read (history)
          exit,      \* how the child ended: 0, 1 (any other), 2 (by a signal)
          rc,        \* what spawn_run returns
          signals    \* "sigpipe" and "sigchld" in it: inherited as ignored

spawnVars == <<step, piped, parent, local, child, theirs, buffered, written, eaten,
               exit, rc, signals>>

\* stdin, stdout and stderr are open when the program starts.
Started == [f \in Fd |-> IF f <= 2 THEN "std" ELSE Closed]
Nothing == [f \in Fd |-> Closed]
NoLocals == [read |-> NoFd, write |-> NoFd, in |-> NoFd, out |-> NoFd]

SpawnInit == /\ step = "idle" /\ piped = FALSE /\ parent = Started /\ local = NoLocals
             /\ child = "none" /\ theirs = Nothing /\ buffered = 0 /\ written = 0 /\ eaten = 0
             /\ exit = 0 /\ rc = 0 /\ signals \in SUBSET {"sigpipe", "sigchld"}

-----------------------------------------------------------------------------
(* Descriptors.                                                              *)

Free(t) == {f \in Fd : t[f] = Closed}
Lowest(t) == CHOOSE f \in Free(t) : \A g \in Free(t) : f <= g
Open(t, file) == [t EXCEPT ![Lowest(t)] = file]

\* close(2) of each; closing NoFd is what the code does not do.
Shut(t, fds) == [f \in Fd |-> IF f \in fds THEN Closed ELSE t[f]]
Dup2(t, from, to) == [t EXCEPT ![to] = t[from]]

Has(t, file) == \E f \in Fd : t[f] = file
Readers == Has(parent, "pipe read") \/ Has(theirs, "pipe read")
Writers == Has(parent, "pipe write") \/ Has(theirs, "pipe write")

-----------------------------------------------------------------------------
(* spawn_run.                                                                *)

Return(value) == /\ step' = "returned" /\ rc' = value /\ local' = NoLocals

\* The caller enters spawn_run with one of its cases.
CallSpawn(withData) == /\ step = "idle" /\ step' = "input" /\ piped' = withData
                       /\ UNCHANGED <<parent, local, child, theirs, buffered, written, eaten,
                                      exit, rc, signals>>

\* It has its result, and what was local to the call is no more.
LeaveSpawn(value) == /\ step = "returned" /\ rc = value /\ step' = "idle" /\ piped' = FALSE
                     /\ written' = 0 /\ eaten' = 0 /\ exit' = 0 /\ buffered' = 0 /\ rc' = 0
                     /\ UNCHANGED <<parent, local, child, theirs, signals>>

\* pipe(2) or open(2) for the stdin of the child.
OpenInput ==
    /\ step = "input"
    /\ \/ Return(-1) /\ UNCHANGED parent
       \/ /\ piped /\ Cardinality(Free(parent)) >= 2
          /\ LET one == Open(parent, "pipe read")
             IN /\ parent' = Open(one, "pipe write")
                /\ local' = [local EXCEPT !.read = Lowest(parent), !.write = Lowest(one)]
          /\ step' = "output" /\ UNCHANGED rc
       \/ /\ ~piped /\ Free(parent) # {}
          /\ parent' = Open(parent, "null in")
          /\ local' = [local EXCEPT !.in = Lowest(parent)]
          /\ step' = "output" /\ UNCHANGED rc
    /\ UNCHANGED <<piped, child, theirs, buffered, written, eaten, exit, signals>>

\* A fault to detect: the pipe stays open.
OpenOutputLeaking ==
    /\ step = "output"
    /\ \/ Return(-1) /\ parent' = Shut(parent, {local.in})
       \/ /\ Free(parent) # {}
          /\ parent' = Open(parent, "null out")
          /\ local' = [local EXCEPT !.out = Lowest(parent)]
          /\ step' = "fork" /\ UNCHANGED rc
    /\ UNCHANGED <<piped, child, theirs, buffered, written, eaten, exit, signals>>

\* open(2) for its stdout and stderr.
OpenOutput ==
    /\ step = "output"
    /\ \/ Return(-1) /\ parent' = Shut(parent, {local.read, local.write, local.in})
       \/ /\ Free(parent) # {}
          /\ parent' = Open(parent, "null out")
          /\ local' = [local EXCEPT !.out = Lowest(parent)]
          /\ step' = "fork" /\ UNCHANGED rc
    /\ UNCHANGED <<piped, child, theirs, buffered, written, eaten, exit, signals>>

Fork ==
    /\ step = "fork"
    /\ \/ /\ Return(-1)
          /\ parent' = Shut(parent, {local.read, local.write, local.in, local.out})
          /\ UNCHANGED <<child, theirs>>
       \/ /\ child' = "forked" /\ theirs' = parent /\ step' = "close"
          /\ UNCHANGED <<parent, local, rc>>
    /\ UNCHANGED <<piped, buffered, written, eaten, exit, signals>>

\* The parent gives up its ends of what the child reads and writes.
CloseInput ==
    /\ step = "close"
    /\ IF piped THEN step' = "write" /\ parent' = Shut(parent, {local.read})
                ELSE step' = "wait" /\ parent' = Shut(parent, {local.in, local.out})
    /\ UNCHANGED <<piped, local, child, theirs, buffered, written, eaten, exit, rc, signals>>

\* A fault to detect: every write offers the whole of the data again.
WriteOverrunning ==
    /\ step = "write" /\ written < DataLen
    /\ \/ \E n \in 1 .. PipeSize :
             /\ Readers /\ n <= PipeSize - buffered
             /\ buffered' = buffered + n /\ written' = written + n
             /\ UNCHANGED <<step, parent>>
       \/ /\ ~Readers /\ "sigpipe" \in signals
          /\ step' = "unfed" /\ parent' = Shut(parent, {local.write, local.out})
          /\ UNCHANGED <<buffered, written>>
       \/ /\ ~Readers /\ "sigpipe" \notin signals
          /\ step' = "killed" /\ parent' = Nothing /\ UNCHANGED <<buffered, written>>
    /\ UNCHANGED <<piped, local, child, theirs, eaten, exit, rc, signals>>

\* One write(2) of write_all: it takes what there is room for, or fails
\* because nobody can read any more.
Write ==
    /\ step = "write" /\ written < DataLen
    /\ \/ \E n \in 1 .. PipeSize :
             /\ Readers /\ n <= DataLen - written /\ n <= PipeSize - buffered
             /\ buffered' = buffered + n /\ written' = written + n
             /\ UNCHANGED <<step, parent>>
       \/ /\ ~Readers /\ "sigpipe" \in signals
          /\ step' = "unfed" /\ parent' = Shut(parent, {local.write, local.out})
          /\ UNCHANGED <<buffered, written>>
       \/ /\ ~Readers /\ "sigpipe" \notin signals
          /\ step' = "killed" /\ parent' = Nothing /\ UNCHANGED <<buffered, written>>
    /\ UNCHANGED <<piped, local, child, theirs, eaten, exit, rc, signals>>

\* A fault to detect: the write end is closed after the child is waited for.
CloseWriterLate ==
    /\ step = "write" /\ written = DataLen
    /\ step' = "wait" /\ parent' = Shut(parent, {local.out})
    /\ UNCHANGED <<piped, local, child, theirs, buffered, written, eaten, exit, rc, signals>>

\* A fault to detect: write_all takes a short write for the whole.
CloseWriterShort ==
    /\ step = "write" /\ written > 0
    /\ step' = "wait" /\ parent' = Shut(parent, {local.write, local.out})
    /\ UNCHANGED <<piped, local, child, theirs, buffered, written, eaten, exit, rc, signals>>

\* Everything is written: the child is to see the end of its input.
CloseWriter ==
    /\ step = "write" /\ written = DataLen
    /\ step' = "wait" /\ parent' = Shut(parent, {local.write, local.out})
    /\ UNCHANGED <<piped, local, child, theirs, buffered, written, eaten, exit, rc, signals>>

\* A fault to detect: a child that was not fed is left to itself.
WaitChildFed ==
    /\ step \in {"wait", "unfed"}
    /\ \/ /\ step = "wait" /\ child = "zombie" /\ child' = "none"
          /\ Return(IF exit = 0 THEN 0 ELSE -1)
       \/ step = "unfed" /\ Return(-1) /\ UNCHANGED child
       \/ step = "wait" /\ child = "none" /\ Return(-1) /\ UNCHANGED child
    /\ UNCHANGED <<piped, parent, theirs, buffered, written, eaten, exit, signals>>

\* wait_child, and what the status says.  With SIGCHLD ignored the child is
\* gone once it ends, and waitpid fails.
WaitChild ==
    /\ step \in {"wait", "unfed"}
    /\ \/ /\ child = "zombie" /\ child' = "none"
          /\ Return(IF step = "wait" /\ exit = 0 THEN 0 ELSE -1)
       \/ /\ child = "none" /\ Return(-1) /\ UNCHANGED child
    /\ UNCHANGED <<piped, parent, theirs, buffered, written, eaten, exit, signals>>

-----------------------------------------------------------------------------
(* The child.                                                                *)

\* A fault to detect: the child keeps the write end of its own input.
ChildTableKeeping ==
    LET source == IF piped THEN local.read ELSE local.in
        in     == Shut(Dup2(theirs, source, 0), {source})
    IN Shut(Dup2(Dup2(in, local.out, 1), local.out, 2), {local.out})

\* The descriptors dup2 and close leave.
ChildTable ==
    LET source == IF piped THEN local.read ELSE local.in
        before == IF piped THEN Shut(theirs, {local.write}) ELSE theirs
        in     == Shut(Dup2(before, source, 0), {source})
    IN Shut(Dup2(Dup2(in, local.out, 1), local.out, 2), {local.out})

\* Its descriptors are put in place and salt is executed.
Exec ==
    /\ child = "forked" /\ child' = "running" /\ theirs' = ChildTable
    /\ UNCHANGED <<step, piped, parent, local, buffered, written, eaten, exit, rc, signals>>

\* salt reads its stdin to the end.
Eat ==
    /\ child = "running"
    /\ \/ /\ theirs[0] = "pipe read" /\ buffered > 0
          /\ buffered' = buffered - 1 /\ eaten' = eaten + 1 /\ UNCHANGED child
       \/ /\ theirs[0] = "pipe read" /\ buffered = 0 /\ ~Writers
          /\ child' = "fed" /\ UNCHANGED <<buffered, eaten>>
       \/ theirs[0] = "null in" /\ child' = "fed" /\ UNCHANGED <<buffered, eaten>>
    /\ UNCHANGED <<step, piped, parent, local, theirs, written, exit, rc, signals>>

\* It succeeds only with the whole of its input; it can fail, or be killed,
\* at any time (a failing execve is one of these).
ChildExit ==
    /\ child \in {"forked", "running", "fed"}
    /\ exit' \in (IF child = "fed" THEN {0} ELSE {}) \cup {1, 2}
    /\ child' = IF "sigchld" \in signals THEN "none" ELSE "zombie"
    /\ theirs' = Nothing
    /\ UNCHANGED <<step, piped, parent, local, buffered, written, eaten, rc, signals>>

SpawnRun == \/ OpenInput \/ OpenOutput \/ Fork \/ CloseInput \/ Write \/ CloseWriter \/ WaitChild
Child == Exec \/ Eat \/ ChildExit
=============================================================================
