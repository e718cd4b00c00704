------------------------------- MODULE Bench -------------------------------
(***************************************************************************)
(* bench/bench_common.c: the harness that calls the function of a case,    *)
(* over and over and under a time limit, and reports what it measured.     *)
(* The function is spawn_run (module Spawn) in the program bench-spawn,    *)
(* and one that ends by itself in the program bench (bench_main.c).        *)
(***************************************************************************)
EXTENDS Spawn, SequencesExt

CONSTANTS Programs,   \* the programs, with cases and options, to be run
          MaxTick,    \* nanoseconds between two readings of the clock
          MaxClock    \* bound on the clock

CaseType == [piped : BOOLEAN, iterations : Nat, warmup : Nat, batch : Nat]

ASSUME BenchAssumption ==
    /\ MaxTick \in Nat /\ MaxClock \in Nat
    /\ \A p \in Programs :
          /\ p.spawns \in BOOLEAN /\ p.cases \in Seq(CaseType)
          /\ p.selected \subseteq 1 .. Len(p.cases)
          /\ p.multiRun \in Nat /\ p.maxRuntime \in Nat /\ p.json \in BOOLEAN

VARIABLES at,          \* where the harness is
          program,     \* the program that runs
          case,        \* index of the case
          run,         \* index of the run, from 1 to multi_run
          left,        \* calls of the function left to warm up or to a batch
          iterations,  \* *iterations of the run
          started,     \* case_start_ns
          t0,          \* when the batch began
          clock,       \* what bench_now_ns returned last
          samples,     \* samples and unsorted_samples so far
          result,      \* *result
          blocks,      \* heap blocks the harness holds
          failures,    \* what bench_run_all returns
          records,     \* cases whose record is in the file of --json
          lost,        \* records a failing write lost (history)
          calls        \* calls that succeeded in this case (history)

benchVars == <<at, program, case, run, left, iterations, started, t0, clock, samples,
               result, blocks, failures, records, lost, calls>>
vars == <<benchVars, spawnVars>>

Garbage == -1
NoResult == [case |-> 0, iterations |-> 0, min |-> 0, median |-> 0, p95 |-> 0, max |-> 0]

Current == program.cases[case]
Runs == IF program.multiRun > 1 THEN program.multiRun ELSE 1

BenchInit == /\ at = "case" /\ program \in Programs /\ case = 1 /\ run = 1 /\ left = 0
             /\ iterations = 0 /\ started = 0 /\ t0 = 0 /\ clock = 0 /\ samples = <<>>
             /\ result = NoResult /\ blocks = {} /\ failures = 0
             /\ records = <<>> /\ lost = 0 /\ calls = 0

Init == SpawnInit /\ BenchInit

-----------------------------------------------------------------------------
(* Parts of actions.                                                         *)

\* bench_now_ns: CLOCK_MONOTONIC never goes back.
ReadClock == \E d \in 0 .. MaxTick : clock + d <= MaxClock /\ clock' = clock + d

\* bench_run_case fails, its callee having freed some blocks: it frees its
\* own, and bench_run_all counts the failure.
CaseFails(freed) == /\ at' = "case" /\ case' = case + 1 /\ failures' = failures + 1
                    /\ blocks' = blocks \ (freed \cup {"runs", "medians"})
                    /\ calls' = 0 /\ left' = 0 /\ run' = 1 /\ samples' = <<>>

SampleBlocks == {"samples", "unsorted"}

-----------------------------------------------------------------------------
(* bench_run_all and bench_run_case.                                         *)

\* The next case the filter lets through; its blocks for several runs.
SelectCase ==
    /\ at = "case" /\ step # "killed"
    /\ \/ /\ case > Len(program.cases) /\ at' = "exit"
          /\ UNCHANGED <<case, blocks, failures, calls, left, run, samples>>
       \/ /\ case \in 1 .. Len(program.cases) \ program.selected /\ case' = case + 1
          /\ UNCHANGED <<at, blocks, failures, calls, left, run, samples>>
       \/ /\ case \in program.selected /\ at' = "run" /\ run' = 1 /\ calls' = 0
          /\ blocks' = IF Runs > 1 THEN {"runs", "medians"} ELSE {}
          /\ UNCHANGED <<case, failures, left, samples>>
       \/ case \in program.selected /\ Runs > 1 /\ CaseFails({})
    /\ UNCHANGED <<program, iterations, started, t0, clock, result, records, lost, spawnVars>>

\* bench_run_case_single up to the warm-up; without iterations it fails.
BeginRun ==
    /\ at = "run"
    /\ \/ /\ Current.iterations > 0
          /\ at' = "warmup" /\ left' = Current.warmup /\ iterations' = Current.iterations
          /\ UNCHANGED <<case, run, failures, blocks, calls, samples>>
       \/ Current.iterations = 0 /\ CaseFails({}) /\ UNCHANGED iterations
    /\ UNCHANGED <<program, started, t0, clock, result, records, lost, spawnVars>>

\* bc->fn is called, to warm up or for a batch.
CallFn ==
    /\ at \in {"warmup", "batch"} /\ left > 0
    /\ program.spawns /\ CallSpawn(Current.piped)
    /\ UNCHANGED benchVars

\* What bc->fn returned.
FnReturned(value) ==
    IF program.spawns
    THEN LeaveSpawn(value)
    ELSE value \in {0, -1} /\ UNCHANGED spawnVars

\* A fault to detect: a failing call is not looked at while warming up.
FnReturnsUnchecked ==
    /\ at \in {"warmup", "batch"} /\ left > 0
    /\ \E value \in {0, -1} :
          /\ FnReturned(value)
          /\ \/ /\ value = 0 \/ at = "warmup"
                /\ left' = left - 1 /\ calls' = (IF value = 0 THEN calls + 1 ELSE calls)
                /\ UNCHANGED <<at, case, run, failures, blocks, samples>>
             \/ value # 0 /\ at = "batch" /\ CaseFails(SampleBlocks)
    /\ UNCHANGED <<program, iterations, started, t0, clock, result, records, lost>>

\* One failing call gives the case up.
FnReturns ==
    /\ at \in {"warmup", "batch"} /\ left > 0
    /\ \E value \in {0, -1} :
          /\ FnReturned(value)
          /\ \/ /\ value = 0 /\ left' = left - 1 /\ calls' = calls + 1
                /\ UNCHANGED <<at, case, run, failures, blocks, samples>>
             \/ value # 0 /\ CaseFails(IF at = "batch" THEN SampleBlocks ELSE {})
    /\ UNCHANGED <<program, iterations, started, t0, clock, result, records, lost>>

\* bench_sample_iterations up to its loop.
BeginSampling ==
    /\ at = "warmup" /\ left = 0
    /\ \/ /\ at' = "check" /\ ReadClock /\ started' = clock'
          /\ blocks' = blocks \cup SampleBlocks /\ samples' = <<>>
          /\ UNCHANGED <<case, run, left, failures, calls>>
       \/ CaseFails(SampleBlocks) /\ UNCHANGED <<started, clock>>
    /\ UNCHANGED <<program, iterations, t0, result, records, lost, spawnVars>>

\* The head of its loop: done, out of time, or a batch to be measured.
CheckRuntime ==
    /\ at = "check"
    /\ \/ /\ Len(samples) = iterations /\ at' = "statistics"
          /\ UNCHANGED <<iterations, t0, clock, left>>
       \/ /\ Len(samples) < iterations /\ program.maxRuntime > 0
          /\ ReadClock /\ clock' - started > program.maxRuntime
          /\ iterations' = Len(samples) /\ at' = "statistics" /\ UNCHANGED <<t0, left>>
       \/ /\ Len(samples) < iterations
          /\ ReadClock
          /\ program.maxRuntime > 0 =>
                \E now \in clock .. clock' : now - started <= program.maxRuntime
          /\ t0' = clock' /\ at' = "batch"
          /\ left' = (IF Current.batch > 0 THEN Current.batch ELSE 1) /\ UNCHANGED iterations
    /\ UNCHANGED <<program, case, run, started, samples, result, blocks, failures,
                   records, lost, calls, spawnVars>>

\* The rest of its body: one sample.
TakeSample ==
    /\ at = "batch" /\ left = 0
    /\ ReadClock
    /\ samples' = Append(samples, (clock' - t0) \div (IF Current.batch > 0 THEN Current.batch ELSE 1))
    /\ at' = "check"
    /\ UNCHANGED <<program, case, run, left, iterations, started, t0, result, blocks,
                   failures, records, lost, calls, spawnVars>>

-----------------------------------------------------------------------------
(* The rest of bench_run_case_single and bench_run_case.                     *)

\* qsort, and an index into the array: samples[SIZE_MAX] is outside of it.
Sorted == SortSeq(samples, <)
Sample(i) == IF i < 0 THEN Garbage ELSE IF i < Len(samples) THEN Sorted[i + 1] ELSE 0

P95 == LET i == (95 * iterations) \div 100 IN IF i >= iterations THEN iterations - 1 ELSE i

Statistic == [case |-> case, iterations |-> iterations, min |-> Sample(0),
              median |-> Sample(iterations \div 2), p95 |-> Sample(P95),
              max |-> Sample(iterations - 1)]

\* A fault to detect: unsorted_samples is not freed.
StatisticsLeaking ==
    /\ at = "statistics"
    /\ result' = IF run = 1 THEN Statistic ELSE result
    /\ IF run < Runs
       THEN at' = "run" /\ run' = run + 1 /\ blocks' = blocks \ {"samples"}
       ELSE at' = "emit" /\ run' = 1 /\ blocks' = blocks \ {"samples", "runs", "medians"}
    /\ UNCHANGED <<program, case, left, iterations, started, t0, clock, samples, failures, records,
                   lost, calls, spawnVars>>

\* The result of the run; of several, that of the first is kept.
Statistics ==
    /\ at = "statistics"
    /\ result' = IF run = 1 THEN Statistic ELSE result
    /\ IF run < Runs
       THEN at' = "run" /\ run' = run + 1 /\ blocks' = blocks \ SampleBlocks
       ELSE at' = "emit" /\ run' = 1 /\ blocks' = blocks \ (SampleBlocks \cup {"runs", "medians"})
    /\ UNCHANGED <<program, case, left, iterations, started, t0, clock, samples, failures, records,
                   lost, calls, spawnVars>>

\* A fault to detect: a record that could not be written is not counted.
EmitUncounted ==
    /\ at = "emit"
    /\ \/ records' = (IF program.json THEN Append(records, case) ELSE records)
          /\ UNCHANGED <<failures, lost>>
       \/ program.json /\ lost' = lost + 1 /\ UNCHANGED <<failures, records>>
       \/ program.json /\ UNCHANGED <<failures, records, lost>>
    /\ at' = "case" /\ case' = case + 1 /\ samples' = <<>>
    /\ UNCHANGED <<program, run, left, iterations, started, t0, clock, result, blocks,
                   calls, spawnVars>>

\* bench_emit_json: a file that cannot be opened is a failure, one that
\* cannot be written to goes unnoticed.
Emit ==
    /\ at = "emit"
    /\ \/ records' = (IF program.json THEN Append(records, case) ELSE records)
          /\ UNCHANGED <<failures, lost>>
       \/ program.json /\ lost' = lost + 1 /\ UNCHANGED <<failures, records>>
       \/ program.json /\ failures' = failures + 1 /\ UNCHANGED <<records, lost>>
    /\ at' = "case" /\ case' = case + 1 /\ samples' = <<>>
    /\ UNCHANGED <<program, run, left, iterations, started, t0, clock, result, blocks,
                   calls, spawnVars>>

Harness == \/ SelectCase \/ BeginRun \/ CallFn \/ FnReturns \/ BeginSampling \/ CheckRuntime
           \/ TakeSample \/ Statistics \/ Emit

Next == Harness \/ ((SpawnRun \/ Child) /\ UNCHANGED benchVars)

BenchSpec == Init /\ [][Next]_vars

\* The benchmark and salt are processes of their own, and the kernel runs
\* both; salt ends once it has read its input, but need not end before.
FairBenchSpec ==
    /\ BenchSpec
    /\ WF_vars(Harness) /\ WF_vars(SpawnRun /\ UNCHANGED benchVars)
    /\ WF_vars(Exec /\ UNCHANGED benchVars) /\ WF_vars(Eat /\ UNCHANGED benchVars)
    /\ WF_vars(child = "fed" /\ ChildExit /\ UNCHANGED benchVars)

-----------------------------------------------------------------------------
(* Properties.                                                               *)

\* Every variable has its type.
TypeOK ==
    /\ at \in {"case", "run", "warmup", "check", "batch", "statistics", "emit", "exit"}
    /\ step \in {"idle", "input", "output", "fork", "close", "write", "unfed", "wait",
                 "returned", "killed"}
    /\ parent \in Table /\ theirs \in Table /\ local \in [{"read", "write", "in", "out"} -> Fd \cup {NoFd}]
    /\ child \in {"none", "forked", "running", "fed", "zombie"}
    /\ buffered \in 0 .. PipeSize /\ written \in 0 .. DataLen /\ eaten \in 0 .. DataLen
    /\ exit \in 0 .. 2 /\ rc \in {0, -1}
    /\ case \in 1 .. Len(program.cases) + 1 /\ run \in 1 .. Runs /\ left \in Nat
    /\ started <= clock /\ t0 <= clock
    /\ at = "check" => Len(samples) <= iterations
    /\ at = "batch" => Len(samples) < iterations

\* bench_spawn.c:93-183: on every path out of spawn_run, whatever failed, the
\* benchmark holds the descriptors it held before and has no child left: its
\* thousands of calls do not use up either.
NothingLeftBehind == step \in {"idle", "returned"} => parent = Started /\ child = "none"

\* bench_spawn.c:131-142: the salt that runs reads what the case gives it,
\* writes to /dev/null, and holds no other descriptor, least of all the write
\* end of the pipe whose end it waits for.
ChildStreams ==
    child \in {"running", "fed"} =>
        theirs = [f \in Fd |-> IF f > 2 THEN Closed ELSE IF f > 0 THEN "null out"
                               ELSE IF piped THEN "pipe read" ELSE "null in"]

\* A call counts as good only when salt read all of the input and succeeded:
\* neither a short write nor an early end of the reader goes unnoticed.
SuccessIsWhole ==
    step = "returned" /\ rc = 0 => exit = 0 /\ eaten = (IF piped THEN DataLen ELSE 0)

\* bench_common.c: whichever allocation or call fails, in whichever run of a
\* case, no block outlives the case.
HeapBalanced == at \in {"case", "exit"} => blocks = {}

\* What is reported was measured: each run of the case made all of its calls
\* and each succeeded.  Only the time limit cuts a run short, and then the
\* number of iterations says so.
EveryCallCounted ==
    at = "emit" =>
        LET batch == IF Current.batch > 0 THEN Current.batch ELSE 1
        IN /\ result.case = case /\ result.iterations <= Current.iterations
           /\ program.maxRuntime = 0 =>
                 /\ result.iterations = Current.iterations
                 /\ calls = Runs * (Current.warmup + batch * Current.iterations)

\* bench_common.h:77-80: what bench_run_all returns, and the exit status made
\* of it, accounts for every selected case: one whose function failed has no
\* record, every other has exactly one, in order, unless stdio lost it.
FailuresCounted ==
    at = "exit" /\ program.json =>
        /\ Len(records) + lost + failures = Cardinality(program.selected)
        /\ \A i \in 1 .. Len(records) : /\ records[i] \in program.selected
                                        /\ i > 1 => records[i - 1] < records[i]

\* The benchmark ends, whatever fails: benchmark and salt never wait for one
\* another.
BenchEnds == <>(at = "exit" \/ step = "killed")

\* bench_common.h:63-64: "Returns 0 on success [...] On success, populates
\* *result": every figure of a result comes from a sample.
ResultPopulated == at = "emit" => Garbage \notin {result.p95, result.max}
=============================================================================
