# A specification of salt

`salt` encrypts one secret for GitHub Actions: it reads a public key and a
plaintext, seals the plaintext with libsodium and writes base64 or JSON to
stdout. The code is small and sequential, and yet hard to test where it
matters: it borrows two process-wide signal dispositions, reads a stream that
may stop, and promises to wipe every secret on every path. These TLA+ modules
model that behaviour, TLC checks it on small instances, and TLAPS proves the
main results for every value of the constants.

All paths below are relative to the repository.

## Inventory

| Component | Source | State | Operations | Correct when |
|---|---|---|---|---|
| Orchestration | `src/main.c` | the stage and status of a call | `main`, `salt_cli_run*`, `salt_cli_run_with_streams_internal` | the status agrees with what was written, and every path reaches the cleanup |
| Signals | `src/cli/signal.c` | dispositions, the saved ones, the flag | install, roll back, restore, check, reset, the handler | the caller gets its dispositions back; an interruption seen in time stops the call and a stale one does not |
| Bounded read | `src/cli/input.c` | the buffer, bytes read, the stream | `cli_input_read_stream_limited`, key and plaintext loading | a secret is read whole or not at all; nothing past the limit is consumed |
| State and memory | `src/cli/state.c` | the buffers of a call and their sizes | init, cleanup, secure release, effective key_id | every buffer is wiped over its whole size and freed |
| Output | `src/cli/prepare.c`, `output.c` | the ciphertext, the line as stdio has it | size, seal, check the key_id, escape, emit text or JSON | output is complete or the call fails; a reader of the JSON gets the key_id that was asked for |
| Diagnostics | `src/cli/stream.c` | none | write, flush, report | a diagnostic that cannot be written is an I/O failure |
| Arguments | `src/cli/args.c` | options | the getopt loop and the cross-checks | one source of stdin, errors win over help |
| Key input | `src/cli/parse.c` | cursor, fields seen | trim, format choice, strict JSON object, string tokens with escapes | only one reading of an accepted input |
| Sealing library | `src/salt.c`, `include/salt.h` | scratch buffers | seal, zeroing variants, output size | output_written, wiping and capacity hold on every path |
| Benchmarks | `bench/bench_common.c`, `bench_spawn.c` | descriptors, child, heap, samples, counters | the harness; `spawn_run`: pipe, fork, feed, wait | what is reported was measured; no descriptor, child or block is left behind, and parent and child never wait for one another |

Components of the program interact by calls only, in the order of
`salt_cli_run_with_streams_internal`, and through three pieces of shared state:
the dispositions and flag (process-wide, also touched by the kernel and by an
embedding program), the `FILE` they read (shared by successive calls, fed by
another process) and the heap. The hard behaviours are therefore a signal
between any two steps, a stream that ends, stalls or fails between any two
reads, one failing step of several, and a second call in the same process.
The benchmark `bench-spawn` is a program of its own that runs salt as a child
process: a pipe, two tables of descriptors and two signals (SIGPIPE and SIGCHLD)
are between them. Nothing is persisted and no two threads run the CLI at once
(`signal.c:21-25` rules it out), so there is no recovery or data race to model.

## Modules

| Module | Models | Built on |
|---|---|---|
| `SaltStatus` | `enum salt_status` (`include/salt.h`) | |
| `Memory` | who owns how many bytes, and what was freed unwiped (`state.c`, the releases of `input.c`) | |
| `Signals` | the two dispositions, the saved ones and the flag (`signal.c`) | |
| `StreamRead` | `cli_input_read_stream_limited`, the pipe and its producer (`input.c`) | `Signals`, `Memory` |
| `OutputLen` | `salt_required_base64_output_len` in `size_t` arithmetic (`salt.c`) | |
| `SaltCli` | one process: `main.c`, and the calls of `input.c`, `prepare.c`, `output.c`, `stream.c`, `state.c` | `StreamRead`, `OutputLen` |
| `CliContract` | what a caller of the CLI may rely on | abstract specification |
| `SaltCliRefinement` | `SaltCli` implements `CliContract` | refinement mapping |
| `SealBox` | the two sealing functions of `salt.c`, call after call | `OutputLen` |
| `Args` | `args.c` over `getopt_long`, call after call | |
| `JsonString` | the string tokens of `parse.c` and `write_json_string` of `output.c`, byte by byte, beside what RFC 8259 says a string means | |
| `Utf8` | `is_valid_utf8` of `output.c`, beside RFC 3629 | |
| `KeyDocument` | `parse.c`: the format, the object, its fields | `JsonString` |
| `KeyIdOutput` | a key_id on its way from the document or the option to the line, one stdio call a step (`state.c`, `output.c`) | `KeyDocument`, `Utf8` |
| `Spawn` | `spawn_run` of `bench_spawn.c` and the child it starts, side by side | |
| `Bench` | the harness of `bench_common.c` calling `spawn_run`, or a function that ends by itself | `Spawn` |
| `SaltCliProofs`, `SaltCliPromises`, `SaltCliRefinementProofs` | theorems about `SaltCli` and its contract | TLAPS |
| `SealBoxProofs`, `BenchProofs`, `ArgsProofs` | theorems about `SealBox`, about `Spawn` and `Bench`, about `Args` | TLAPS |
| `KeyIdOutputProofs` | theorems about `Utf8`, `JsonString`, `KeyDocument` and `KeyIdOutput` | `Induction`, TLAPS |
| `Induction` | least elements and induction on sets of naturals, and what a recursive function along `0 .. n` computes | TLAPS |
| `MCSaltCli`, `MCSealBox`, `MCArgs`, `MCKeyIdOutput`, `MCBench` | the constants of the runs | TLC |

How state and actions correspond to the code:

- `pc` names the place in the function a module models; one action is the code
  between two places where something else can act or a call can fail. In
  `SaltCli` the order of the labels is the order of
  `salt_cli_run_with_streams_internal`, `Fail(status)` is a jump to its
  diagnostic and `Cleanup(req)` its `goto cleanup`.
- A buffer is its number of bytes (`heap`), 0 when it does not exist; wiping
  fewer bytes than were allocated leaves the buffer in `residue`. Lengths, not
  contents, are modelled, because every question about memory here is whether
  the length that is wiped is the length that was allocated.
- A read is a sequence of system calls. `FreadByte` takes a byte that is there,
  `Sleep` is `read(2)` finding an empty pipe, `CallFails` is `EINTR` or `EIO`
  and leaves the sticky error indicator `ferr`. The flag is tested where
  `input.c` tests it and nowhere else.
- `out` is what the call has put on stdout, and `oerr` the error indicator of
  that `FILE`, which `cli_stream_flush` (`output.c:117-122`) looks at and no line
  of the code clears. The calls of an embedding program share both streams, so a
  call may find either indicator set by an earlier one.
- Signals are delivered between any two steps. The disposition decides what
  happens: the CLI's handler sets the flag (`SignalHandled`), a handler of the
  embedding program may or may not fail a blocked read (`SignalForCaller`), the
  default action ends the process (`SignalKills`).
- A key input is its class in `SaltCli` (`KeyDocType`), a sequence of lexemes in
  `KeyDocument`, whose strings are sequences of bytes, and a count of characters
  in `SealBox` (`KeyText`). A byte that no branch of the code singles out stands
  for all of its kind. The fixed parts of the output line (`"encrypted_value":`
  and the like) are one symbol each. Arguments are
  their outcome in `SaltCli` and words in `Args`. What `SaltCli` assumes of the
  arguments, that no call reads both secrets from stdin (`CliAssumption`), is
  part of `DecidedByArgv`, which `Args` is checked for; the sealing statuses it
  takes for possible (`SealStatuses`) are those `PreconditionsDecide` leaves.
- libsodium, stdio, `getopt_long` and the kernel are external. They are modelled
  from how the code uses them: `sodium_base642bin` stops at the first unexpected
  character, `sodium_bin2base64` aborts when the buffer is short,
  `getopt_long` keeps its place in a word between two calls of a process.
- In `Spawn` a table of descriptors is a function from numbers to what they stand
  for, and a new descriptor is the lowest free one, as POSIX has it. `step` is the
  place in `spawn_run`, `child` that of the child; every system call that can fail
  does. A call that EINTR makes the code repeat changes nothing and is a
  stuttering step. The harness and `spawn_run` take turns: `CallFn` enters it,
  `FnReturns` leaves it with its result.
- `lost`, `calls` and `eaten` in the benchmark, `caught`, `ioBefore` (an earlier
  call has returned `SALT_ERR_IO`) and `hardened` in `SaltCli` are history
  variables: the code does not have them and no guard reads them.
- Operators marked "A fault to detect" are not part of any specification. Each
  is the form a definition would take under a plausible bug; substituting it
  must violate the property it stands beside.

## Runs

| Run | Configuration | Checks | Shows |
|---|---|---|---|
| `process` | `MCSaltCli_process.cfg` | `TypeOK`, `OutputMatchesStatus`, `FailureDiagnosed`, `InterruptNeverSucceeds`, `WholeInputSealed`, `PlaintextGuarded`, `KilledOnlyWhenTold` | one call of the installed program: output, diagnostics and status agree, and only the hardening of `main` may fail without a diagnostic; a signal seen in time stops it, and one that kills it comes when the outcome is out; stdin is sealed whole |
| `embedded` | `MCSaltCli_embedded.cfg` | `HandlersRestored`, `Scrubbed`, `SignalStatusJustified`, `ProbePutsBack`, `BrokenStreamsStayBroken`, `ImplementsContract`, `CallEnds`, `FailedReadEnds` | two calls in one process leave nothing to each other but unread input and the error indicators of the two streams; a stream on which something failed serves no later seal; they refine the contract, and never sleep with nobody left to wake them |
| `seal` | `MCSealBox.cfg` | `TypeOK`, `NeverAborts`, `PreconditionsDecide`, `WrittenAgrees`, `NothingKept`, `PlaintextZeroed` | every path of the sealing functions, wraps of `size_t` included |
| `args` | `MCArgs.cfg` | `TypeOK`, `DecidedByArgv`, `ReadAsWritten`, `HelpOnlyWhenWellFormed`, `RefusalExplained` | the parse agrees with a reading of the vector without a loop, whatever the last call left in `getopt` |
| `keydoc` | `MCKeyIdOutput.cfg` | `TypeOK`, `AcceptsTheGrammar`, `FieldsAsWritten`, `RejectedNamesNobody`, `KeyIdSurvives`, `RefusedWhole` | the parser accepts exactly the grammar, its strings mean what RFC 8259 says, and the line that is written gives a JSON reader the same key_id back, or not a byte is written |
| `bench` | `MCBench.cfg` | `TypeOK`, `NothingLeftBehind`, `ChildStreams`, `SuccessIsWhole`, `HeapBalanced`, `EveryCallCounted`, `FailuresCounted`, `BenchEnds` | whatever system call or allocation fails, descriptors, children, blocks, calls and failures are accounted for, and the benchmark ends |
| `lostsignal` | `MCSaltCli_lostsignal.cfg` | `SignalReported` is violated | a signal caught between the installation of the handlers and the reset of the flag is forgotten |
| `sigpipe` | `MCSaltCli_sigpipe.cfg` | `BrokenPipeReturns` is violated | a broken pipe kills the process; it does not return status 4 |
| `argv` | `MCSaltCli_argv.cfg` | `ArgvScrubbedOnExit` is violated | the plaintext stays in the argument vector when the key is rejected |
| `race` | `MCSaltCli_race.cfg` | `InterruptEndsCall` is violated | a signal between the check of the flag and the sleeping read wakes nobody |
| `strict` | `MCKeyIdOutput_strict.cfg` | `StrictWhitespace` is violated | a vertical tab passes for JSON whitespace |
| `limit` | `MCBench_limit.cfg` | `ResultPopulated` is violated | when `--max-runtime` passes before the first sample, `iterations - 1` wraps and the result is read from outside the array |

The violation runs state what a document of the repository says and the code does
not do; `PROJECT.json` quotes the lines. Five smaller disagreements have no run.
`salt -h --bogus` prints a second `error: ` with no text behind it, where
`DESIGN.md:201-204` has `error: <message>`. `DESIGN.md:530-536` wipes the buffers
before it restores the handlers, `main.c:152-154` the other way round.
`DESIGN.md:612-614` leaves the padding out of the output size and gives
`crypto_box_SEALBYTES` as 32, where it is 48. `DESIGN.md:82-83` shows an example
that reads key and plaintext both from stdin, which `args.c:191` refuses.
`DESIGN.md:675` and `694` say which entry points install handlers; `main.c:165-173`
passes `false` in both.

### Bounds, and why they are enough

- `SaltCli`: limits of one byte (`KeyMax`, `TextMax`) and a stream of at most two
  (`StreamBound`) give the cases of a bounded read: empty, exactly the limit, one
  byte more. In `embedded` the text may have two bytes and the stream three, so
  that a read also falls short with a byte in hand, at the end of the stream or
  because it failed. The code never looks at more than one byte past the
  limit, and every byte below it is read the same way. Two signals per process
  (in `process`) allow the second to arrive while the first is being dealt with;
  both kinds can arrive in either order. Where two calls are made (`embedded`) one
  signal is enough to be mistaken for one of the other call. Two calls (`MaxCalls`) are enough for anything that one
  leaves behind to reach the next. `SIZE_MAX` and `SEALBYTES` are real values
  there, because `SaltCli` only adds.
- `SealBox`: a `size_t` of five bits and keys of two bytes, so that message
  lengths, output sizes and key texts are enumerated up to and past every
  limit; no symmetry or sampling. The theorems cover all widths.
- `Args`: vectors of up to four words out of seventeen shapes. An option and its
  value take two words, and two settings of one option or an option behind an
  operand fit in the rest. Calls after the first use vectors of at most one word,
  which is enough to see whatever `getopt` kept.
- `KeyIdOutput`: all documents of up to four lexemes, which is the shortest prefix
  that reaches the end of a field, and all documents one insertion, deletion or
  replacement away from an object with one or two fields (nine lexemes). Buffers
  of 7, 12 and 4 bytes for names, keys and key_ids let strings of a few bytes fall
  short of, fill and exceed each; the code treats the three alike and never
  compares them; raw strings have up to four bytes, enough for two escapes, or for an escape
  before the closing quote. Options enumerate every sequence of up to three of the
  bytes at which the ranges of `is_valid_utf8_sequence` begin and end, and four
  for the longest form. A behaviour is one call, because the parser keeps nothing;
  its runs switch the deadlock check off for the state in which the call has
  returned.
- `Bench`: seven descriptors are one more than the benchmark and a child need, so
  that running out of them happens at every step only as a failure the model
  chooses; a pipe of two bytes and an input of four make writes short and let the
  writer sleep. A program of `bench-spawn` has one case of either kind of stdin
  with warm-up, two iterations and a batch of two between them; the programs of
  `bench` have a case without iterations and one that the filter leaves out, with
  one or two runs and with and without a limit. The clock advances by up to two
  nanoseconds at a time and stops at five (`MaxClock`), so that the limit passes
  before the first sample, between two, or not at all. Its runs switch the
  deadlock check off because the benchmark ends.

### Fairness

`embedded` and `race` assume `WF_vars(Program)`: a process that can take a step is
scheduled. A sleeping read is not such a step, so nothing is assumed of the
producer or of signals; `CallEnds` has the end of the stream as its premise. A
read that gets bytes is bounded by `max`. `bench` assumes (`FairBenchSpec`) that
the benchmark runs (`Harness`, `SpawnRun`) and that the child does (`Exec`, `Eat`),
each weakly: they are processes of one kernel. A child has to end only once it
has read its input, which is what `CallEnds` says of salt; before that it may end
or not. No strong fairness is used: no step of either program is enabled only
now and then.

## What is proved

TLAPS proves these for every value of the constants that satisfies the named
assumptions (`StreamBoundAssumption`, `CliAssumption`, `SizeAssumption`,
`SealAssumption`, `SpawnAssumption`, `BenchAssumption`, `ArgsAssumption`,
`InputsAssumption`, `UnsetAssumption`, `BuffersAssumption`, `OptionsAssumption`,
`SealedAssumption`), which TLC evaluates in the runs. Every safety property of a
passing run is stated by one of them. The assumptions say what the code or a type
gives: that sizes are positive, that an argument vector is made of words, that a
string of the input ends at its first quote that is not escaped, or nowhere and
then the input does, and that the mark for an absent text is not a text.

For `SaltCli` (`SaltCliProofs`, `SaltCliPromises`):

- `TypeCorrect`: `Spec => []TypeOK`. It is inductive as it stands.
  `SignalFrame`, `StreamFrame` and `MemoryFrame` reduce a step of the process to
  what it does to one part, so that each part is typed by itself.
- `HandlersCorrect`: a call that returns has given SIGINT and SIGTERM back, for
  any number of calls and signals. The invariant alone says nothing about a call
  in progress, so `HandlersInv` adds what each label guarantees: a signal is
  either wholly the caller's or wholly the CLI's with the caller's action saved,
  and only at `installTerm`, `rollback` and `restoreTerm` do the two signals
  differ.
- `ScrubbedCorrect`: a call that returns has freed every buffer and wiped each
  over its whole allocation, on every error path. `ScrubInv` says why: the length
  each buffer will be wiped with (`WipeLen`, `state.c:79-98`) is the one it was
  allocated with, the buffer of a read exists from its allocation until it is
  discarded or handed over, and a read is under way only while the call waits for
  it.
- `OutputCorrect` and `DiagnosisCorrect`: the status of a call agrees with what it
  wrote to stdout and stderr. `OutcomeInv`: nothing is written before the report,
  but by the write that failed, and from there on the outcome is told. A status 4
  with the whole line on stdout is one that the error indicator of stdout accounts
  for, and then an earlier call has returned 4: in the first call, and so in the
  installed program, it does not happen.
- `BrokenStreamsCorrect`: a call that seals and succeeds has met no failure on its
  streams, and none was left there by an earlier call. `SoundInv` carries along
  that nothing is kept of a read whose `FILE` has its indicator set.
- `PlaintextGuardedCorrect` and `KilledOnlyWhenToldCorrect`: while a managed call
  holds secrets it is guarded, until its cleanup, where it has nothing more to
  say. `GuardInv` ties `HandlersInv`'s labels to what of the heap each can hold.
- `SignalStatusCorrect` and `InterruptCorrect`: status 5 is not made up, and a signal
  in the working part of a call is not lost. `SignalInv` and `InterruptInv` follow
  the flag from the handler to the next place that tests it.
- `ProbeCorrect` and `WholeInputCorrect`: an input that is refused for its size is
  consumed up to the limit and no further, and what is sealed is all of the
  input. `AccountInv` counts every byte the producer has sent as pending, read, or
  in the probe's hand; `TextInv` carries the result of a finished read on to the
  sealing.

For the refinement (`SaltCliRefinementProofs`):

- `ContractCorrect`: `Spec => ImplementsContract`. Initial states map to initial
  states, and every step of the process is `Work`, `Write`, `Kill`, `Return` or
  another step of `CliContract`, or a stutter. It uses all the invariants above:
  the contract's `Return` requires clean hands and a status the output bears out
  (`Bears`). To a caller who has been told status 4 before (`doubt`) the contract
  promises less: another 4 may come with the whole line.

For `SealBox` (`SealBoxProofs`):

- `BoxTypeCorrect`, `NeverAbortsCorrect` and `PreconditionsCorrect`: every state is
  typed; libsodium's encoder never meets a short buffer; a call is refused exactly
  when a precondition of `salt.h` fails. `BoxInv` carries along what each check has
  found out. It rests on two lemmas about the code's arithmetic:
  `OutputLenExact`, the output length is exact or `SIZE_MAX`, with no wrap
  unnoticed at any width of `size_t`; and `DecodeExact`, decoding under two
  variants and comparing where it stopped accepts exactly the canonical
  encodings of a key.
- `WrittenCorrect`, `NothingKeptCorrect` and `PlaintextZeroedCorrect`: what a call
  leaves behind on each of its paths. `OwedInv` says at each label what is still to
  be wiped and what `*output_written` holds.

For the benchmark (`BenchProofs`):

- `NothingLeftCorrect` and `ChildStreamsCorrect`, for a table of descriptors of any
  size. `SpawnInv` describes the table at each step by the local variables of
  `spawn_run` (`Layout`); `OpenLayout`, `ShutLayout` and `ChildLayout` say what
  opening, closing and the `dup2` of the child make of it. `ChildLayout` needs that
  the descriptors of the call lie above the standard ones, which holds because
  those are open when the program starts (`Started`).
- `SuccessCorrect`, for inputs and pipes of any size. `FeedInv`: what was written is
  eaten or in the pipe, and a child sees the end only when the parent has given up
  its end of the pipe.
- `HeapCorrect` and `FailuresCorrect`, for all cases and options: `HeapInv` says
  which blocks are held where, `CountInv` that each selected case passed over is a
  record, a failure or a loss of stdio.
- `CallsCorrect`: without a time limit `fn` is called exactly as often as the
  options ask, for any number of cases, runs, iterations and batches. `TallyInv` gives at each
  place of the harness the number of calls so far: those of the earlier runs, and
  of this run the warm-up and the batches passed. The record takes its iterations
  from one run of several, so the invariant follows them there (`Measured`).
- `BenchTypeCorrect`: the pipe, both tables and the array of samples stay within
  their bounds (`SpawnTypeInv`, `TallyInv`), and no time that is subtracted lies
  ahead of the clock (`ClockInv`).

For the arguments (`ArgsProofs`), for vectors of any length and any words:

- `ArgsTypeCorrect`, `CallDecidedByArgv`, `SettingsReadAsWritten`, `HelpHidesNoError`
  and `RefusalsExplained`: the loop over `getopt_long` agrees with a reading of the
  vector at one glance, and no earlier call of the process has any part in it. One
  invariant, `ArgsInv`, gives them all. It says of the options already handled what
  the properties say of the vector as a whole: each letter is in order
  (`LettersRight`), each field holds the last value given for it, or its default
  (`FieldRight`), the flags and operands are those in front of `optind`; and that
  `getopt` stands between two words or inside one that is an option
  (`PositionOK`). `DecidedByArgv` is what `CliAssumption` of `SaltCli` rests on:
  no call that is accepted reads both secrets from stdin.

For the texts (`KeyIdOutputProofs`), for byte strings of any length:

- `ValidIsWellFormed`: `is_valid_utf8` accepts exactly what RFC 3629 calls well
  formed. `LenIsEncoded`: the length the code's range tests find at a position is
  that of the code point encoded there, if there is one. What is said of a byte
  depends on those behind it alone, so both definitions describe one function
  (`SaidOnce`).
- `TokenIsMeaning`: the token reader of `parse.c` stores what RFC 8259 makes of a
  string, if its escapes are of the table, it has no control byte and fits its
  buffer with the terminator; otherwise nothing. The state of the reader after `k`
  bytes is compared with the meaning of the first `k` (`ReaderAt`).
- `EscapedSpells`: what `write_json_string` puts between two quotes is a string
  that ends there, and means what it was given.

For the key document, for documents and buffers of any size:

- `KeyDocumentTypeCorrect` and `RejectedNamesNobodyHolds`: nothing is stored without
  room for its terminator, the cursor stays inside the document, and a document that
  is rejected lends no key_id (`DocTypeInv`).
- `AcceptsTheGrammarHolds` and `FieldsAsWrittenHolds`: the parser accepts exactly the
  grammar and reads its fields as they are written. The grammar looks at the
  document without its whitespace (`Solid`), the parser walks over the document with
  a cursor; `DocInv` says at each label which of the solid lexemes the cursor is at
  and which fields the ones before it make (`NamePlace`, `ValuePlace`,
  `SeparatorPlace`, `FinishPlace`). When the parser fails it is because no object
  goes on like that, for which `FieldMore`, `FieldToCome` and `ObjectEnds` say how an
  object can go on.

For the output of a key_id:

- `RefusedWholeHolds` and `KeyIdSurvivesHolds`: JSON output is refused exactly if the
  key_id is missing or is not UTF-8, and then before a byte is written; a call that
  succeeds has written one object, and a reader finds the sealed message and the
  key_id that was asked for in it. `OutputInv` adds to `DocInv` that what is written
  and what the calls still to be made will write are together the whole line
  (`Pending`); `ObjectRead` is the reader, which rests on `EscapedSpells`.

The provers have no induction over data: the theorems of the library that give
it take an operator as a parameter. `Induction` states the same for the set of
numbers that have a property, which follows from there being a least number
outside of it; and since the reference definitions are recursive functions and
not `RECURSIVE` operators, `PrimitiveRecursion` gives their values.

Only model-checked: liveness (`CallEnds`, `FailedReadEnds`, `BenchEnds`) and the
violations, none of which the provers can reach; and that the models are right
about what surrounds the program (libsodium, stdio, `getopt_long`, the kernel),
which no proof can say.

## What is not modelled

- The cryptography, and the contents of buffers.
- Pages and locks. `sodium_mlock` is best effort and its result ignored;
  `sodium_munlock` works on pages, so that releasing one buffer unlocks its
  neighbours. Which buffers share a page is the choice of malloc, so the code
  promises nothing a property could state. What it does promise, that every byte
  is wiped whether or not it was locked, is `Scrubbed` and `NothingKept`.
- The text of diagnostics and of the help.
- `POSIXLY_CORRECT`, which stops `getopt_long` from permuting operands.
- A `sigaction` that fails while an action is put back: the code ignores it, and
  the kernel gives no reason for it.
- Of the benchmarks: the cases themselves, the confidence interval, the outlier
  report, the text and the layout of the records, the command lines, a
  `CLOCK_MONOTONIC` that fails, and a benchmark started with one of descriptors 0
  to 2 closed (its child would then lose a stream to the pipe).
- Test hooks, whose injected failures are the nondeterministic choices of the
  models; tests, fuzz harnesses, scripts and examples, which are listed with the
  reason in `PROJECT.json`.

Remarks made while modelling, which no property is about: an embedded NUL ends a
key read from stdin (`input.c:190-200` hands a C string on); what
stdio still has in its buffer after a failed write may come out with a later
call's line, which `out` does not count; a help or version text is judged by its
own `fflush` alone (`stream.c:25-30`), whatever the indicator of stdout says; the
sealing functions also take a null `output_written`, which `SealBox` leaves out;
`FailuresCounted` counts records and does not say whose they are; `prepare.c:28` tests the
output length for 0, while the length that does not fit is `SIZE_MAX`, which the
limits rule out before; JSON mode seals the message before it rejects a missing
key_id; a child that ends before it has read its input kills `bench-spawn` by
SIGPIPE, unless that was inherited as ignored (step `killed`);
`bench_emit_json` does not look at what `fprintf` and `fclose` return (`lost`);
and `max_runtime_ms * 1000000` can wrap.

## Plan

What is left, in this order:

1. `BoundedInput`: an abstract bounded read (all of the stream or a refusal, in
   one step), with `StreamRead` shown to implement it; its theorem follows from
   `AccountInv`.
2. `Args` composed with `SaltCli`: a request is derived from a vector, so that
   `CliAssumption` becomes a consequence of `CallDecidedByArgv`.
3. The oracle of `fuzz/fuzz_roundtrip.c`, as a property of `SealBox` with an
   abstract `crypto_box_seal_open`.
