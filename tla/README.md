# A TLA+ model of syren

syren is a strace-like system call tracer. It runs a program (or attaches to
one), turns its system calls into a stream of events through one of two
backends, decodes each event and prints it. This directory models all of that
way: how tracing is started, the two backends and what both promise, the driver
with its filter and its exit status, the decoder with the generated table it
looks calls up in, and the sinks down to the device they write to. Source paths
below are relative to `src/crates/`.

## Inventory

| Part | State | Operations | What makes it correct |
|---|---|---|---|
| ptrace backend, `syren-trace/src/ptrace.rs` | `live`, `inflight`, `tgid` (a cache), `pending_resume`, `leader`, `follow` | `spawn`, `attach`, `configure`, `next_event`, `handle`, `on_syscall_stop`, `forget`, `tgid_of` | every stop is answered; an event joins the two ends of one call; one event per call; the task of an event stays stopped while the caller looks at it; the stream ends when all tasks are gone |
| eBPF programs, `syren-ebpf/src/main.rs` | maps `TARGETS`, `ENTERS`, `PATHARG`, ring `EVENTS` | `sys_enter`, `sys_exit`, `sched_process_fork`, `capture_path` | pairing per task; only and all tasks of the program; bounded maps and ring; a capture shows what the call saw |
| eBPF tracer, `syren-trace/src/ebpf.rs` | `queue`, `finished`, `child`, `watch`, `current` | `spawn`, `attach`, `arm`, `next_event`, `drain_ring`, `liveness_done`, `enqueue_exit`, `wait_ring`, `memory` | order; the exit after the last record; it ends |
| start-up, `syren-cli/src/main.rs`, `syren-trace/src/lib.rs` | the invocation, the forked children | `build_target`, `build_tracer`, `tracer`, `open_output` | the command runs once; nobody is left blocked; success means traced; bad options do no harm |
| the trait `Tracer`, `syren-trace/src/lib.rs` | none | `next_event`, `leader`, `memory` | both backends produce "the same event stream" |
| driver, `syren-cli/src/main.rs` | `exit_code` | `run`, `main`, `is_broken_pipe`, `list_syscalls` | the leader's status becomes syren's; a failed write is not a success |
| filter, `syren-cli/src/filter.rs` | none | `from_exprs`, `allows` | a set of expressions means the union of its tokens |
| decoder, `syren-decode/src/` | none | `decode`, `render_arg`, `read_cstr`, `quote_bytes`, flag and constant rendering | what is shown is what was there |
| sinks, `syren-output/src/` | the `-c` table, the writer's buffer | `record`, `finish`, drop | in order, nothing missing; totals agree; errors reach `main` |
| tables and their generator, `syren-common`, `syren-gen` | none | lookups, build-time generation | a call is found by its number and by its name |

The driver calls `next_event` of a `Tracer` in a loop; between two calls it
reads the tracee's memory through `memory`, decodes, and writes to a `Sink`.
The ptrace backend talks to the kernel by `ptrace` and `waitpid`; the tasks run
concurrently with it and may die at any moment. The eBPF backend shares the maps
and the ring with programs that run on whatever processor a task runs on.

What is hard to test here is in `PROJECT.json` under `hazards`: the parity of
syscall-stops, kills between `waitpid` and the call that answers it, fork events
that come after the child's whole life, exec by a thread, full maps and rings,
reuse of task ids, records half written, a failing step in the middle of the
start-up, a device that refuses in the middle of a line, registers at the edges of
their types.

## Modules

| Module | Models |
|---|---|
| `PtraceKernel` | the tasks and `ptrace`/`waitpid` as the tracer uses them (external, except `Options`, which is `configure`) |
| `PtraceTracer` | `PtraceTracer` of `ptrace.rs`; EXTENDS `PtraceKernel` |
| `PtraceTracerProofs` | its theorems, and that it implements `TraceStream` |
| `SyrenCli` | `run` and `main` over the ptrace backend; EXTENDS `PtraceTracer` |
| `SyrenCliProofs` | its theorems |
| `EbpfTracer` | the programs of `syren-ebpf` and `EbpfTracer` of `ebpf.rs` |
| `EbpfTracerProofs` | its theorems, and that it implements `TraceStream` |
| `TraceStream` | the contract of the trait `Tracer`, without backend |
| `PtraceStream`, `EbpfStream` | the refinement mappings of the backends to `TraceStream`; with eBPF a history variable is added |
| `Startup` | `run` up to its loop, with both constructors, the fallback and `open_output` |
| `StartupProofs` | its theorems |
| `Output` | `run` over a tracer that reports anything: the filter, the sinks, the writers, `main`; EXTENDS `Filter` |
| `OutputProofs` | its theorems |
| `Filter` | `filter.rs`; EXTENDS `SyscallTable` |
| `SyscallTable` | `syren-gen`, and the lookups of `syren-common` |
| `Decode` | `decode` and all it calls; EXTENDS `Flags` and `SyscallTable` |
| `Flags` | `flags.rs` |
| `DecodeProofs` | the theorems of `Flags`, `SyscallTable` and `Decode` |
| `PathString` | `capture_path`, `EbpfMemory`, `ProcMemReader`, `read_cstr`, and where `quote_bytes` cuts |
| `PathStringProofs` | its theorems |
| `Induction` | lemmas on numbers, minima and sorting that the proof modules share |
| `MCPtrace`, `MCCli`, `MCDecode`, `MCOutput` | instances for TLC (symmetry, constant values) |

`SyrenCli` and `Output` look at the same loop from two sides: `SyrenCli` has the
real ptrace backend under it and only asks which exit code comes out; `Output` has
an arbitrary tracer under it and follows every piece to the device.

Definitions named `X_Something` next to `X` are wrong versions of `X`: slips that
a later change of the code could make. They are not used by any specification;
replacing `X` by one of them must make TLC refute the property it is listed with
in `PROJECT.json`.

### PtraceKernel and PtraceTracer

A task is at user code, in the kernel, at one of the ptrace stops (`enter`,
`exit`, `clone`, `exec`, `signal`, `group`), a zombie or gone. The k-th system
call of a tid is named k; `OrigRax` and `Rax` are the call as the registers show
it, and `Rax` has a result only at a syscall-exit stop. Arguments and time stamps
carry no control and are left out. `waitpid` returns a stop once (`seen`) and
holds a dead group leader back while other threads of it remain. `Clone` makes
the new task stop at once, before its creator reaches the fork event, so the two
stops arrive in either order. `ExecBegin` and `ExecEnd` are the two halves of an
`execve`: the siblings are killed, and a thread that is not the leader continues
under the leader's tid. SIGKILL strikes at any moment, stops included.

`PtraceTracer` has `pc` for where `next_event` is. `waitpid` and the handler are
two steps, so that a task may be killed in between; a handler is one step, since
what tasks do between two calls of one handler only decides whether these fail
(`HandleEsrch`, `Fail`). Each arm of `handle` is an action. `reported`,
`last`, `execd` and `told` are history; `told` has the tasks that a fork event has
announced. An exit code is what a wait status has room for, `0..255`
(`KernelAssumption`). After an error or the final `None` nothing more is looked at.

### SyrenCli

`Record` is one round of the loop of `run`: it takes in the exit of the leader,
records the event and calls `next_event` again. `RecordFails` and `Finish` bring
in the write errors; `main` maps a broken pipe to 0 and anything else to 1, or to
the 101 of a panic when the message cannot be printed. Which events the filter lets
through does not matter to the exit status.

### EbpfTracer

The exit tracepoint is two steps, `SysExit` up to the `reserve` of a ring slot and
`Submit`: a reserved record holds back the ones behind it. `next_event` is one
step for each thing it looks at, as the tasks never stop. `TARGETS`, `ENTERS` and
`EVENTS` have the capacities `MaxTargets`, `MaxEnters`, `RingSize`. Whether the target
was spawned or attached to is the field `watch`, which Init chooses. A spawned child is
alone; beside the processes attached to there may be others from the start, threads and
children of theirs, which `attach` does not arm. The tid of a dead task may be given out
again (`Free`), by `Fork` to a new task of the traced program or of one that is not
traced, and by `TidReused` to a task of some other program; `Reuse` bounds how often.
`ExecTakesOver` is the `execve` of a thread. Both are constants because some of the
promises hold only without them. `mine` (the target and what descends from it), `heir`
(on each tid, the calls that only return there, in a task that has the tid of an earlier
one), `done`, `got` and `lost` are history. The status the exit is reported with is left
out.

### TraceStream, PtraceStream, EbpfStream

`TraceStream` has the calls each task has made, the call of each that was reported
last, the event the caller holds, and whether the stream has ended. A Syscall event
may be told only of a call that was made and is newer than the last one told of that
tid; calls may be left out (a filter, a full ring, a death); nothing comes after the
end. `PtraceStream` and `EbpfStream` add `last` to their backend and instantiate
`TraceStream` with `made <- ncall`, `held` the event in `out` reduced to kind, tid and
call, and `ended` the final answer. `KeepsContract` is the abstract specification.
It is weaker than the pairing properties on purpose: it holds also where entries and
exits are confused, or where a tid has gone to another program.

### Startup

Init chooses any command line; `Faults` is the set of things that may go wrong,
each of which then may or may not. The parent's calls are its steps, the child
(`kid`) runs concurrently: blocked on the pipe (eBPF) or through `traceme` and
`execvp` (ptrace). The order of `run` is kept: target and filter are judged first,
the tracer is built, the output is opened last. When `syren` fails while it traces,
EXITKILL takes its tracees along (`killed`). `ran` has the children that came to run
the COMMAND and `blind` those that began to when nobody traced them: with eBPF before
their tid was armed, with ptrace when `traceme` or `setoptions` failed. The message about the fallback is
printed with `eprintln!`, which panics if it cannot be (the fault `stderr`).

### SyscallTable and Filter

A line of `syscall_64.tbl` is a record of its columns. `ParseTbl`, `Categorize`,
`RenderArgs` and `Generate` are the generator: the lines kept, each at the place that
the number of lines `SortedBefore` it gives it, as a stable sort does. `SyscallByNumber`
is std's `binary_search_by_key`, which halves a window with `Halve` and looks at one entry in
the end; `SyscallByName` goes through the table. Of the names a choice is kept that has each way of
being classified (exact, by prefix, by neither) and each type of argument. `Filter`
takes an expression as its qualifier and its sequence of tokens; the case of letters
and blanks are left out.

### Decode, Flags and PathString

A register is a pair of signed 32-bit words, so that sign and zero extension, `as
i64` and `as u32 as i32` are what they are; a flag argument is the set of its bits.
What is shown is a term: a decimal with its sign, hex, a symbol (its table and
value), a string with the mark of being cut. `Build` generates the table once,
`DecodeOne` decodes an event, `DropEvent` is the driver being done with it.
`Flags` takes a rendering as a leading token, a set of names and the bits shown in
hex. `PathString` takes any memory with holes, any address, and reads the string
chunk by chunk while the task may write or die. How a byte is escaped is left out.

### Output

The device takes `device.room` pieces and then refuses, with a broken pipe or with
another error. stderr is unbuffered; stdout is std's `LineWriter`; `-o FILE` a
`BufWriter`, whose buffer is written when full and when it is dropped, where errors
are ignored. A text or JSON line is a body of `Parts` writes and a newline, so that a
refusal may come before, inside and behind the body: `write_call` and `serde_json` make
one write for each bit of a line, and JsonSink treats a refusal inside the body
differently from one at the newline. How many bits there are depends on the wording; one
number stands for all of them. The sinks' state is `stats`. The tracer returns any sequence of calls,
exits and signals, fails, or ends. `WriteEach` writes the lines of the table and of
`--list-syscalls`; `Sorted` is the order `sort_by` gives the rows, `Totals` the sums
of their columns. `CallsAssumption` says what the table and `decode` guarantee
of a reported call: its name is the one its number has in the table, or one that is no
entry's; and no entry has the name of a category it is not in (`time` is the one call
that is named like a category, and it is in it).

## Runs

Runs that pass:

| Run | Instance | Shows |
|---|---|---|
| `PtraceFollow` | 3 tasks, 2 calls each, 2 exit codes, 1 signal of 3 kinds, every operation, both kinds of write error | `TypeOK`, `NoStranded`, `Pairing`, `HeldStill`, `NoCallLost`, `TgidRight`, `ExitNamesGroup`, `NoneMeansGone`, `LeaderStatusKept`, `NoInventedStatus` |
| `PtraceSingle` | 2 attached tasks, no `--follow`, 3 calls, 2 signals of 6 kinds | `PairingAfterExec` (for every tid) |
| `PtraceLive` | 2 tasks, every operation, 1 signal of 4 kinds, a real-time one among them | `Responsive`, `EndsWhenAllDead`, `KeepsContract` |
| `EbpfFollow` | 3 tasks, one of them spawned, or attached to beside any of the others; `TARGETS` and ring of 2; one tid reused | `EntersHasRoom`, `Paired`, `NothingVanishes`, `TracedUnlessFull`, `KeepsContract` |
| `EbpfLeaderOnly` | 3 tasks, 1 spawned or 2 attached beside the third, no `--follow`, exec by a thread | `ExitIsLast`, `NoneMeansAllExited`, `EndsAfterExit` |
| `StartupFaults` | every fault, up to 3 pids | `RunsOnceIfArmed`, `NoChildBlocked`, `SuccessMeansTraced`, `BadOptionsHarmless`, `Decides` |
| `PathString` | 6 addresses, chunk 2, cap 5, capture 4, 2 shown | `WholeString`, `CaptureIsEnough` |
| `Decode` | 2 orders of the file, with lines of all three ABIs; 17 kinds of call, one unknown, one with a negative number and one with a number over 32 bits, with arguments, return values and memory at their edges; all subsets of 5 to 7 deciding flag bits | `Faithful`, `TableRight`, `ShownAlike`, `StringsEnd`, `FailureNamed` |
| `Output` | 8 sets of options, 3 sinks, 3 destinations, 3 events, lines of 4 pieces, a device that refuses after 0 to 5 or 7 pieces or not at all | `InOrder`, `NothingHeldBack`, `SuccessMeansWritten`, `SummaryRight`, `QuietOnBrokenPipe` |

Runs in which TLC refutes what the documentation says (each is a finding in
`PROJECT.json`, with the line of the code and the sentence it contradicts):

| Run | The code ... |
|---|---|
| `PtraceExecPairing` | forgets the entered call at the exec event; from then on entries and exits of the task are swapped |
| `EbpfLeaderExits` | ends the stream with the leader, although with `--follow` its descendants run on |
| `StartupTwice` | runs the command twice when arming fails |

### Exceptions the properties make

Some properties are weaker than the sentence they come from, because the code does
something else in one case. The exception is written into the property, so that the
run shows that there is no other:

* `NoneMeansGone` excepts a task whose creator was killed between the fork and the
  fork event: `live` never learns of it.
* `ExitNamesGroup` excepts a thread of which no call was reported before it died:
  `/proc` no longer knows its group, and the event carries its tid.
* `Paired` excepts the return of `clone` or `execve` in a task that has the tid of an
  earlier one, be it a task of another program, a new one of the traced program or
  the leader's since an `execve` by a thread: `try_exit` then finds the entry that the
  earlier one left in `ENTERS`. The calls entered after it are not excepted.
* `TracedUnlessFull` is about the tasks that were armed and what descends from them.
  With `-p PID -f` the threads and children the process already had are not armed by
  `attach` and run untraced, and so does what descends from them.
* `TracedUnlessFull` and `NothingVanishes` except what a full `TARGETS` or a full
  ring refuses, which the code does not count.
* `NoneMeansAllExited` and `ExitIsLast` are checked where no tid is reused: a new task
  under the leader's tid runs, and writes records, after its exit.
* `Decides` excepts a child whose `traceme` failed. Its program runs untraced, and
  `waitpid` waits for it to end, which it need not.
* `ExitIsLast` is about one process without `--follow`: with more tasks a record
  still being written hides those behind it from `drain_ring`.
* `LeaderStatusKept` is about a stream that ends with `None`. A task killed between
  a stop and the call that answers it (ESRCH), and a real-time signal (EINVAL from
  nix's `waitpid`), end it with an error, and syren exits with 1.
* `CaptureIsEnough` is about captured paths. The second path of `rename` and the
  path of `execve` are read from a task that runs on.
* `Faithful` lets go missing the high bit of `O_SYNC` or `O_TMPFILE` set alone:
  `covered` counts it and `decode_bits` does not name it.
* `SuccessMeansWritten` excepts `-o FILE`: `finish` does not flush the `BufWriter`,
  and its drop ignores the error, so that a full disk may end with a success.
* `NothingHeldBack` is about text and JSON. The summary is written by `finish`, which
  an error of the tracer skips.
* `QuietOnBrokenPipe` excepts JSON lines that meet the broken pipe in any part of the
  body, on stdout too when the body is larger than the buffer: the sink wraps the error
  and `main` fails, with 1, or with the panic of `eprintln!` if the pipe is stderr. Only
  if the newline meets it is it not wrapped.
* `ShownAlike` leaves out what is shown by what it points to, and flags. It compares
  descriptors and signals by their low half, which is all the kernel looks at, and
  excepts a signal whose low half has no name: that is shown as all 64 bits. Every other
  argument it compares by both halves, as the decoder shows them; of those that are an
  `int` to the kernel (the pid of `kill`, the family of `socket`) two registers may
  therefore be shown differently that the kernel takes for the same.
* `FailureNamed`: an errno without a name (41, 58, 134 and up, the kernel's 512 to
  516) is shown as a negative number and not counted as an error.
* `BadOptionsHarmless` is about the target and `-e`. An output file that cannot be
  created is found when the command already runs.

### Bounds

Three tasks are a creator, a child and a thread or grandchild: enough for the
races of fork, exec by a thread and death of a sibling, which involve two tasks
and a bystander. Two calls per task let the parity of stops go wrong in one and
show in the next; a new task's first call is its return from `clone`. On a tid that is
reused after its second call this leaves the return of the new task and no more; that
what comes later is paired again is for the proof to show, which has no such bound. As
calls run out, a tracee that is busy for ever cannot keep the others waiting:
`Responsive` says that no stop is forgotten, not that `waitpid` is just. One signal
(two without `--follow`) strikes at every possible moment. Maps and rings of one
or two entries are full at once. In `PathString` what is shown is shorter than
the capture and the capture than the cap, as in the code (32, 128, 4096), and the
chunk does not divide the cap, so that the last one is cut. In `Decode` strings are cut
after 2 bytes (`MAX_STR`), and memory holds none, fewer, as many and more, with the
NUL at the start, past the cut and nowhere. In `Output` a line is 4 pieces and the buffers
hold 3 (`Cap`) and 2 (`LineCap`, for stdout), so that they fill up inside a body, and the
device refuses before, in and after the body of the first line and inside the second; with
room for 13 it never does in a trace of 3 events. The three calls that can be reported tie in time, fail, and have an
unknown number. `MaxCalls`, `MaxSignals`, `MaxWrites`, `MaxEvents` and `Reuse` are the only
bounds on behaviour; the others are constants of the code made small.

### Fairness

`PtraceTracer` and `EbpfTracer` assume weak fairness of the tracer only: the
driver keeps asking for events, and the loop never waits while `waitpid` has
something to return, or, with eBPF, longer than the 100 ms of `wait_ring`. The
tasks promise nothing. In `Startup` parent and children are processes that the system
schedules: the parent goes on as long as it can, and a forked child gets to its `execvp`
(`ChildExec`). That the program then ends is not assumed.

## Proofs

All theorems are of the form `Spec => []P`, or `Spec => KeepsContract` for a refinement, for every value of the constants that the
named assumptions allow. Each rests on an inductive invariant which is stated in the
proof module as a conjunction of named parts; one lemma or one step per action shows
that it is preserved.

`PtraceTracerProofs`, for any set of tasks, any codes, signals and bounds, with or
without `--follow`, from `KernelAssumption` and `TracerAssumption`:

* `TypeCorrect`: `Spec => []TypeOK`.
* `NothingStranded`: `Spec => []NoStranded`. It is not inductive alone: one needs
  that tasks in `seen` are stopped, that `pending` is set only between two calls,
  and that the status of an exit is never about a task in `seen` (`SeenInv`).
* `Invariance`: `Spec => []IInv`, where `IInv` adds `CallInv`: for each task
  outside `execd` and each state of it, what `inflight` and `reported` say. A task
  at user code or about to enter has no call in flight and all of its calls
  reported (`AtRest`); one inside a call has exactly that call in flight
  (`Waiting`); at a stop the answer depends on whether `waitpid` has returned it
  and on whether it is being handled. This is the correspondence the code relies
  on when it takes a syscall-stop with a call in flight for an exit.
* `PairingHolds`, `HeldStillHolds`, `NoCallLostHolds` follow from `IInv`;
  `PairingWithoutFollow` shows that without `--follow` `execd` stays empty, so
  pairing holds for every tid.
* `TgidRightHolds` and `ExitNamesGroupHolds` from `GroupInv`: the cache `tgid` has for
  a task its group or nothing, and it has it once a call of the task was reported.
* `NoneMeansGoneHolds` from `LiveInv`: `live` has every announced task that is not
  reaped. The attempt to prove an earlier form of `NoneMeansGone` failed for a good
  reason. It recognised an announced task by the message of its creator's fork event,
  which an `execve` of another thread overwrites, so that on larger instances it called
  a task unannounced that was not. `told` takes its place.
* `KeepsContractHolds`: the ptrace backend implements `TraceStream`. `StreamInv` says
  that `last` is behind the calls made and, of a call in flight, behind that.

`SyrenCliProofs`, over the ptrace backend: `CliInvariance`, and from it
`LeaderStatusKeptHolds` and `NoInventedStatusHolds`. `StatusInv` says that a status fits
eight bits and that the leader is its own group; `LeaderInv` that once the leader is
reaped no exit under its group is still to come, and its code is in hand, just
reported, or what `run` has kept.

`EbpfTracerProofs`, from `EbpfAssumption`, for any number of tasks and any sizes:

* `TypeCorrect`, and `EntersNeverFull`: entries are among the targets and the targets
  are bounded, so that the larger map always has room (`MapInv`), whatever tids are
  reused or taken over.
* `TracedUnlessFullHolds` from `GroupsInv`: the leaders of the tasks that descend from the
  target do, too, so that an `execve` by a thread brings no other tid in.
* `PairedHolds` from `PairInv`: the entry in `ENTERS` of a task that is inside a call it
  entered is that call's or missing, and every record on its way, in the ring or in the
  queue, joins the two ends of one call, or its return is one of `heir`. What a dead
  task left in `ENTERS` is taken out by the first return on its tid, whoever's it is:
  that is why no later call meets it.
* `NothingVanishesHolds`: the calls recorded are counted by the ring, the queue, what
  was handed out and what a full ring refused. The proof is about cardinalities of sets
  of calls, and that the parts are disjoint.
* `NoneMeansAllExitedHolds`, for `~Follow` and `Reuse = 0`, and `ExitIsLastHolds`, for `Reuse = 0`. These
  hypotheses are those under which the code keeps the promise. With `--follow` the run
  `EbpfLeaderExits` refutes the first; a stranger under the leader's tid writes records
  after its exit.
* `KeepsContractHolds`: the eBPF backend implements `TraceStream`. `OrderInv` says that
  the calls of one tid are in order along the way: handed out, in the queue, in the ring,
  not yet recorded.

`StartupProofs`, for any pids and any faults, from `StartupAssumption`: `Invariance`
(`Spec => []SInv`), and from it `TypeCorrect`, `RunsOnceHolds`, `NoChildBlockedHolds`,
`SuccessMeansTracedHolds` and `BadOptionsHarmlessHolds`. None of them is inductive:
`SInv` says which children there can be at each call of the parent (`KidInv`), that
nothing has happened to anyone before the first fork or attach (`EarlyInv`), that a
child stopped at its `execve` is traced and one let go on has run (`PtraceInv`),
that whoever is armed does not fall back (`ArmedInv`), that a program which began to run
untraced is never the one the loop is entered with (`BlindInv`), and how far attaching has
come (`AttachInv`).

`PathStringProofs`, for any memory, chunk, cap and capture (`PathAssumption`):
`LoopInvariance` is the loop invariant of `read_cstr` (the cursor is behind what was
taken, and what was taken is how the source begins and has no NUL); `WholeStringHolds`
and `CaptureIsEnoughHolds` follow from it.

`OutputProofs`, for any options, calls, sizes of the buffers and any device, from
`OutputAssumption` and `CallsAssumption`: `OutputInvariance`, and from it `InOrderHolds`,
`NothingHeldBackHolds`, `SuccessMeansWrittenHolds` and `QuietOnBrokenPipeHolds`; and
`SummaryRightHolds`. The argument has four parts.

* Lemmas on the writers (`FlushIs`, `BufWriteIs`, `LineWriteIs`, `RawPiece`, put
  together in `WriteAllIs`): a write adds its piece to what is on the device and in the
  buffer, or the device is full and refused. `WriteEachIs` and `BodyIs` do this for any
  number of pieces, one after the other: what is there is how they begin (`Starts`).
  `RecordToIs` does it for a line, and says whether the device refused in the body or at
  the newline and what error each sink makes of it.
* `FilterRight`: a filter that was built lets through the calls that `Wanted` says, which
  is stated by the options alone. `all` and errors decide by their position, the rest
  by their union.
* `RunInv`: while `run` has not returned, the writer is between two lines, and what it
  was given are the lines of the wanted events. Each line is as long as
  any other (`LineIs`), so that the number of pieces that are missing tells whether it
  was a JSON body that was refused or a newline.
* `SumInv`: while `run` has not returned, `stats` has for each name the number of its
  calls and errors and the sum of their time (`StatsRight`, kept by `StatsGrow`). The rows
  of the table are a permutation of the names, in order (`SortedIs`). The totals are sums
  over rows and are compared with what is counted over events: `SumOfParts` says that for
  anything additive, be it a count or a time, the sum over the parts is that of the whole.

`DecodeProofs`:

* `AlwaysFaithful`, for every 64-bit value of a flag argument. It rests on a lemma that
  `join` is faithful if no flag lies across the edge of the leading field, and on
  the tables. `FaithfulHolds` says the same of the larger specification, `DecodeSpec`.
* `DecodeInvariance`: `DecodeSpec => []DecodeInv`, for any file of any length in any order,
  any registers, return values and memory. The table, once built, is sorted by number and
  has exactly the lines of the 64-bit ABI (`GenerateIs`); the bisection finds the number
  that is there (`BinarySearchIs`), as halving never puts the number outside of its
  window (`HalveIs`, `WindowIs`); and what is shown is `decode` of the event.
* `TableRightHolds`, `ShownAlikeHolds`, `StringsEndHolds` and `FailureNamedHolds` follow.
  `TableRight` is about the lines of the file and is stated without `Kept`, so that it also
  says that none of them is dropped. `ShownAlike` goes over the kinds of argument, with a lemma for each that rendering is
  injective on what matters; `StringsEnd` over `read_cstr` and `quote_bytes`.

They take from `TablesAssumption` that `syscall_64.tbl` gives each call once and with the
number the kernel has for it, from `CallsAssumption` that two calls have two numbers and
that an event has the registers its call takes, and that `MAX_STR` is positive
(`DecodeAssumption`). The attempt to prove an earlier form of `ShownAlike` failed for a good
reason. It said that only the low half of a signal ever matters; for signal 0, which
`kill` takes and which has no name, `[hi |-> 1, lo |-> 0]` is shown as another number. The
property now says so, and the run has that register.

Where a proof needs induction over data (the lines of a trace, the pieces of a table,
the tokens of all expressions), the induction theorems of the library cannot be used,
as the installed provers do not instantiate an operator. The lemmas of `Induction` take
their place. `LeastNumber` gets the least
element of a set of numbers from `WFMin`, and `UpTo` gets induction up to n for a set
in place of a predicate. `Recursion` gives the existence of a function from its steps,
which are a function too; that is enough for the recursive functions `LinesOf`,
`WriteEach`, `FlattenSeq` and `SumOf`, and for the windows of the bisection. `Ranked` says that
places given by a count of predecessors in a strict total order are a permutation in that
order: it is what sorting needs.

Only model-checked: the liveness properties (`Responsive`, `EndsWhenAllDead`,
`EndsAfterExit`, `Decides`), as fairness and `ENABLED` are out of the prover's reach. What
the three runs that expect a violation refute is of course not proved either.

## Not modelled

The wording of the output: the spelling of symbols, errnos and signals, escapes,
colours, `-T`, and the percentages and averages of the summary. Time stamps and
durations, but for the durations the summary adds up. Logging. The text the generator
emits. The `bench-selfarm` feature, the benchmarks and the examples. The code that the
eBPF backend reports an exit with (the child's, or 0 for a process it only attached
to). SIGSTOP and SIGTRAP that the program really was sent are swallowed by the code
and by the model. `drain_ring` against tasks that produce faster than it consumes
cannot be seen with bounded calls.

## Plan

What is left:

1. The driver over the eBPF backend, with the status its exits carry.
2. A run that refutes the comment on `Sink::finish` ("Flush any buffered/aggregated
   output") for `-o FILE`; the exception of `SuccessMeansWritten` is that case.
3. The escapes of `quote_bytes` against a reader that takes them back.
