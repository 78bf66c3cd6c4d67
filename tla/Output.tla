------------------------------- MODULE Output -------------------------------
(***************************************************************************)
(* From the events to the bytes: fn run of crates/syren-cli/src/main.rs    *)
(* over a tracer that may report anything, with the three sinks of         *)
(* syren-output (text.rs, json.rs, summary.rs), the writers open_output    *)
(* puts under them, and the device at the end, which may refuse to take    *)
(* more at any point: a disk that is full, a pipe nobody reads.            *)
(*                                                                         *)
(* What is written is a sequence of pieces, each the argument of one write *)
(* to the device: the parts of the body of a line, its newline, or a row   *)
(* of the summary.  The wording of a line is left out: a part of a body is *)
(* named by the position of its event in the stream and its own.           *)
(***************************************************************************)
EXTENDS Filter

CONSTANTS Exprs,      \* the -e options of an invocation, each a sequence
          Calls,      \* the completed calls a tracer may report
          Codes,      \* exit codes
          Rooms,      \* how many pieces the device takes before it refuses
          Names,      \* the names of the calls in alphabetical order
          Parts,      \* writes that the body of a line is made of
          Cap,        \* pieces a BufWriter holds (8192 bytes)
          LineCap,    \* pieces the LineWriter of stdout holds (1024 bytes)
          MaxEvents   \* bound on the events of a trace

ASSUME OutputAssumption ==
    /\ Parts \in Nat \ {0} /\ Cap \in Nat \ {0} /\ LineCap \in Nat \ {0}
    /\ MaxEvents \in Nat
    /\ Rooms \subseteq Nat
    /\ Names \in Seq(STRING)
    /\ \A c \in Calls : c.name \in ToSet(Names) /\ c.failed \in BOOLEAN /\ c.duration_ns \in Nat
    /\ Exprs \subseteq Seq([qualifier : STRING,
                            tokens : Seq([pct : BOOLEAN, word : STRING])])

\* SYSCALLS is an array.  A call is reported under the name that its number has in
\* it, or under one that is no entry's and no category's; and no entry has the name
\* of a category that it is not in.
ASSUME CallsAssumption ==
    /\ SYSCALLS \in Seq(ToSet(SYSCALLS))
    /\ \A c \in Calls :
          /\ c.kind = "syscall"
          /\ \A e \in ToSet(SYSCALLS) :
                c.name = e.name <=> c.nr.hi = 0 /\ c.nr.lo = e.number
          /\ \/ \E e \in ToSet(SYSCALLS) : c.name = e.name
             \/ CategoryParse(c.name) = {}
    /\ \A e \in ToSet(SYSCALLS) : CategoryParse(e.name) \subseteq {e.category}

VARIABLES cli,        \* the options: sink, destination, -e, --list-syscalls
          device,     \* its room, and the io::ErrorKind of its refusal
          pc,         \* where run is, or how it ended
          filter,     \* run's local
          stats,      \* of the summary sink: name -> Stat
          out,        \* the writer: its buffer, the device, the error it gave
          exit_code,  \* run's local: the code of the leader's exit so far
          exited,     \* the exit code of syren, -1 while it runs
          made        \* history: the events the tracer has returned

vars == <<cli, device, pc, filter, stats, out, exit_code, exited, made>>

Cli == [sink : {"text", "json", "summary"}, dest : {"stderr", "stdout", "file"},
        exprs : Exprs, list : BOOLEAN]

Init ==
    /\ cli \in Cli
    /\ device \in [room : Rooms, err : {"BrokenPipe", "Other"}]
    /\ pc = "start"
    /\ filter = FilterAll
    /\ stats = <<>>
    /\ out = [buf |-> <<>>, disk |-> <<>>, err |-> "none"]
    /\ exit_code = 0
    /\ exited = -1
    /\ made = <<>>

-----------------------------------------------------------------------------
(* The writers: std's BufWriter and LineWriter, and the device.            *)

\* The device takes what it has room for.
RawWrite(w, pieces) ==
    LET n == Min({Len(pieces), device.room - Len(w.disk)})
    IN [w EXCEPT !.disk = @ \o SubSeq(pieces, 1, n),
                 !.err = IF n < Len(pieces) THEN device.err ELSE @]

\* flush_buf: what could not be written stays in the buffer.
Flush(w) ==
    LET n == Min({Len(w.buf), device.room - Len(w.disk)})
    IN [RawWrite(w, w.buf) EXCEPT !.buf = SubSeq(w.buf, n + 1, Len(w.buf))]

\* BufWriter: a full buffer is flushed before more goes into it.
BufWrite(w, piece, cap) ==
    LET roomy == IF Len(w.buf) >= cap THEN Flush(w) ELSE w
    IN IF roomy.err # "none" THEN roomy
       ELSE [roomy EXCEPT !.buf = Append(@, piece)]

\* LineWriter: the same, and a newline flushes.
LineWrite(w, piece) ==
    LET b == BufWrite(w, piece, LineCap)
    IN IF b.err = "none" /\ piece.nl THEN Flush(b) ELSE b

\* Slip: everything goes through a BufWriter.
WriteAll_Buffered(w, piece) ==
    IF w.err # "none" THEN w ELSE BufWrite(w, piece, Cap)

\* The writer of list_syscalls and that of open_output; after an error `?` has
\* returned and nothing is written.
WriteAll(w, piece) ==
    IF w.err # "none" THEN w
    ELSE CASE cli.list \/ cli.dest = "file" -> BufWrite(w, piece, Cap)
           [] ~cli.list /\ cli.dest = "stderr" -> RawWrite(w, <<piece>>)
           [] ~cli.list /\ cli.dest = "stdout" -> LineWrite(w, piece)

\* One piece after the other.
WriteEach(w, pieces) ==
    LET upto[k \in 0..Len(pieces)] ==
          IF k = 0 THEN w ELSE WriteAll(upto[k - 1], pieces[k])
    IN upto[Len(pieces)]

\* The sink is dropped, also where `?` returns: what is in the buffer is written
\* if it can be, and an error of that goes unnoticed.  The runtime does the same
\* for stdout.
Drop(w) == [Flush(w) EXCEPT !.err = w.err]

-----------------------------------------------------------------------------
(* The sinks.                                                              *)

Body(i) == [k \in 1..Parts |-> [id |-> i, part |-> k, nl |-> FALSE]]
Newline(i) == [id |-> i, part |-> Parts + 1, nl |-> TRUE]
Line(i) == Append(Body(i), Newline(i))

\* TextSink::record: write_call and the rest, one write! after the other, then the
\* newline.
TextRecord(w, i) == WriteAll(WriteEach(w, Body(i)), Newline(i))

\* JsonSink::record: serde_json makes many writes; an error of any of them becomes an
\* io::Error of kind Other, one of the newline does not.
JsonRecord(w, i) ==
    LET b == WriteEach(w, Body(i))
    IN IF b.err # "none" THEN [b EXCEPT !.err = "Other"] ELSE WriteAll(b, Newline(i))

\* What is written of event i; the summary writes nothing yet.
RecordTo(w, i) == CASE cli.sink = "text" -> TextRecord(w, i)
                    [] cli.sink = "json" -> JsonRecord(w, i)
                    [] cli.sink = "summary" -> w

NoStat == [calls |-> 0, errors |-> 0, total_ns |-> 0]
StatOf(name) == IF name \in DOMAIN stats THEN stats[name] ELSE NoStat

\* Slip: a call that failed is counted as an error only.
Counted_Either(s, call) ==
    IF call.failed THEN [s EXCEPT !.errors = @ + 1]
    ELSE [s EXCEPT !.calls = @ + 1, !.total_ns = @ + call.duration_ns]

\* SummarySink::record of one call.
Counted(s, call) ==
    [calls |-> s.calls + 1,
     total_ns |-> s.total_ns + call.duration_ns,
     errors |-> s.errors + (IF call.failed THEN 1 ELSE 0)]

\* The order of the rows: total time and calls descending, then the name.
Position(name) == CHOOSE i \in DOMAIN Names : Names[i] = name
Before(a, b) ==
    LET s == stats[a]
        t == stats[b]
    IN \/ s.total_ns > t.total_ns
       \/ s.total_ns = t.total_ns /\ s.calls > t.calls
       \/ s.total_ns = t.total_ns /\ s.calls = t.calls /\ Position(a) < Position(b)

Row(name, s) == [name |-> name, calls |-> s.calls, errors |-> s.errors,
                 total_ns |-> s.total_ns, nl |-> TRUE]
HeadLine == [row |-> "head", nl |-> TRUE]
RuleLine == [row |-> "rule", nl |-> TRUE]

\* sort_by: the row with n others before it comes after n others.
Sorted == [i \in 1..Cardinality(DOMAIN stats) |->
             CHOOSE name \in DOMAIN stats :
                Cardinality({n \in DOMAIN stats : Before(n, name)}) = i - 1]

\* One number after the other added up.
SumOf(s) ==
    LET upto[n \in 0..Len(s)] == IF n = 0 THEN 0 ELSE upto[n - 1] + s[n]
    IN upto[Len(s)]

\* The sums of the rows' columns.
Totals(rows) == [calls |-> SumOf([i \in DOMAIN rows |-> rows[i].calls]),
                 errors |-> SumOf([i \in DOMAIN rows |-> rows[i].errors]),
                 total_ns |-> SumOf([i \in DOMAIN rows |-> rows[i].total_ns])]

\* SummarySink::finish: the lines of the table.
Table ==
    LET rows == [i \in DOMAIN Sorted |-> Row(Sorted[i], stats[Sorted[i]])]
    IN <<HeadLine, RuleLine>> \o rows \o <<RuleLine, Row("total", Totals(rows))>>

\* finish: the other two sinks do nothing.
FinishTo(w) == IF cli.sink = "summary" THEN WriteEach(w, Table) ELSE w

-----------------------------------------------------------------------------
(* run and main.                                                           *)

\* main tells the error on stderr: eprintln! panics if that is the device and takes
\* no more.  The message itself is left out.
Reported(w) ==
    IF cli.dest = "stderr" /\ ~cli.list /\ Len(w.disk) = device.room THEN 101 ELSE 1

\* Slip: no error is told from another.
ErrorCode_Always(w) == Reported(w)

\* main and is_broken_pipe.
ErrorCode(w) == IF w.err = "BrokenPipe" THEN 0 ELSE Reported(w)

\* run returns, and drops what it owns.
Ends(how, w, code) == pc' = how /\ out' = Drop(w) /\ exited' = code

\* list_syscalls, through a BufWriter that is flushed.
ListSyscalls ==
    LET lines == <<HeadLine>> \o [i \in DOMAIN SYSCALLS |-> Newline(SYSCALLS[i].number)]
        written == WriteEach(out, lines)
        w == IF written.err = "none" THEN Flush(written) ELSE written
    IN /\ pc = "start" /\ cli.list
       /\ Ends("listed", w, IF w.err = "none" THEN 0 ELSE ErrorCode(w))
       /\ UNCHANGED <<cli, device, filter, stats, exit_code, made>>

\* Filter::from_exprs; the tracer is started after it.
BuildFilter ==
    /\ pc = "start" /\ ~cli.list
    /\ filter' = FromExprs(cli.exprs)
    /\ IF filter'.kind = "Error" THEN Ends("refused", out, ErrorCode(out))
       ELSE pc' = "open" /\ UNCHANGED <<out, exited>>
    /\ UNCHANGED <<cli, device, stats, exit_code, made>>

\* open_output: a file may not be there to be created.
OpenOutput ==
    /\ pc = "open"
    /\ \/ pc' = "loop" /\ UNCHANGED <<out, exited>>
       \/ cli.dest = "file" /\ Ends("unopened", out, ErrorCode(out))
    /\ UNCHANGED <<cli, device, filter, stats, exit_code, made>>

\* sink.record(..)? of the event that has just been returned.
RecordNow ==
    LET w == RecordTo(out, Len(made) + 1)
    IN IF w.err = "none" THEN out' = w /\ UNCHANGED <<pc, exited>>
       ELSE Ends("write_error", w, ErrorCode(w))

OnSyscall(call) ==
    /\ pc = "loop"
    /\ made' = Append(made, call)
    /\ IF ~Allows(filter, call.nr) THEN UNCHANGED <<stats, out, pc, exited>>
       ELSE /\ RecordNow
            /\ stats' = IF cli.sink # "summary" THEN stats
                        ELSE [n \in DOMAIN stats \cup {call.name} |->
                                IF n = call.name THEN Counted(StatOf(n), call)
                                ELSE stats[n]]
    /\ UNCHANGED <<cli, device, filter, exit_code>>

OnExit(leader, code) ==
    /\ pc = "loop"
    /\ made' = Append(made, [kind |-> "exit", leader |-> leader, code |-> code])
    /\ exit_code' = IF leader THEN code ELSE exit_code
    /\ RecordNow
    /\ UNCHANGED <<cli, device, filter, stats>>

OnSignal ==
    /\ pc = "loop"
    /\ made' = Append(made, [kind |-> "signal"])
    /\ RecordNow
    /\ UNCHANGED <<cli, device, filter, stats, exit_code>>

\* Slip: the error is reported and the process exited on the spot.
TracerFails_Exit ==
    /\ pc = "loop"
    /\ pc' = "tracer_error" /\ exited' = 1
    /\ UNCHANGED <<cli, device, filter, stats, out, exit_code, made>>

\* next_event()? fails: finish is not called.
TracerFails ==
    /\ pc = "loop"
    /\ Ends("tracer_error", out, ErrorCode(out))
    /\ UNCHANGED <<cli, device, filter, stats, exit_code, made>>

\* The end of the stream: sink.finish()?, drop(sink), the code of the leader.
Finish ==
    LET w == FinishTo(out)
    IN /\ pc = "loop"
       /\ IF w.err = "none" THEN Ends("finished", w, exit_code)
          ELSE Ends("write_error", w, ErrorCode(w))
       /\ UNCHANGED <<cli, device, filter, stats, exit_code, made>>

Event ==
    /\ Len(made) < MaxEvents
    /\ \/ \E call \in Calls : OnSyscall(call)
       \/ \E leader \in BOOLEAN, code \in Codes : OnExit(leader, code)
       \/ OnSignal

Stutter == exited # -1 /\ UNCHANGED vars

Next ==
    \/ ListSyscalls
    \/ BuildFilter
    \/ OpenOutput
    \/ Event
    \/ TracerFails
    \/ Finish
    \/ Stutter

Spec == Init /\ [][Next]_vars

-----------------------------------------------------------------------------
(* Properties.                                                             *)

\* What the user asked to see, told from the options alone: everything, or the
\* calls that a token names or whose category it names.
Wanted(event) ==
    \/ event.kind # "syscall"
    \/ cli.exprs = <<>>
    \/ \E expr \in ToSet(cli.exprs) : \E token \in ToSet(expr.tokens) :
          \/ token.word \in {"all", event.name}
          \/ /\ \E e \in ToSet(SYSCALLS) : e.name = event.name
             /\ token.word = AsStr[Categorize(event.name)]

\* The lines of those of the first n events that are in a set, and of the wanted
\* ones of the events so far.
LinesOf(set, n) ==
    LET upto[i \in 0..n] ==
          IF i = 0 THEN <<>>
          ELSE upto[i - 1] \o (IF i \in set THEN Line(i) ELSE <<>>)
    IN upto[n]
Lines == LinesOf({i \in DOMAIN made : Wanted(made[i])}, Len(made))

Streaming == cli.sink # "summary" /\ ~cli.list
Refused == Len(out.disk) = device.room

\* What is on the device and in the buffer is the wanted events, in the order in
\* which the tracer returned them, each once and none missing; once the device
\* has refused a write, it is the beginning of that.
InOrder ==
    Streaming => IF out.err = "none" THEN out.disk \o out.buf = Lines
                 ELSE IsPrefix(out.disk, Lines)

\* However the run ended, with an error of the tracer too, what was recorded is on
\* the device if the device has taken all it was given.
NothingHeldBack ==
    Streaming /\ exited # -1 /\ ~Refused => out.disk = Lines

\* If syren ends as if all was well then all lines are out, unless they were left to
\* a BufWriter (-o FILE), whose last flush is nobody's to look at.
SuccessMeansWritten ==
    pc = "finished" /\ cli.dest # "file" =>
        /\ out.buf = <<>>
        /\ Streaming => out.disk = Lines

\* The summary on the device: a row for each name that was called, with all its
\* calls, errors and time, in the order strace has them, ties in that of the names,
\* and their sums.
CallsOf(name) == {i \in DOMAIN made : /\ made[i].kind = "syscall" /\ made[i].name = name
                                      /\ Wanted(made[i])}
FailedOf(name) == {i \in CallsOf(name) : made[i].failed}
TimeOf(set) == SumOf([i \in DOMAIN made |-> IF i \in set THEN made[i].duration_ns ELSE 0])
RowOf(name, set, failed) ==
    [name |-> name, calls |-> Cardinality(set), errors |-> Cardinality(failed),
     total_ns |-> TimeOf(set), nl |-> TRUE]
Called == {name \in ToSet(Names) : CallsOf(name) # {}}

SummaryRight ==
    cli.sink = "summary" /\ pc = "finished" /\ ~Refused =>
        LET rows == SubSeq(out.disk, 3, Len(out.disk) - 2)
        IN /\ ToSet(rows) = {RowOf(n, CallsOf(n), FailedOf(n)) : n \in Called}
           /\ Len(rows) = Cardinality(Called)
           /\ \A i, j \in DOMAIN rows : i < j =>
                 \/ rows[i].total_ns > rows[j].total_ns
                 \/ /\ rows[i].total_ns = rows[j].total_ns
                    /\ \/ rows[i].calls > rows[j].calls
                       \/ /\ rows[i].calls = rows[j].calls
                          /\ Position(rows[i].name) < Position(rows[j].name)
           /\ out.disk[Len(out.disk)] =
                 RowOf("total", UNION {CallsOf(n) : n \in Called},
                       UNION {FailedOf(n) : n \in Called})

\* A reader that goes away is no error, wherever in a line it does, and any other
\* failure of the device is one; but JsonSink hides what the error was if any part
\* of the body of a line met it, so that it is quiet only if nothing but the
\* newline of the last line is missing of all that was to be written.
QuietOnBrokenPipe ==
    /\ pc = "write_error" =>
          (exited = 0 <=>
              /\ device.err = "BrokenPipe"
              /\ cli.sink = "json" => Len(Lines) - Len(out.disk \o out.buf) <= 1)
    /\ pc = "listed" /\ device.err = "BrokenPipe" => exited = 0
=============================================================================
