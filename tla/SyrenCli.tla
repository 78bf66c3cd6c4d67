------------------------------ MODULE SyrenCli ------------------------------
(***************************************************************************)
(* The driver loop of crates/syren-cli/src/main.rs (fn run and fn main)    *)
(* over the ptrace backend: it asks for events, hands them to the sink and *)
(* turns the exit of the leader into its own exit code.                    *)
(***************************************************************************)
EXTENDS PtraceTracer

CONSTANTS Leader,      \* what tracer.leader() answers
          SinkErrors   \* the io::Errors that writing a record may give

ASSUME CliAssumption ==
    /\ Leader \in Root
    /\ SinkErrors \subseteq {"BrokenPipe", "Other"}

VARIABLES exit_code,  \* run's local: the code of the leader's exit so far
          exited      \* the exit code of syren, -1 while it runs

cliVars == <<vars, exit_code, exited>>

CliInit == Init /\ exit_code = 0 /\ exited = -1

Clamp(n) == IF n > 255 THEN 255 ELSE n

\* A slip: the errno as exit code.
ErrorCode_Errno(e) == IF e = "BrokenPipe" THEN {32} ELSE {5}

\* main: a broken pipe is a success, any other error is reported; eprintln! panics
\* if there is no stderr to report it on.
ErrorCode(e) == IF e = "BrokenPipe" THEN {0} ELSE {1, 101}

\* A slip: the exit of any process is taken for the leader's.
Record_AnyExit ==
    /\ exited = -1
    /\ exit_code' = IF out.kind = "exit" THEN out.n ELSE exit_code
    /\ NextEvent
    /\ UNCHANGED exited

\* The body of the loop for the event in hand, up to the next next_event()?.
Record ==
    /\ exited = -1
    /\ exit_code' = IF out.kind = "exit" /\ out.pid = Leader
                    THEN out.n ELSE exit_code
    /\ NextEvent
    /\ UNCHANGED exited

\* sink.record(..)? fails; a filtered Syscall event is never recorded, but the
\* filter is not modelled here.
RecordFails(e) ==
    /\ exited = -1
    /\ pc = "idle" /\ out.kind # "none"
    /\ exited' \in ErrorCode(e)
    /\ exit_code' = IF out.kind = "exit" /\ out.pid = Leader
                    THEN out.n ELSE exit_code
    /\ UNCHANGED vars

\* The end of the stream: sink.finish()?, then the code of the leader.
Finish ==
    /\ exited = -1
    /\ pc = "none"
    /\ exited' \in {Clamp(exit_code)} \cup UNION {ErrorCode(e) : e \in SinkErrors}
    /\ UNCHANGED <<vars, exit_code>>

\* next_event()? failed.
TraceFails ==
    /\ exited = -1
    /\ pc = "err"
    /\ exited' \in ErrorCode("Other")
    /\ UNCHANGED <<vars, exit_code>>

Backend ==
    /\ exited = -1
    /\ \/ ReturnNone
       \/ \E t \in Task : WaitPid(t)
       \/ Handle
       \/ TaskStep
    /\ UNCHANGED <<exit_code, exited>>

CliStutter ==
    /\ exited # -1 \/ (Quiet /\ ~Final)
    /\ UNCHANGED cliVars

CliNext ==
    \/ Record
    \/ \E e \in SinkErrors : RecordFails(e)
    \/ Finish
    \/ TraceFails
    \/ Backend
    \/ CliStutter

CliSpec == CliInit /\ [][CliNext]_cliVars

-----------------------------------------------------------------------------
(* Properties.                                                             *)

\* The status a shell would show for the leader.
LeaderCode == IF wstatus[Leader].kind = "exited" THEN wstatus[Leader].n
              ELSE 128 + wstatus[Leader].n

\* "syren exits with the traced program's own exit status": when the event stream
\* ends, the code that run has kept is that of the leader itself, although every
\* thread of its group and every zapped sibling of an execve also reports a
\* ProcessExit under the leader's id.
LeaderStatusKept ==
    pc = "none" => st[Leader] = "gone" /\ Clamp(exit_code) = LeaderCode

\* Neither a failed write nor an error of the tracer makes syren report the exit
\* of a program that has not exited: a code other than those of main comes from a
\* dead leader.
NoInventedStatus ==
    exited \notin {-1, 0, 1, 101} => ~Alive(Leader) /\ exited = LeaderCode
=============================================================================
