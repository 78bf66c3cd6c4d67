---------------------------- MODULE PtraceStream ----------------------------
(***************************************************************************)
(* The ptrace backend implements TraceStream.                              *)
(***************************************************************************)
EXTENDS PtraceTracer

Stream == INSTANCE TraceStream WITH
    made <- ncall,
    held <- IF out.kind = "syscall"
            THEN [kind |-> "syscall", tid |-> out.tid, call |-> out.call]
            ELSE [kind |-> IF out.kind = "none" THEN "none" ELSE "other"],
    ended <- Final

\* "producing the same event stream": the ptrace loop reports only calls that were
\* made, those of a tid in order and none twice, also over an execve that
\* confuses entries and exits, and nothing after its final answer.
KeepsContract == Stream!StreamSpec
=============================================================================
