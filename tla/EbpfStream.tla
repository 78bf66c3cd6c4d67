----------------------------- MODULE EbpfStream -----------------------------
(***************************************************************************)
(* The eBPF backend implements TraceStream.  A history variable is added   *)
(* to it: the call of each tid that was reported last.                     *)
(***************************************************************************)
EXTENDS EbpfTracer

VARIABLE last   \* history: the call of each tid in its last Syscall event

Told ==
    last' = IF out' # out /\ out'.kind = "syscall"
            THEN [last EXCEPT ![out'.tid] = out'.call] ELSE last

EbpfStreamNext == Next /\ Told

EbpfStreamSpec ==
    /\ Init /\ last = [t \in Task |-> 0]
    /\ [][EbpfStreamNext]_<<vars, last>>
    /\ Fairness

Stream == INSTANCE TraceStream WITH
    made <- ncall,
    held <- IF out.kind = "syscall"
            THEN [kind |-> "syscall", tid |-> out.tid, call |-> out.call]
            ELSE [kind |-> IF out.kind = "none" THEN "none" ELSE "other"],
    ended <- pc = "none"

\* "producing the same event stream": what comes out of the ring and the queue are
\* calls that were made, those of a tid in order and none twice, whatever the
\* ring dropped and whoever has a tid by then, and nothing after the end.
KeepsContract == Stream!StreamSpec
=============================================================================
