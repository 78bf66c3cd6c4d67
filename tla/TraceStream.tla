---------------------------- MODULE TraceStream ----------------------------
(***************************************************************************)
(* What the two backends promise their caller, "the same event stream":    *)
(* the contract of trait Tracer in crates/syren-trace/src/lib.rs, said     *)
(* without ptrace, maps or rings.  Each Syscall event is about a call that *)
(* its task has really made; the events of a task come in the order of its *)
(* calls and no call is reported twice, though calls may be left out; and  *)
(* nothing comes after the end.  PtraceStream and EbpfStream implement it. *)
(***************************************************************************)
EXTENDS Naturals

CONSTANT Task

VARIABLES made,   \* the calls each task has made so far
          last,   \* the call of each task that was reported last
          held,   \* the event in the hands of the caller
          ended   \* whether next_event has returned None or an error

streamVars == <<made, last, held, ended>>

Nothing == [kind |-> "none"]
OtherEvent == [kind |-> "other"]
SyscallEvent(t, k) == [kind |-> "syscall", tid |-> t, call |-> k]

StreamInit ==
    /\ made \in [Task -> Nat]
    /\ last = [t \in Task |-> 0]
    /\ held = Nothing
    /\ ended = FALSE

\* Tasks make calls, at any time.
MakeCalls ==
    /\ made' \in [Task -> Nat]
    /\ \A t \in Task : made'[t] >= made[t]
    /\ UNCHANGED <<last, held, ended>>

\* The caller asks for an event when it is done with the one before.
Ask ==
    /\ ~ended
    /\ held' = Nothing
    /\ UNCHANGED <<made, last>>
    /\ ended' \in BOOLEAN

Tell(t, k) ==
    /\ ~ended /\ held = Nothing
    /\ k > last[t] /\ k <= made[t]
    /\ last' = [last EXCEPT ![t] = k]
    /\ held' = SyscallEvent(t, k)
    /\ UNCHANGED <<made, ended>>

\* An exit or a signal.
TellOther ==
    /\ ~ended /\ held = Nothing
    /\ held' = OtherEvent
    /\ UNCHANGED <<made, last, ended>>

End ==
    /\ ~ended /\ held = Nothing
    /\ ended' = TRUE
    /\ UNCHANGED <<made, last, held>>

StreamNext ==
    \/ MakeCalls
    \/ Ask
    \/ \E t \in Task : \E k \in (last[t] + 1)..made[t] : Tell(t, k)
    \/ TellOther
    \/ End

StreamSpec == StreamInit /\ [][StreamNext]_streamVars
=============================================================================
