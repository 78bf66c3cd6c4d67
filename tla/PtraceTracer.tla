---------------------------- MODULE PtraceTracer ----------------------------
(***************************************************************************)
(* The ptrace backend, crates/syren-trace/src/ptrace.rs: PtraceTracer and  *)
(* its next_event loop, over the tasks of PtraceKernel.                    *)
(*                                                                         *)
(* waitpid and the handling of the status it returned are two steps, so a  *)
(* task may die in between.  One handler is one step: the tracer is single *)
(* threaded, and whatever a task does between two ptrace calls of one      *)
(* handler only changes whether those calls fail.                          *)
(*                                                                         *)
(* The initial state is the one a successful PtraceTracer::new leaves.     *)
(***************************************************************************)
EXTENDS PtraceKernel

CONSTANTS None,     \* Option::None
          Spawned   \* whether Root was spawned or attached to

ASSUME TracerAssumption == None \notin Task /\ Spawned \in BOOLEAN

VARIABLES live,      \* the tids the tracer counts as alive
          inflight,  \* the call entered by each tid, 0 if none
          tgid,      \* cache: tid -> thread-group id, or None
          pending,   \* pending_resume: the task left stopped at syscall exit
          pc,        \* where next_event is
          status,    \* the WaitStatus being handled
          out,       \* the event in the hands of the caller
          reported,  \* history: Syscall events emitted for each tid
          last,      \* history: the call in the last one of them
          told       \* history: Root and the tids that a handled fork event named

tvars == <<live, inflight, tgid, pending, pc, status, out, reported, last, told>>
vars == <<kvars, tvars>>

Event == [kind : {"none", "syscall", "exit", "signal"}, pid : Task, tid : Task,
          call : Nat, ret : Nat, n : Nat]

AnyTask == CHOOSE t \in Root : TRUE
NoStatus == [kind |-> "none", pid |-> AnyTask, n |-> 0]
NoEvent == [kind |-> "none", pid |-> AnyTask, tid |-> AnyTask,
            call |-> 0, ret |-> 0, n |-> 0]

TracerInit ==
    /\ live = Root
    /\ inflight = [t \in Task |-> 0]
    /\ tgid = [t \in Task |-> IF Spawned /\ t \in Root THEN t ELSE None]
    /\ pending = None
    /\ pc = "idle"
    /\ status = NoStatus
    /\ out = NoEvent
    /\ reported = [t \in Task |-> 0]
    /\ last = [t \in Task |-> 0]
    /\ told = Root

Init == KernelInit /\ TracerInit

Final == pc \in {"none", "err"}

\* Emit event e and return to the caller of next_event.
Return(e) == pc' = "idle" /\ out' = e

\* The handler answered Ok(None): once more around the loop of next_event.
Again == pc' = "loop" /\ UNCHANGED out

\* A ptrace or waitpid call failed and `?` hands the error to the caller.
Fail ==
    /\ pc' = "err"
    /\ UNCHANGED <<kvars, live, inflight, tgid, pending, status, out, reported,
                   last, told>>

\* read_tgid: the thread group that /proc/<tid>/status names; a task that
\* waitpid has reaped is no longer in /proc.
ReadTgid(t) == IF st[t] = "gone" THEN None ELSE grp[t]

\* Slips in tgid_of: nothing to fall back on; /proc never read.
TgidOf_NoFallback(t) == IF tgid[t] # None THEN tgid[t] ELSE ReadTgid(t)
TgidOf_NoProc(t) == IF tgid[t] # None THEN tgid[t] ELSE t

\* tgid_of: the cached id, else what /proc says, else the tid itself.
TgidOf(t) == IF tgid[t] # None THEN tgid[t]
             ELSE IF ReadTgid(t) # None THEN ReadTgid(t) ELSE t

\* A slip: get instead of remove.
InflightRemove_Get(t) == inflight

\* inflight.remove(&pid)
InflightRemove(t) == [inflight EXCEPT ![t] = 0]

\* A slip: the task is resumed before its event is returned.
Defer_Eager(t) == pending' = None /\ Resume(t, 0)

\* The task of a reported exit is left stopped until the next call.
Defer(t) == pending' = t /\ UNCHANGED kvars

-----------------------------------------------------------------------------
(* next_event.                                                             *)

\* A slip: pending_resume is taken and dropped.
NextEvent_NoResume ==
    /\ pc = "idle"
    /\ pc' = "loop"
    /\ pending' = None
    /\ status' = NoStatus
    /\ out' = NoEvent
    /\ UNCHANGED <<kvars, live, inflight, tgid, reported, last, told>>

\* Called again: resume the task whose exit was reported last.
NextEvent ==
    /\ pc = "idle"
    /\ IF pending # None
       THEN IF Stopped(pending)
            THEN Resume(pending, 0) /\ pc' = "loop"
            ELSE pc' = "err" /\ UNCHANGED kvars
       ELSE pc' = "loop" /\ UNCHANGED kvars
    /\ pending' = None
    /\ status' = NoStatus
    /\ out' = NoEvent
    /\ UNCHANGED <<live, inflight, tgid, reported, last, told>>

\* A slip: ECHILD is not the end.
ReturnNone_NoEchild ==
    /\ pc = "loop"
    /\ live = {}
    /\ pc' = "none"
    /\ UNCHANGED <<kvars, live, inflight, tgid, pending, status, out, reported,
                   last, told>>

\* Nothing is left to trace, or waitpid says ECHILD.
ReturnNone ==
    /\ pc = "loop"
    /\ live = {} \/ NoChild
    /\ pc' = "none"
    /\ UNCHANGED <<kvars, live, inflight, tgid, pending, status, out, reported,
                   last, told>>

WaitPid(t) ==
    /\ pc = "loop"
    /\ live # {}
    /\ Collect(t)
    /\ status' = StatusOf(t)
    \* nix has no Signal for a real-time signal: waitpid answers EINVAL.
    /\ pc' = IF /\ StatusOf(t).kind \in {"stopped", "signaled"}
                /\ StatusOf(t).n >= SIGRTMIN
             THEN "err" ELSE "handle"
    /\ UNCHANGED <<live, inflight, tgid, pending, out, reported, last, told>>

-----------------------------------------------------------------------------
(* handle, one action per arm.                                             *)

\* The task of a stop status is not stopped any more (it was killed): the
\* first ptrace call of the handler answers ESRCH.
HandleEsrch ==
    /\ pc = "handle"
    /\ status.kind \notin {"exited", "signaled"}
    /\ ~Stopped(status.pid)
    /\ Fail

\* on_syscall_stop, first branch: a syscall-stop of a tid with an entered
\* call is its exit.
SyscallStopExit ==
    LET t == status.pid IN
    /\ pc = "handle" /\ status.kind = "syscall"
    /\ Stopped(t)
    /\ inflight[t] # 0
    /\ inflight' = InflightRemove(t)
    /\ Defer(t)
    /\ tgid' = [tgid EXCEPT ![t] = TgidOf(t)]
    /\ reported' = [reported EXCEPT ![t] = @ + 1]
    /\ last' = [last EXCEPT ![t] = inflight[t]]
    /\ Return([kind |-> "syscall", pid |-> TgidOf(t), tid |-> t,
               call |-> inflight[t], ret |-> Rax(t), n |-> 0])
    /\ UNCHANGED <<live, status, told>>

\* on_syscall_stop, second branch: otherwise it is an entry.
SyscallStopEnter ==
    LET t == status.pid IN
    /\ pc = "handle" /\ status.kind = "syscall"
    /\ inflight[t] = 0
    /\ inflight' = [inflight EXCEPT ![t] = OrigRax(t)]
    /\ Resume(t, 0)
    /\ Again
    /\ UNCHANGED <<live, tgid, pending, status, reported, last, told>>

\* A slip: the new task is not counted as live.
HandleCloneEvent_NoInsert ==
    /\ pc = "handle" /\ status.kind = "clone"
    /\ told' = told \cup {msg[status.pid]}
    /\ Resume(status.pid, 0)
    /\ Again
    /\ UNCHANGED <<live, inflight, tgid, pending, status, reported, last>>

\* PTRACE_EVENT_FORK, _VFORK and _CLONE.
HandleCloneEvent ==
    /\ pc = "handle" /\ status.kind = "clone"
    /\ live' = IF Follow THEN live \cup {msg[status.pid]} ELSE live
    /\ told' = told \cup {msg[status.pid]}
    /\ Resume(status.pid, 0)
    /\ Again
    /\ UNCHANGED <<inflight, tgid, pending, status, reported, last>>

\* PTRACE_EVENT_EXEC.
HandleExecEvent ==
    /\ pc = "handle" /\ status.kind = "exec"
    /\ inflight' = InflightRemove(status.pid)
    /\ Resume(status.pid, 0)
    /\ Again
    /\ UNCHANGED <<live, tgid, pending, status, reported, last, told>>

\* Stopped: SIGSTOP and SIGTRAP are swallowed, any other signal is delivered
\* and reported.
HandleStopped ==
    LET t == status.pid
        swallow == status.n \in {SIGSTOP, SIGTRAP} IN
    /\ pc = "handle" /\ status.kind = "stopped"
    /\ Resume(t, IF swallow THEN 0 ELSE status.n)
    /\ IF swallow
       THEN Again /\ UNCHANGED tgid
       ELSE /\ tgid' = [tgid EXCEPT ![t] = TgidOf(t)]
            /\ Return([kind |-> "signal", pid |-> TgidOf(t), tid |-> t,
                       call |-> 0, ret |-> 0, n |-> status.n])
    /\ UNCHANGED <<live, inflight, pending, status, reported, last, told>>

\* A slip: the task is forgotten before its thread group is looked up.
HandleExit_ForgetFirst ==
    LET t == status.pid IN
    /\ pc = "handle" /\ status.kind \in {"exited", "signaled"}
    /\ live' = live \ {t}
    /\ inflight' = InflightRemove(t)
    /\ tgid' = [tgid EXCEPT ![t] = None]
    /\ Return([kind |-> "exit", pid |-> t, tid |-> t, call |-> 0, ret |-> 0,
               n |-> IF status.kind = "exited" THEN status.n
                     ELSE 128 + status.n])
    /\ UNCHANGED <<kvars, pending, status, reported, last, told>>

\* Exited and Signaled: forget the task, report its thread group.
HandleExit ==
    LET t == status.pid IN
    /\ pc = "handle" /\ status.kind \in {"exited", "signaled"}
    /\ live' = live \ {t}
    /\ inflight' = InflightRemove(t)
    /\ tgid' = [tgid EXCEPT ![t] = None]
    /\ Return([kind |-> "exit", pid |-> TgidOf(t), tid |-> t,
               call |-> 0, ret |-> 0,
               n |-> IF status.kind = "exited" THEN status.n
                     ELSE 128 + status.n])
    /\ UNCHANGED <<kvars, pending, status, reported, last, told>>

Handle ==
    \/ HandleEsrch
    \/ SyscallStopExit
    \/ SyscallStopEnter
    \/ HandleCloneEvent
    \/ HandleExecEvent
    \/ HandleStopped
    \/ HandleExit

TracerStep ==
    \/ NextEvent
    \/ ReturnNone
    \/ \E t \in Task : WaitPid(t)
    \/ Handle

\* The tasks run while the tracer and its caller do; once next_event has given
\* its final answer the tracer is dropped and nothing more is looked at.
TaskStep == ~Final /\ KernelStep /\ UNCHANGED tvars

\* Nothing need happen any more: next_event has given its final answer, or it
\* has nothing to wait for but tasks that compute, or block, for ever.
Quiet == Final \/ (pc = "loop" /\ \A t \in Task : ~Waitable(t))

Stutter == Quiet /\ UNCHANGED vars

Next == TracerStep \/ TaskStep \/ Stutter

\* The caller keeps asking for events and the single-threaded loop never waits
\* while waitpid has something to return.  The tasks promise nothing.
Fairness == WF_vars(TracerStep)

Spec == Init /\ [][Next]_vars /\ Fairness

-----------------------------------------------------------------------------
(* Properties.                                                             *)

\* Every field of PtraceTracer, the status in hand and the event handed out keep
\* their types: in particular tgid_of always answers with a task id, also when
\* /proc no longer knows the task.
TypeOK ==
    /\ KernelTypeOK
    /\ live \subseteq Task
    /\ inflight \in [Task -> Nat]
    /\ tgid \in [Task -> Task \cup {None}]
    /\ pending \in Task \cup {None}
    /\ pc \in {"idle", "loop", "handle", "none", "err"}
    /\ status \in WaitStatus
    /\ out \in Event
    /\ reported \in [Task -> Nat]
    /\ last \in [Task -> Nat]
    /\ told \subseteq Task

\* No tracee is forgotten at a stop: a stop that waitpid has returned (and will
\* never return again) is the one being handled or the deferred resume.
NoStranded ==
    ~Final => \A t \in seen : \/ pc = "handle" /\ status.pid = t
                              \/ pc = "idle" /\ pending = t

\* "arguments captured on entry, paired with the return value ... captured on
\* exit": a Syscall event joins the entry and the exit of one and the same
\* call, although a syscall-stop does not say which of the two it is.  A tid
\* that came out of a followed execve is excepted (see PairingAfterExec).
Pairing ==
    out.kind = "syscall" /\ out.tid \notin execd => out.ret = out.call

\* The same for every tid.
PairingAfterExec == out.kind = "syscall" => out.ret = out.call

\* The deferred resume: while the caller holds a Syscall event its task is still
\* stopped at the exit of that very call, so that its memory can be decoded;
\* only its death takes it away.
HeldStill ==
    pc = "idle" /\ out.kind = "syscall" /\ out.tid \notin execd
        => \/ st[out.tid] = "exit" /\ ncall[out.tid] = out.call
           \/ ~Alive(out.tid)

\* One event per call, in order: a task runs user code only when every call it
\* made has been reported; its n-th event is about its n-th call; and its death
\* loses no call but the one it died in.
NoCallLost ==
    \A t \in Task \ execd :
        /\ st[t] = "user" => reported[t] = ncall[t]
        /\ out.kind = "syscall" /\ out.tid = t => out.call = reported[t]
        /\ reported[t] \in {ncall[t] - 1, ncall[t]}

\* A Syscall or Signal event carries the thread group of its task, although the
\* answer of /proc is cached.
TgidRight == out.kind \in {"syscall", "signal"} => out.pid = grp[out.tid]

\* No fork event named this task: its creator died before that was handled.
Unannounced(c) == c \notin told

\* "returns `Ok(None)` once every traced task has exited", in whatever order fork
\* events, the stops of new tasks and exits arrive.  `live` learns of a task from
\* the fork event only: one whose creator is killed before it may be left.
NoneMeansGone ==
    pc = "none" => \A c \in Task : st[c] \in {"absent", "gone"} \/ Unannounced(c)

\* ProcessExit names "The thread-group id that exited", although /proc no longer
\* knows a task that waitpid has reaped: the cache does, if any call of the task
\* was reported.  A thread that was never reported is named by its own tid.
ExitNamesGroup ==
    out.kind = "exit" /\ (out.tid = grp[out.tid] \/ reported[out.tid] > 0)
        => out.pid = grp[out.tid]

\* No tracee waits for ever at a stop: next_event gets to it, unless it has
\* given its final answer.
Responsive == \A t \in Task : []<>(Final \/ ~Stopped(t))

\* Once every task has died, next_event comes to its end: entries of `live` that
\* no exit will ever remove do not keep it waiting.
EndsWhenAllDead == []((\A t \in Task : ~Alive(t)) => <>Final)
=============================================================================
