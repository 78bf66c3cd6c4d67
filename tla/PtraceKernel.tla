---------------------------- MODULE PtraceKernel ----------------------------
(***************************************************************************)
(* The traced tasks as ptrace(2), clone(2), execve(2), _exit(2) and        *)
(* waitpid(2) show them to crates/syren-trace/src/ptrace.rs.  None of this *)
(* code is in the repository: it is modelled from the calls the tracer     *)
(* makes and the options configure sets (see Options).                     *)
(*                                                                         *)
(* A task is identified by its tid.  A tid is never reused here.  The k-th *)
(* system call that a tid enters is named k.                               *)
(***************************************************************************)
EXTENDS Integers

CONSTANTS Task,       \* every tid that may exist
          Root,       \* the tasks traced from the start
          Follow,     \* --follow: TRACEFORK, TRACECLONE and TRACEEXEC are set
          Ops,        \* what else than plain calls the program does
          Codes,      \* the exit codes the program uses
          Signals,    \* the signals that may reach a task
          MaxCalls,   \* bound: system calls per task
          MaxSignals  \* bound: signals sent in all

SIGTRAP == 5
SIGKILL == 9
SIGTERM == 15
SIGSTOP == 19
SIGTSTP == 20
SIGRTMIN == 34

AllOps == {"thread", "fork", "exec", "exit", "exit_group"}

ASSUME KernelAssumption ==
    /\ Root \subseteq Task /\ Root # {}
    /\ Follow \in BOOLEAN
    /\ Ops \subseteq AllOps
    /\ Codes \subseteq 0..255   \* the status of waitpid(2) has eight bits for it
    /\ Signals \subseteq Nat
    /\ MaxCalls \in Nat
    /\ MaxSignals \in Nat

VARIABLES st,       \* where each task is
          grp,      \* its thread-group id
          ncall,    \* system calls it has entered
          sig,      \* the signal of its signal stop, or one about to stop it
          msg,      \* what PTRACE_GETEVENTMSG answers: the new task, until its
                    \* creator is resumed from the event
          wstatus,  \* a zombie's exit status
          seen,     \* stopped tasks whose stop waitpid has returned
          nsig,     \* signals sent so far
          execd     \* history: tids that came out of a followed execve

kvars == <<st, grp, ncall, sig, msg, wstatus, seen, nsig, execd>>

\* A slip: TRACESYSGOOD is not asked for.
Options_NoSysgood ==
    {"EXITKILL"} \cup
    (IF Follow THEN {"TRACEFORK", "TRACEVFORK", "TRACECLONE", "TRACEEXEC"} ELSE {})

\* configure: the ptrace options every traced task is given and passes on.
Options ==
    {"TRACESYSGOOD", "EXITKILL"} \cup
    (IF Follow THEN {"TRACEFORK", "TRACEVFORK", "TRACECLONE", "TRACEEXEC"} ELSE {})

StopStates == {"enter", "exit", "clone", "exec", "signal", "group"}
DeadStates == {"absent", "zombie", "gone"}
RunStates  == {"user", "kernel", "cloned", "execing", "return"}

ExitStatus == [kind : {"exited", "signaled"}, n : Nat]
WaitStatus == [kind : {"none", "syscall", "clone", "exec", "stopped",
                       "exited", "signaled"}, pid : Task, n : Nat]

KernelTypeOK ==
    /\ st \in [Task -> StopStates \cup DeadStates \cup RunStates]
    /\ grp \in [Task -> Task]
    /\ ncall \in [Task -> Nat]
    /\ sig \in [Task -> Nat]
    /\ msg \in [Task -> Task]
    /\ wstatus \in [Task -> ExitStatus]
    /\ seen \subseteq Task
    /\ nsig \in 0..MaxSignals
    /\ execd \subseteq Task

KernelInit ==
    /\ st = [t \in Task |-> IF t \in Root THEN "user" ELSE "absent"]
    /\ grp = [t \in Task |-> t]
    /\ ncall = [t \in Task |-> 0]
    /\ sig = [t \in Task |-> 0]
    /\ msg = [t \in Task |-> t]
    /\ wstatus = [t \in Task |-> [kind |-> "exited", n |-> 0]]
    /\ seen = {}
    /\ nsig = 0
    /\ execd = {}

Stopped(t) == st[t] \in StopStates
Alive(t) == st[t] \notin DeadStates
Mates(t) == {u \in Task : grp[u] = grp[t] /\ st[u] \notin {"absent", "gone"}}

-----------------------------------------------------------------------------
(* What a task does between two stops.                                     *)

SyscallEnter(t) ==
    /\ st[t] = "user"
    /\ ncall[t] < MaxCalls
    /\ st' = [st EXCEPT ![t] = "enter"]
    /\ ncall' = [ncall EXCEPT ![t] = @ + 1]
    /\ UNCHANGED <<grp, sig, msg, wstatus, seen, nsig, execd>>

SyscallExit(t) ==
    /\ st[t] \in {"kernel", "return"}
    /\ st' = [st EXCEPT ![t] = "exit"]
    /\ UNCHANGED <<grp, ncall, sig, msg, wstatus, seen, nsig, execd>>

\* The new task is attached and stops with SIGSTOP; it may be seen to stop,
\* run and die before its creator reaches the fork or clone event stop.
Clone(t, u, g) ==
    /\ st[t] = "kernel"
    /\ st[u] = "absent"
    /\ \/ "thread" \in Ops /\ "TRACECLONE" \in Options /\ g = grp[t]
       \/ "fork" \in Ops /\ "TRACEFORK" \in Options /\ g = u
    /\ st' = [st EXCEPT ![t] = "cloned", ![u] = "signal"]
    /\ grp' = [grp EXCEPT ![u] = g]
    /\ sig' = [sig EXCEPT ![u] = SIGSTOP]
    /\ msg' = [msg EXCEPT ![t] = u]
    /\ UNCHANGED <<ncall, wstatus, seen, nsig, execd>>

CloneStop(t) ==
    /\ st[t] = "cloned"
    /\ st' = [st EXCEPT ![t] = "clone"]
    /\ UNCHANGED <<grp, ncall, sig, msg, wstatus, seen, nsig, execd>>

\* execve first kills the other threads, whose exit status is then 0.
ExecBegin(t) ==
    /\ "exec" \in Ops
    /\ st[t] = "kernel"
    /\ LET killed == {u \in Mates(t) \ {t} : Alive(u)} IN
       /\ st' = [u \in Task |-> IF u = t THEN "execing"
                                ELSE IF u \in killed THEN "zombie" ELSE st[u]]
       /\ wstatus' = [u \in Task |-> IF u \in killed
                                     THEN [kind |-> "exited", n |-> 0]
                                     ELSE wstatus[u]]
       /\ seen' = seen \ killed
    /\ UNCHANGED <<grp, ncall, sig, msg, nsig, execd>>

\* It completes once the other threads are reaped.  A thread that is not the
\* group leader takes over the leader's tid.  Without TRACEEXEC the task gets
\* SIGTRAP, which stops it after the syscall-exit stop.
ExecEnd(t) ==
    LET l == grp[t] IN
    /\ st[t] = "execing"
    /\ l = t \/ st[l] = "zombie"
    /\ Mates(t) \subseteq {t, l}
    /\ IF "TRACEEXEC" \in Options
       THEN /\ st' = [u \in Task |-> IF u = l THEN "exec"
                                     ELSE IF u = t THEN "gone" ELSE st[u]]
            /\ ncall' = [ncall EXCEPT ![l] = IF l = t THEN @ ELSE @ + 1]
            /\ msg' = [msg EXCEPT ![l] = t]
            /\ execd' = execd \cup {t, l}
            /\ UNCHANGED sig
       ELSE /\ st' = [st EXCEPT ![t] = "exit"]
            /\ sig' = [sig EXCEPT ![t] = SIGTRAP]
            /\ UNCHANGED <<ncall, msg, execd>>
    /\ UNCHANGED <<grp, wstatus, seen, nsig>>

\* The whole thread group of t ends with exit status w.
GroupDies(t, w) ==
    /\ st' = [u \in Task |-> IF u \in Mates(t) THEN "zombie" ELSE st[u]]
    /\ wstatus' = [u \in Task |-> IF u \in Mates(t) THEN w ELSE wstatus[u]]
    /\ seen' = seen \ Mates(t)

ThreadExit(t, c) ==
    /\ "exit" \in Ops
    /\ st[t] = "kernel"
    /\ st' = [st EXCEPT ![t] = "zombie"]
    /\ wstatus' = [wstatus EXCEPT ![t] = [kind |-> "exited", n |-> c]]
    /\ UNCHANGED <<grp, ncall, sig, msg, seen, nsig, execd>>

GroupExit(t, c) ==
    /\ "exit_group" \in Ops
    /\ st[t] = "kernel"
    /\ GroupDies(t, [kind |-> "exited", n |-> c])
    /\ UNCHANGED <<grp, ncall, sig, msg, nsig, execd>>

\* A signal other than SIGKILL stops the task before it is delivered.
SignalStop(t, s) ==
    /\ st[t] = "user"
    /\ s # SIGKILL
    /\ nsig < MaxSignals
    /\ st' = [st EXCEPT ![t] = "signal"]
    /\ sig' = [sig EXCEPT ![t] = s]
    /\ nsig' = nsig + 1
    /\ UNCHANGED <<grp, ncall, msg, wstatus, seen, execd>>

\* SIGKILL ends the thread group wherever its tasks are, stopped or not.
Kill(t) ==
    /\ SIGKILL \in Signals
    /\ Alive(t)
    /\ nsig < MaxSignals
    /\ GroupDies(t, [kind |-> "signaled", n |-> SIGKILL])
    /\ nsig' = nsig + 1
    /\ UNCHANGED <<grp, ncall, sig, msg, execd>>

KernelStep ==
    \E t \in Task :
        \/ SyscallEnter(t)
        \/ SyscallExit(t)
        \/ \E u \in Task, g \in Task : Clone(t, u, g)
        \/ CloneStop(t)
        \/ ExecBegin(t)
        \/ ExecEnd(t)
        \/ \E c \in Codes : ThreadExit(t, c) \/ GroupExit(t, c)
        \/ \E s \in Signals : SignalStop(t, s)
        \/ Kill(t)

-----------------------------------------------------------------------------
(* The system calls of the tracer.                                         *)

\* PTRACE_SYSCALL with signal d (0 for none) on a stopped task.
Resumed(t, d) ==
    IF st[t] = "enter" THEN "kernel"
    ELSE IF st[t] \in {"clone", "exec"} THEN "return"
    ELSE IF st[t] = "exit" /\ sig[t] = SIGTRAP THEN "signal"
    ELSE IF st[t] = "signal" /\ d = SIGTSTP THEN "group"
    ELSE "user"

Resume(t, d) ==
    /\ Stopped(t)
    /\ IF st[t] = "signal" /\ d = SIGTERM
       THEN /\ GroupDies(t, [kind |-> "signaled", n |-> d])
            /\ UNCHANGED sig
       ELSE /\ st' = [st EXCEPT ![t] = Resumed(t, d)]
            /\ sig' = [sig EXCEPT ![t] =
                          IF Resumed(t, d) \in {"signal", "group"} THEN @ ELSE 0]
            /\ seen' = seen \ {t}
            /\ UNCHANGED wstatus
    /\ msg' = [msg EXCEPT ![t] = IF st[t] = "clone" THEN t ELSE @]
    /\ UNCHANGED <<grp, ncall, nsig, execd>>

\* The registers of a stopped task: the call it is in, and its result, which
\* is there only once the call has returned (before that rax is -ENOSYS).
OrigRax(t) == ncall[t]
Rax(t) == IF st[t] = "exit" THEN ncall[t] ELSE 0

\* A stop is reported once.  A zombie group leader is not reported while
\* other threads of its group remain.
Waitable(t) ==
    \/ Stopped(t) /\ t \notin seen
    \/ st[t] = "zombie" /\ (t = grp[t] => Mates(t) = {t})

NoChild == \A t \in Task : st[t] \in {"absent", "gone"}

\* Without TRACESYSGOOD a syscall-stop looks like a stop by SIGTRAP.
StatusOf(t) ==
    [pid |-> t,
     kind |-> CASE st[t] \in {"enter", "exit"} ->
                       IF "TRACESYSGOOD" \in Options THEN "syscall" ELSE "stopped"
                [] st[t] \in {"signal", "group"} -> "stopped"
                [] st[t] = "zombie" -> wstatus[t].kind
                [] OTHER -> st[t],
     n |-> CASE st[t] \in {"enter", "exit"} -> SIGTRAP
             [] st[t] \in {"signal", "group"} -> sig[t]
             [] st[t] = "zombie" -> wstatus[t].n
             [] OTHER -> 0]

\* waitpid returns StatusOf(t): the stop is marked reported, the zombie reaped.
Collect(t) ==
    /\ Waitable(t)
    /\ st' = [st EXCEPT ![t] = IF @ = "zombie" THEN "gone" ELSE @]
    /\ seen' = IF Stopped(t) THEN seen \cup {t} ELSE seen
    /\ UNCHANGED <<grp, ncall, sig, msg, wstatus, nsig, execd>>
=============================================================================
