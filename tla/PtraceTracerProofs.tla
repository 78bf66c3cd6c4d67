------------------------- MODULE PtraceTracerProofs -------------------------
(***************************************************************************)
(* Proofs about PtraceTracer, for every set of tasks, any bounds and both  *)
(* values of Follow and Spawned.                                           *)
(*                                                                         *)
(* The inductive invariant has parts.  TypeOK gives the types.  SeenInv    *)
(* ties the stops that waitpid has returned to where next_event is.        *)
(* CallInv ties, for a tid that did not go through a followed execve, what *)
(* the tracer remembers of it (inflight, reported, pending) to where the   *)
(* task really is: that is what makes "the next syscall-stop is an exit    *)
(* iff inflight has an entry" right.  GroupInv is about the cache of       *)
(* groups, LiveInv about the set `live`.  The refinement of TraceStream is *)
(* at the end.                                                             *)
(***************************************************************************)
EXTENDS PtraceStream, TLAPS

SeenInv ==
    /\ \A t \in seen : Stopped(t)
    /\ pending # None => pc = "idle"
    /\ NoStranded
    /\ pc = "handle" => status.kind # "none"
    /\ pc = "handle" /\ status.kind \in {"exited", "signaled"}
          => status.pid \notin seen

InCall == {"kernel", "cloned", "clone", "execing", "return"}

\* What the tracer knows of a task that is at rest, in a call, or at its exit.
AtRest(t) == inflight[t] = 0 /\ reported[t] = ncall[t]
Waiting(t) == inflight[t] = ncall[t] /\ reported[t] = ncall[t] - 1 /\ ncall[t] >= 1

TaskInv(t) ==
    /\ st[t] \in {"absent", "user", "signal", "group"} => AtRest(t)
    /\ st[t] = "absent" => ncall[t] = 0
    /\ st[t] = "enter" => /\ inflight[t] = 0
                          /\ reported[t] = ncall[t] - 1
                          /\ ncall[t] >= 1
    /\ st[t] \in InCall => Waiting(t)
    /\ st[t] = "exit" => IF pending = t THEN AtRest(t) ELSE Waiting(t)
    /\ st[t] # "exec"
    /\ reported[t] \in {ncall[t] - 1, ncall[t]}
    /\ pending = t => st[t] \in {"exit", "zombie", "gone"}

\* The stop in hand is still that of the task, unless the task died or took
\* part in an execve in between.
HandInv ==
    pc = "handle"
        => LET t == status.pid IN
           \/ /\ t \in seen
              /\ status.kind = "syscall" => st[t] \in {"enter", "exit"}
              /\ status.kind = "clone" => st[t] = "clone"
              /\ status.kind = "exec" => st[t] = "exec"
              /\ status.kind = "stopped" => st[t] \in {"signal", "group"}
           \/ st[t] \in {"zombie", "gone"}
           \/ t \in execd

OutInv ==
    out.kind = "syscall" =>
        /\ pc = "idle"
        /\ pending = out.tid
        /\ out.tid \notin execd => /\ out.ret = out.call
                                   /\ out.call = reported[out.tid]

CallInv ==
    /\ \A t \in Task \ execd : TaskInv(t)
    /\ HandInv
    /\ OutInv

IInv == TypeOK /\ SeenInv /\ CallInv
-----------------------------------------------------------------------------
(* Types.                                                                  *)

\* There is a task to name in an empty status or event.
LEMMA AnyTaskType == AnyTask \in Task
BY KernelAssumption DEF AnyTask

\* PTRACE_SYSCALL takes a stopped task to one of the states it may be in.
LEMMA ResumedType ==
    ASSUME NEW t, NEW d
    PROVE  Resumed(t, d) \in {"kernel", "signal", "user", "return", "group"}
BY DEF Resumed

\* What the death of a thread group leaves well typed.
LEMMA GroupDiesType ==
    ASSUME TypeOK, NEW t \in Task, NEW w \in ExitStatus, GroupDies(t, w)
    PROVE  /\ st' \in [Task -> StopStates \cup DeadStates \cup RunStates]
           /\ wstatus' \in [Task -> ExitStatus]
           /\ seen' \subseteq Task
BY DEF TypeOK, KernelTypeOK, GroupDies, DeadStates

\* PTRACE_SYSCALL, a fatal signal included, preserves the types.
LEMMA ResumeType ==
    ASSUME TypeOK, NEW t \in Task, NEW d \in Nat, Resume(t, d)
    PROVE  KernelTypeOK'
<1>1. msg' \in [Task -> Task]
  BY DEF Resume, TypeOK, KernelTypeOK
<1>2. UNCHANGED <<grp, ncall, nsig, execd>>
  BY DEF Resume
<1>3. CASE st[t] = "signal" /\ d = SIGTERM
  <2>1. [kind |-> "signaled", n |-> d] \in ExitStatus
    BY DEF ExitStatus
  <2>2. GroupDies(t, [kind |-> "signaled", n |-> d]) /\ UNCHANGED sig
    BY <1>3 DEF Resume
  <2> QED
    BY <1>1, <1>2, <2>1, <2>2, GroupDiesType DEF TypeOK, KernelTypeOK
<1>4. CASE ~(st[t] = "signal" /\ d = SIGTERM)
  <2>1. /\ st' = [st EXCEPT ![t] = Resumed(t, d)]
        /\ sig' \in {[sig EXCEPT ![t] = 0], sig}
        /\ seen' = seen \ {t}
        /\ wstatus' = wstatus
    BY <1>4 DEF Resume, TypeOK, KernelTypeOK
  <2>2. st' \in [Task -> StopStates \cup DeadStates \cup RunStates]
    BY <2>1, ResumedType DEF TypeOK, KernelTypeOK, StopStates, RunStates
  <2> QED
    BY <1>1, <1>2, <2>1, <2>2 DEF TypeOK, KernelTypeOK
<1> QED
  BY <1>3, <1>4

\* waitpid preserves the types.
LEMMA CollectType ==
    ASSUME TypeOK, NEW t \in Task, Collect(t)
    PROVE  KernelTypeOK'
BY DEF Collect, TypeOK, KernelTypeOK, DeadStates

\* waitpid reports the task it was asked about, and an exit exactly for a
\* zombie.
LEMMA StatusType ==
    ASSUME TypeOK, NEW t \in Task, Waitable(t)
    PROVE  /\ StatusOf(t) \in WaitStatus
           /\ StatusOf(t).pid = t
           /\ StatusOf(t).kind # "none"
           /\ StatusOf(t).kind \in {"exited", "signaled"} <=> st[t] = "zombie"
<1>1. /\ wstatus[t].kind \in {"exited", "signaled"} /\ wstatus[t].n \in Nat
      /\ sig[t] \in Nat
  BY DEF TypeOK, KernelTypeOK, ExitStatus
<1>2. st[t] \in StopStates \cup {"zombie"}
  BY DEF Waitable, Stopped
<1> QED
  BY <1>1, <1>2 DEF StatusOf, Options, SIGTRAP, WaitStatus, StopStates

\* tgid_of answers with a task id whatever /proc says.
LEMMA TgidType ==
    ASSUME TypeOK, NEW t \in Task
    PROVE  TgidOf(t) \in Task
BY DEF TypeOK, KernelTypeOK, TgidOf, ReadTgid

\* What the tasks do on their own preserves the types.
LEMMA KernelStepType ==
    ASSUME TypeOK, KernelStep
    PROVE  KernelTypeOK'
<1> USE DEF TypeOK, KernelTypeOK
<1>1. PICK t \in Task :
        \/ SyscallEnter(t)
        \/ SyscallExit(t)
        \/ \E u \in Task, g \in Task : Clone(t, u, g)
        \/ CloneStop(t)
        \/ ExecBegin(t)
        \/ ExecEnd(t)
        \/ \E c \in Codes : ThreadExit(t, c) \/ GroupExit(t, c)
        \/ \E s \in Signals : SignalStop(t, s)
        \/ Kill(t)
  BY DEF KernelStep
<1>2. CASE SyscallEnter(t)
  BY <1>2 DEF SyscallEnter, StopStates
<1>3. CASE SyscallExit(t)
  BY <1>3 DEF SyscallExit, StopStates
<1>4. CASE \E u \in Task, g \in Task : Clone(t, u, g)
  BY <1>4 DEF Clone, StopStates, RunStates, SIGSTOP
<1>5. CASE CloneStop(t)
  BY <1>5 DEF CloneStop, StopStates
<1>6. CASE ExecBegin(t)
  BY <1>6 DEF ExecBegin, DeadStates, RunStates, ExitStatus
<1>7. CASE ExecEnd(t)
  <2>1. grp[t] \in Task
    BY <1>7
  <2>2. CASE "TRACEEXEC" \in Options
    BY <1>7, <2>1, <2>2 DEF ExecEnd, DeadStates, StopStates
  <2>3. CASE "TRACEEXEC" \notin Options
    BY <1>7, <2>3 DEF ExecEnd, StopStates, SIGTRAP
  <2> QED
    BY <2>2, <2>3
<1>8. CASE \E c \in Codes : ThreadExit(t, c) \/ GroupExit(t, c)
  <2>1. PICK c \in Codes : ThreadExit(t, c) \/ GroupExit(t, c)
    BY <1>8
  <2>2. c \in Nat /\ [kind |-> "exited", n |-> c] \in ExitStatus
    BY KernelAssumption DEF ExitStatus
  <2>3. CASE ThreadExit(t, c)
    BY <2>2, <2>3 DEF ThreadExit, DeadStates
  <2>4. CASE GroupExit(t, c)
    BY <2>2, <2>4, GroupDiesType DEF GroupExit
  <2> QED
    BY <2>1, <2>3, <2>4
<1>9. CASE \E s \in Signals : SignalStop(t, s)
  BY <1>9, KernelAssumption DEF SignalStop, StopStates
<1>10. CASE Kill(t)
  <2>1. [kind |-> "signaled", n |-> SIGKILL] \in ExitStatus
    BY DEF ExitStatus, SIGKILL
  <2>2. GroupDies(t, [kind |-> "signaled", n |-> SIGKILL])
        /\ nsig < MaxSignals /\ nsig' = nsig + 1
        /\ UNCHANGED <<grp, ncall, sig, msg, execd>>
    BY <1>10 DEF Kill
  <2> QED
    BY <2>1, <2>2, GroupDiesType, KernelAssumption
<1> QED
  BY <1>1, <1>2, <1>3, <1>4, <1>5, <1>6, <1>7, <1>8, <1>9, <1>10

\* The empty status and the empty event are well typed.
LEMMA NoneTypes == NoStatus \in WaitStatus /\ NoEvent \in Event
BY AnyTaskType DEF NoStatus, NoEvent, WaitStatus, Event

\* Every step of next_event and of the handlers preserves the types.
LEMMA TracerStepType ==
    ASSUME TypeOK, TracerStep
    PROVE  TypeOK'
<1> USE DEF TypeOK
<1>1. CASE NextEvent
  <2>1. KernelTypeOK'
    <3>1. CASE Resume(pending, 0) /\ pending # None
      BY <3>1, ResumeType
    <3>2. CASE UNCHANGED kvars
      BY <3>2 DEF kvars, KernelTypeOK
    <3> QED
      BY <1>1, <3>1, <3>2 DEF NextEvent
  <2> QED
    BY <1>1, <2>1, NoneTypes DEF NextEvent
<1>2. CASE ReturnNone
  BY <1>2 DEF ReturnNone, kvars, KernelTypeOK
<1>3. ASSUME NEW t \in Task, WaitPid(t)
      PROVE  TypeOK'
  <2>1. KernelTypeOK' /\ StatusOf(t) \in WaitStatus
    BY <1>3, CollectType, StatusType DEF WaitPid, Collect
  <2> QED
    BY <1>3, <2>1 DEF WaitPid
<1>4. CASE HandleEsrch
  BY <1>4 DEF HandleEsrch, Fail, kvars, KernelTypeOK
<1>5. status.pid \in Task /\ status.n \in Nat /\ TgidOf(status.pid) \in Task
  BY TgidType DEF WaitStatus
<1>6. CASE SyscallStopExit
  <2> DEFINE t == status.pid
             e == [kind |-> "syscall", pid |-> TgidOf(t), tid |-> t,
                   call |-> inflight[t], ret |-> Rax(t), n |-> 0]
  <2>1. Rax(t) \in Nat
    BY <1>5 DEF Rax, KernelTypeOK
  <2>2. e \in Event
    BY <1>5, <2>1 DEF Event
  <2>3. KernelTypeOK'
    BY <1>6 DEF SyscallStopExit, Defer, kvars, KernelTypeOK
  <2>4. /\ inflight' = InflightRemove(t) /\ pending' = t
        /\ tgid' = [tgid EXCEPT ![t] = TgidOf(t)]
        /\ reported' = [reported EXCEPT ![t] = @ + 1]
        /\ last' = [last EXCEPT ![t] = inflight[t]]
        /\ pc' = "idle" /\ out' = e /\ UNCHANGED <<live, status, told>>
    BY <1>6 DEF SyscallStopExit, Defer, Return
  <2> HIDE DEF e
  <2> QED
    BY <1>5, <2>2, <2>3, <2>4 DEF InflightRemove
<1>7. CASE SyscallStopEnter
  <2>1. KernelTypeOK'
    BY <1>5, <1>7, ResumeType DEF SyscallStopEnter
  <2> QED
    BY <1>5, <1>7, <2>1 DEF SyscallStopEnter, Again, OrigRax, KernelTypeOK
<1>8. CASE HandleCloneEvent
  <2>1. KernelTypeOK'
    BY <1>5, <1>8, ResumeType DEF HandleCloneEvent
  <2> QED
    BY <1>5, <1>8, <2>1 DEF HandleCloneEvent, Again, KernelTypeOK
<1>9. CASE HandleExecEvent
  <2>1. KernelTypeOK'
    BY <1>5, <1>9, ResumeType DEF HandleExecEvent
  <2> QED
    BY <1>5, <1>9, <2>1 DEF HandleExecEvent, Again, InflightRemove
<1>10. CASE HandleStopped
  <2> DEFINE t == status.pid
             e == [kind |-> "signal", pid |-> TgidOf(t), tid |-> t,
                   call |-> 0, ret |-> 0, n |-> status.n]
  <2>1. KernelTypeOK'
    BY <1>5, <1>10, ResumeType DEF HandleStopped
  <2>2. e \in Event
    BY <1>5 DEF Event
  <2>3. \/ pc' = "loop" /\ out' = out /\ tgid' = tgid
        \/ pc' = "idle" /\ out' = e /\ tgid' = [tgid EXCEPT ![t] = TgidOf(t)]
    BY <1>10 DEF HandleStopped, Again, Return
  <2>4. UNCHANGED <<live, inflight, pending, status, reported, last, told>>
    BY <1>10 DEF HandleStopped
  <2> HIDE DEF e
  <2> QED
    BY <1>5, <2>1, <2>2, <2>3, <2>4
<1>11. CASE HandleExit
  <2> DEFINE t == status.pid
             e == [kind |-> "exit", pid |-> TgidOf(t), tid |-> t,
                   call |-> 0, ret |-> 0,
                   n |-> IF status.kind = "exited" THEN status.n
                         ELSE 128 + status.n]
  <2>1. KernelTypeOK'
    BY <1>11 DEF HandleExit, kvars, KernelTypeOK
  <2>2. e \in Event
    BY <1>5 DEF Event
  <2>3. /\ pc' = "idle" /\ out' = e /\ live' = live \ {t}
        /\ inflight' = InflightRemove(t) /\ tgid' = [tgid EXCEPT ![t] = None]
        /\ UNCHANGED <<pending, status, reported, last, told>>
    BY <1>11 DEF HandleExit, Return
  <2> HIDE DEF e
  <2> QED
    BY <1>5, <2>1, <2>2, <2>3 DEF InflightRemove
<1> QED
  BY <1>1, <1>2, <1>3, <1>4, <1>6, <1>7, <1>8, <1>9, <1>10, <1>11
     DEF TracerStep, Handle

\* TypeOK is inductive: its step ...
LEMMA NextType ==
    ASSUME TypeOK, [Next]_vars
    PROVE  TypeOK'
<1>1. CASE TaskStep
  BY <1>1, KernelStepType DEF TaskStep, tvars, TypeOK
<1>2. CASE UNCHANGED vars
  BY <1>2 DEF vars, kvars, tvars, TypeOK, KernelTypeOK
<1> QED
  BY <1>1, <1>2, TracerStepType DEF Next, Stutter

\* ... and its start.
LEMMA InitType == Init => TypeOK
BY KernelAssumption, TracerAssumption, NoneTypes
   DEF Init, KernelInit, TracerInit, TypeOK, KernelTypeOK, ExitStatus,
       DeadStates, RunStates

\* Type correctness of the ptrace backend and of the tasks it drives.
THEOREM TypeCorrect == Spec => []TypeOK
<1>1. Init => TypeOK
  BY InitType
<1>2. TypeOK /\ [Next]_vars => TypeOK'
  BY NextType
<1> QED
  BY <1>1, <1>2, PTL DEF Spec

-----------------------------------------------------------------------------
(* Stops and who holds them.                                               *)

\* What the steps of the tasks may do to a stop that waitpid has returned: they
\* leave it alone or kill its task; and the dead stay dead, but for execve.
KernelMoves ==
    /\ seen' \subseteq seen
    /\ \A t \in seen' : st'[t] = st[t]
    /\ \A t \in seen \ seen' : st'[t] = "zombie"
    /\ \A t \in Task : st[t] \in {"zombie", "gone"}
          => st'[t] \in {"zombie", "gone"} \/ t \in execd'
    /\ execd \subseteq execd'

\* The death of a thread group takes its members out of `seen` and out of
\* their stops.
LEMMA GroupDiesMoves ==
    ASSUME TypeOK, NEW t \in Task, NEW w, GroupDies(t, w), execd' = execd
    PROVE  KernelMoves
BY DEF TypeOK, KernelTypeOK, GroupDies, KernelMoves, Mates

\* What the tasks do on their own: no stop that waitpid has returned appears
\* or is left, but by the death of its task.
LEMMA KernelStepMoves ==
    ASSUME TypeOK, \A t \in seen : Stopped(t), KernelStep
    PROVE  KernelMoves
<1> USE DEF TypeOK, KernelTypeOK, Stopped, StopStates
<1>1. PICK t \in Task :
        \/ SyscallEnter(t)
        \/ SyscallExit(t)
        \/ \E u \in Task, g \in Task : Clone(t, u, g)
        \/ CloneStop(t)
        \/ ExecBegin(t)
        \/ ExecEnd(t)
        \/ \E c \in Codes : ThreadExit(t, c) \/ GroupExit(t, c)
        \/ \E s \in Signals : SignalStop(t, s)
        \/ Kill(t)
  BY DEF KernelStep
<1>2. CASE SyscallEnter(t)
  BY <1>2 DEF SyscallEnter, KernelMoves
<1>3. CASE SyscallExit(t)
  BY <1>3 DEF SyscallExit, KernelMoves
<1>4. CASE \E u \in Task, g \in Task : Clone(t, u, g)
  BY <1>4 DEF Clone, KernelMoves
<1>5. CASE CloneStop(t)
  BY <1>5 DEF CloneStop, KernelMoves
<1>6. CASE ExecBegin(t)
  BY <1>6 DEF ExecBegin, KernelMoves, Mates
<1>7. CASE ExecEnd(t)
  BY <1>7 DEF ExecEnd, KernelMoves
<1>8. CASE \E c \in Codes : ThreadExit(t, c) \/ GroupExit(t, c)
  <2>1. CASE \E c \in Codes : ThreadExit(t, c)
    BY <2>1 DEF ThreadExit, KernelMoves
  <2>2. CASE \E c \in Codes : GroupExit(t, c)
    BY <2>2, GroupDiesMoves DEF GroupExit
  <2> QED
    BY <1>8, <2>1, <2>2
<1>9. CASE \E s \in Signals : SignalStop(t, s)
  BY <1>9 DEF SignalStop, KernelMoves
<1>10. CASE Kill(t)
  BY <1>10, GroupDiesMoves DEF Kill
<1> QED
  BY <1>1, <1>2, <1>3, <1>4, <1>5, <1>6, <1>7, <1>8, <1>9, <1>10

\* A resumed task is no longer at a collected stop; no other stop is touched
\* except by death.
LEMMA ResumeSeen ==
    ASSUME TypeOK, NEW t \in Task, NEW d, Resume(t, d)
    PROVE  /\ seen' \subseteq seen \ {t}
           /\ \A u \in seen' : st'[u] = st[u]
           /\ execd' = execd
<1>1. CASE st[t] = "signal" /\ d = SIGTERM
  BY <1>1 DEF TypeOK, KernelTypeOK, Resume, GroupDies, Mates
<1>2. CASE ~(st[t] = "signal" /\ d = SIGTERM)
  BY <1>2 DEF TypeOK, KernelTypeOK, Resume
<1> QED
  BY <1>1, <1>2

\* Every step keeps account of the stops that waitpid has returned.
LEMMA SeenStep ==
    ASSUME TypeOK, SeenInv, [Next]_vars
    PROVE  SeenInv'
<1> USE DEF SeenInv, NoStranded, Final
<1>0. pending # None => pending \in Task
  BY DEF TypeOK
<1>1. CASE NextEvent
  <2>1. CASE pending # None /\ Stopped(pending)
    <3>1. Resume(pending, 0) /\ pc' = "loop" /\ pending' = None
      BY <1>1, <2>1 DEF NextEvent
    <3>2. seen' = {}
      BY <1>0, <1>1, <2>1, <3>1, ResumeSeen DEF NextEvent
    <3> QED
      BY <3>1, <3>2 
  <2>2. CASE pending # None /\ ~Stopped(pending)
    BY <1>1, <2>2 DEF NextEvent, kvars, Stopped
  <2>3. CASE pending = None
    BY <1>1, <2>3, TracerAssumption DEF NextEvent, kvars, Stopped, TypeOK, KernelTypeOK
  <2> QED
    BY <2>1, <2>2, <2>3
<1>2. CASE ReturnNone
  BY <1>2 DEF ReturnNone, kvars, Stopped
<1>3. ASSUME NEW t \in Task, WaitPid(t)
      PROVE  SeenInv'
  <2>1. seen = {} /\ pending = None
    BY <1>3 DEF WaitPid
  <2>2. /\ StatusOf(t).pid = t /\ StatusOf(t).kind # "none"
        /\ StatusOf(t).kind \in {"exited", "signaled"} <=> st[t] = "zombie"
    BY <1>3, StatusType DEF WaitPid, Collect
  <2>3. CASE Stopped(t)
    BY <1>3, <2>1, <2>2, <2>3
    DEF WaitPid, Collect, Stopped, StopStates, TypeOK, KernelTypeOK
  <2>4. CASE ~Stopped(t)
    BY <1>3, <2>1, <2>2, <2>4
    DEF WaitPid, Collect, Stopped, StopStates, TypeOK, KernelTypeOK
  <2> QED
    BY <2>3, <2>4
<1>4. CASE HandleEsrch
  BY <1>4 DEF HandleEsrch, Fail, kvars, Stopped
<1>5. status.pid \in Task
  BY DEF TypeOK, WaitStatus
<1>6. CASE SyscallStopExit
  BY <1>5, <1>6 DEF SyscallStopExit, Defer, Return, kvars, Stopped
<1>7. ASSUME NEW d, Resume(status.pid, d), pc = "handle", pc' \in {"loop", "idle"},
             pending' = pending
      PROVE  SeenInv'
  <2>1. seen' = {}
    BY <1>5, <1>7, ResumeSeen
  <2> QED
    BY <1>7, <2>1
<1>8. CASE SyscallStopEnter
  BY <1>7, <1>8 DEF SyscallStopEnter, Again
<1>9. CASE HandleCloneEvent
  BY <1>7, <1>9 DEF HandleCloneEvent, Again
<1>10. CASE HandleExecEvent
  BY <1>7, <1>10 DEF HandleExecEvent, Again
<1>11. CASE HandleStopped
  BY <1>7, <1>11 DEF HandleStopped, Again, Return
<1>12. CASE HandleExit
  BY <1>12 DEF HandleExit, Return, kvars, Stopped
<1>13. CASE TaskStep
  <2>1. KernelMoves
    BY <1>13, KernelStepMoves DEF TaskStep
  <2> QED
    BY <1>13, <2>1 DEF TaskStep, tvars, KernelMoves, Stopped
<1>14. CASE UNCHANGED vars
  BY <1>14 DEF vars, kvars, tvars, Stopped
<1> QED
  BY <1>1, <1>2, <1>3, <1>4, <1>6, <1>8, <1>9, <1>10, <1>11, <1>12, <1>13, <1>14
     DEF Next, TracerStep, Handle, Stutter

\* No tracee is left stopped and forgotten.
THEOREM NothingStranded == Spec => []NoStranded
<1>1. Init => SeenInv
  BY DEF Init, KernelInit, TracerInit, SeenInv, NoStranded
<1>2. TypeOK /\ SeenInv /\ [Next]_vars => SeenInv'
  BY SeenStep
<1>3. SeenInv => NoStranded
  BY DEF SeenInv
<1> QED
  BY <1>1, <1>2, <1>3, TypeCorrect, PTL DEF Spec

-----------------------------------------------------------------------------
(* Calls and their reports.                                                *)

\* TaskInv of a task that a step of the tasks leaves where it is, or kills.
LEMMA TaskInvKept ==
    ASSUME NEW x \in Task, TaskInv(x), UNCHANGED tvars, ncall'[x] = ncall[x],
           st'[x] = st[x] \/ st'[x] \in {"zombie", "gone"}
    PROVE  TaskInv(x)'
BY DEF TaskInv, AtRest, Waiting, InCall, tvars

\* The death of a thread group keeps the call accounting of every task.
LEMMA GroupDiesTasks ==
    ASSUME TypeOK, NEW t \in Task, NEW w, GroupDies(t, w), UNCHANGED tvars,
           ncall' = ncall, execd' = execd, \A x \in Task \ execd : TaskInv(x)
    PROVE  \A x \in Task \ execd' : TaskInv(x)'
<1>1. ASSUME NEW x \in Task
      PROVE  st'[x] = st[x] \/ st'[x] \in {"zombie", "gone"}
  BY DEF TypeOK, KernelTypeOK, GroupDies
<1> QED
  BY <1>1, TaskInvKept

\* So does everything else that the tasks do on their own.
LEMMA KernelStepTasks ==
    ASSUME TypeOK, KernelStep, UNCHANGED tvars, \A x \in Task \ execd : TaskInv(x)
    PROVE  \A x \in Task \ execd' : TaskInv(x)'
<1> USE DEF TypeOK, KernelTypeOK
<1>1. PICK t \in Task :
        \/ SyscallEnter(t)
        \/ SyscallExit(t)
        \/ \E u \in Task, g \in Task : Clone(t, u, g)
        \/ CloneStop(t)
        \/ ExecBegin(t)
        \/ ExecEnd(t)
        \/ \E c \in Codes : ThreadExit(t, c) \/ GroupExit(t, c)
        \/ \E s \in Signals : SignalStop(t, s)
        \/ Kill(t)
  BY DEF KernelStep
<1>2. CASE SyscallEnter(t)
  BY <1>2 DEF SyscallEnter, TaskInv, AtRest, Waiting, InCall, tvars
<1>3. CASE SyscallExit(t)
  BY <1>3 DEF SyscallExit, TaskInv, AtRest, Waiting, InCall, tvars
<1>4. CASE \E u \in Task, g \in Task : Clone(t, u, g)
  BY <1>4 DEF Clone, TaskInv, AtRest, Waiting, InCall, tvars
<1>5. CASE CloneStop(t)
  BY <1>5 DEF CloneStop, TaskInv, AtRest, Waiting, InCall, tvars
<1>6. CASE ExecBegin(t)
  BY <1>6 DEF ExecBegin, TaskInv, AtRest, Waiting, InCall, tvars
<1>7. CASE ExecEnd(t)
  <2>1. CASE Follow
    <3>1. ASSUME NEW x \in Task \ execd'
          PROVE  x \notin execd /\ st'[x] = st[x] /\ ncall'[x] = ncall[x]
      BY <1>7, <2>1 DEF ExecEnd, Options
    <3> QED
      BY <3>1, TaskInvKept
  <2>2. CASE ~Follow
    BY <1>7, <2>2 DEF ExecEnd, Options, TaskInv, AtRest, Waiting, InCall, tvars
  <2> QED
    BY <2>1, <2>2
<1>8. CASE \E c \in Codes : ThreadExit(t, c) \/ GroupExit(t, c)
  <2>1. CASE \E c \in Codes : ThreadExit(t, c)
    BY <2>1 DEF ThreadExit, TaskInv, AtRest, Waiting, InCall, tvars
  <2>2. CASE \E c \in Codes : GroupExit(t, c)
    BY <2>2, GroupDiesTasks DEF GroupExit
  <2> QED
    BY <1>8, <2>1, <2>2
<1>9. CASE \E s \in Signals : SignalStop(t, s)
  BY <1>9 DEF SignalStop, TaskInv, AtRest, Waiting, InCall, tvars
<1>10. CASE Kill(t)
  BY <1>10, GroupDiesTasks DEF Kill
<1> QED
  BY <1>1, <1>2, <1>3, <1>4, <1>5, <1>6, <1>7, <1>8, <1>9, <1>10

\* Where PTRACE_SYSCALL takes a task from each kind of stop.
LEMMA ResumeTask ==
    ASSUME TypeOK, NEW t \in Task, NEW d, Resume(t, d)
    PROVE  /\ ncall' = ncall /\ execd' = execd
           /\ \A x \in Task \ {t} : st'[x] = st[x] \/ st'[x] = "zombie"
           /\ st[t] = "enter" => st'[t] = "kernel"
           /\ st[t] \in {"clone", "exec"} => st'[t] = "return"
           /\ st[t] = "exit" => st'[t] \in {"signal", "user"}
           /\ st[t] \in {"signal", "group"}
                 => st'[t] \in {"user", "group", "zombie"}
<1>1. CASE st[t] = "signal" /\ d = SIGTERM
  BY <1>1 DEF Resume, GroupDies, Mates, TypeOK, KernelTypeOK
<1>2. CASE ~(st[t] = "signal" /\ d = SIGTERM)
  <2>1. /\ st' = [st EXCEPT ![t] = Resumed(t, d)]
        /\ UNCHANGED <<ncall, execd>>
    BY <1>2 DEF Resume
  <2>2. /\ st[t] = "enter" => Resumed(t, d) = "kernel"
        /\ st[t] \in {"clone", "exec"} => Resumed(t, d) = "return"
        /\ st[t] = "exit" => Resumed(t, d) \in {"signal", "user"}
        /\ st[t] \in {"signal", "group"} => Resumed(t, d) \in {"user", "group"}
    BY DEF Resumed
  <2> QED
    BY <2>1, <2>2 DEF TypeOK, KernelTypeOK
<1> QED
  BY <1>1, <1>2

\* The stop waitpid returns agrees with where the task is.
LEMMA StatusMatches ==
    ASSUME NEW t \in Task, Stopped(t)
    PROVE  /\ StatusOf(t).kind = "syscall" => st[t] \in {"enter", "exit"}
           /\ StatusOf(t).kind = "clone" => st[t] = "clone"
           /\ StatusOf(t).kind = "exec" => st[t] = "exec"
           /\ StatusOf(t).kind = "stopped" => st[t] \in {"signal", "group"}
BY DEF StatusOf, Options, Stopped, StopStates

\* A handler that resumes the task in hand, t, preserves CallInv if it leaves
\* the other tasks alone and TaskInv(t) holds after it.
LEMMA HandlerStep ==
    ASSUME TypeOK, CallInv, NEW t \in Task, NEW d, Resume(t, d),
           pending' = pending, reported' = reported,
           \A x \in Task \ {t} : inflight'[x] = inflight[x],
           pc = "handle", pc' # "handle", out'.kind # "syscall",
           t \in execd \/ TaskInv(t)'
    PROVE  CallInv'
<1>1. HandInv' /\ OutInv'
  BY DEF HandInv, OutInv
<1>2. ASSUME NEW x \in Task \ execd', x # t
      PROVE  TaskInv(x)'
  <2>1. /\ x \notin execd /\ ncall'[x] = ncall[x]
        /\ st'[x] = st[x] \/ st'[x] = "zombie"
    BY <1>2, ResumeTask
  <2>2. TaskInv(x)
    BY <2>1 DEF CallInv
  <2> QED
    BY <1>2, <2>1, <2>2 DEF TaskInv, AtRest, Waiting, InCall
<1> QED
  BY <1>1, <1>2, ResumeTask DEF CallInv

\* The task in hand, if its call history matters, is where its status says.
LEMMA InHand ==
    ASSUME SeenInv, CallInv, pc = "handle", Stopped(status.pid),
           status.pid \in Task,
           status.pid \notin execd
    PROVE  /\ TaskInv(status.pid)
           /\ pending # status.pid
           /\ status.kind = "syscall" => st[status.pid] \in {"enter", "exit"}
           /\ status.kind = "clone" => st[status.pid] = "clone"
           /\ status.kind # "exec"
           /\ status.kind = "stopped" => st[status.pid] \in {"signal", "group"}
<1>1. TaskInv(status.pid)
  BY DEF CallInv
<1>2. pending # status.pid
  BY TracerAssumption DEF SeenInv
<1> QED
  BY <1>1, <1>2 DEF CallInv, HandInv, Stopped, StopStates, TaskInv

\* Every step keeps the agreement between inflight, reported and the calls the
\* tasks are really in.
LEMMA CallStep ==
    ASSUME TypeOK, SeenInv, CallInv, [Next]_vars
    PROVE  CallInv'
<1> USE DEF TaskInv, AtRest, Waiting, InCall
<1>0. PICK t \in Task : t = status.pid
  BY DEF TypeOK, WaitStatus
<1>1. CASE NextEvent
  <2>1. HandInv' /\ OutInv'
    BY <1>1 DEF NextEvent, HandInv, OutInv, NoEvent
  <2>2. \A x \in Task \ execd' : TaskInv(x)'
    <3>1. CASE pending # None /\ Stopped(pending)
      <4>1. /\ pending \in Task /\ Resume(pending, 0) /\ pending' = None
            /\ UNCHANGED <<inflight, reported>>
        BY <1>1, <3>1 DEF NextEvent, TypeOK
      <4>2. ASSUME NEW x \in Task \ execd'
            PROVE  TaskInv(x)'
        <5>1. /\ x \notin execd /\ ncall'[x] = ncall[x]
              /\ x # pending => st'[x] = st[x] \/ st'[x] = "zombie"
              /\ st[pending] = "exit" => st'[pending] \in {"signal", "user"}
          BY <4>1, <4>2, ResumeTask
        <5>2. TaskInv(x)
          BY <5>1 DEF CallInv
        <5>3. CASE x = pending
          <6>1. st[x] = "exit"
            BY <3>1, <5>2, <5>3 DEF Stopped, StopStates
          <6> QED
            BY <4>1, <5>1, <5>2, <5>3, <6>1, TracerAssumption
        <5>4. CASE x # pending
          BY <4>1, <5>1, <5>2, <5>4, TracerAssumption
        <5> QED
          BY <5>3, <5>4
      <4> QED
        BY <4>2
    <3>2. CASE ~(pending # None /\ Stopped(pending))
      <4>1. UNCHANGED <<kvars, inflight, reported>> /\ pending' = None
        BY <1>1, <3>2 DEF NextEvent
      <4>2. ASSUME NEW x \in Task \ execd'
            PROVE  TaskInv(x)'
        <5>1. TaskInv(x)
          BY <4>1, <4>2 DEF CallInv, kvars
        <5>2. x = pending => st[x] # "exit"
          BY <3>2, TracerAssumption DEF Stopped, StopStates
        <5> QED
          BY <4>1, <5>1, <5>2, TracerAssumption DEF kvars
      <4> QED
        BY <4>2
    <3> QED
      BY <3>1, <3>2
  <2> QED
    BY <2>1, <2>2 DEF CallInv
<1>2. CASE ReturnNone
  BY <1>2 DEF ReturnNone, kvars, CallInv, HandInv, OutInv
<1>3. ASSUME NEW p \in Task, WaitPid(p)
      PROVE  CallInv'
  <2>1. \A x \in Task \ execd' : TaskInv(x)'
    BY <1>3 DEF WaitPid, Collect, CallInv, TypeOK, KernelTypeOK
  <2>2. OutInv'
    BY <1>3 DEF WaitPid, CallInv, OutInv
  <2>3. HandInv'
    <3>1. CASE Stopped(p)
      <4>1. /\ status' = StatusOf(p) /\ StatusOf(p).pid = p
            /\ p \in seen' /\ st'[p] = st[p]
        BY <1>3, <3>1, StatusType
           DEF WaitPid, Collect, TypeOK, KernelTypeOK, Stopped, StopStates
      <4> QED
        BY <3>1, <4>1, StatusMatches DEF HandInv
    <3>2. CASE ~Stopped(p)
      <4>1. status' = StatusOf(p) /\ StatusOf(p).pid = p /\ st'[p] = "gone"
        BY <1>3, <3>2, StatusType
           DEF WaitPid, Collect, Waitable, TypeOK, KernelTypeOK
      <4> QED
        BY <4>1 DEF HandInv
    <3> QED
      BY <3>1, <3>2
  <2> QED
    BY <2>1, <2>2, <2>3 DEF CallInv
<1>4. CASE HandleEsrch
  BY <1>4 DEF HandleEsrch, Fail, kvars, CallInv, HandInv, OutInv
<1>5. CASE SyscallStopExit
  <2>1. /\ pc = "handle" /\ status.kind = "syscall" /\ Stopped(t)
        /\ inflight[t] # 0 /\ inflight' = InflightRemove(t) /\ pending' = t
        /\ reported' = [reported EXCEPT ![t] = @ + 1] /\ pc' = "idle"
        /\ out'.tid = t /\ out'.call = inflight[t] /\ out'.ret = Rax(t)
        /\ UNCHANGED kvars
    BY <1>0, <1>5 DEF SyscallStopExit, Defer, Return
  <2>2. t \notin execd => st[t] = "exit" /\ inflight[t] = ncall[t]
                          /\ reported[t] = ncall[t] - 1 /\ Rax(t) = ncall[t]
    BY <1>0, <2>1, InHand DEF Rax
  <2>3. pending = None
    BY <2>1 DEF SeenInv
  <2>4. HandInv' /\ OutInv'
    BY <1>0, <2>1, <2>2 DEF HandInv, OutInv, kvars, TypeOK, KernelTypeOK
  <2>5. \A x \in Task \ execd' : TaskInv(x)'
    BY <1>0, <2>1, <2>2, <2>3, TracerAssumption
       DEF CallInv, InflightRemove, kvars, TypeOK, KernelTypeOK
  <2> QED
    BY <2>4, <2>5 DEF CallInv
<1>6. CASE SyscallStopEnter
  <2>1. /\ pc = "handle" /\ status.kind = "syscall" /\ inflight[t] = 0
        /\ inflight' = [inflight EXCEPT ![t] = ncall[t]] /\ Resume(t, 0)
        /\ pc' = "loop" /\ out' = out /\ UNCHANGED <<pending, reported>>
    BY <1>0, <1>6 DEF SyscallStopEnter, Again, OrigRax
  <2>2. Stopped(t) /\ out.kind # "syscall"
    BY <2>1 DEF Resume, CallInv, OutInv
  <2>3. t \in execd \/ TaskInv(t)'
    BY <1>0, <2>1, <2>2, InHand, ResumeTask DEF TypeOK, KernelTypeOK
  <2>4. \A x \in Task \ {t} : inflight'[x] = inflight[x]
    BY <2>1 DEF TypeOK
  <2> QED
    BY <1>0, <2>1, <2>2, <2>3, <2>4, HandlerStep
<1>7. CASE HandleCloneEvent
  <2>1. /\ pc = "handle" /\ status.kind = "clone" /\ Resume(t, 0)
        /\ pc' = "loop" /\ out' = out /\ UNCHANGED <<inflight, pending, reported>>
    BY <1>0, <1>7 DEF HandleCloneEvent, Again
  <2>2. Stopped(t) /\ out.kind # "syscall"
    BY <2>1 DEF Resume, CallInv, OutInv
  <2>3. t \in execd \/ TaskInv(t)'
    BY <1>0, <2>1, <2>2, InHand, ResumeTask
  <2> QED
    BY <1>0, <2>1, <2>2, <2>3, HandlerStep
<1>8. CASE HandleExecEvent
  <2>1. /\ pc = "handle" /\ status.kind = "exec" /\ Resume(t, 0)
        /\ inflight' = InflightRemove(t)
        /\ pc' = "loop" /\ out' = out /\ UNCHANGED <<pending, reported>>
    BY <1>0, <1>8 DEF HandleExecEvent, Again
  <2>2. Stopped(t) /\ out.kind # "syscall"
    BY <2>1 DEF Resume, CallInv, OutInv
  <2>3. t \in execd
    BY <1>0, <2>1, <2>2, InHand
  <2>4. \A x \in Task \ {t} : inflight'[x] = inflight[x]
    BY <2>1 DEF InflightRemove, TypeOK
  <2> QED
    BY <1>0, <2>1, <2>2, <2>3, <2>4, HandlerStep
<1>9. CASE HandleStopped
  <2>1. /\ pc = "handle" /\ status.kind = "stopped"
        /\ \E d : Resume(t, d)
        /\ pc' # "handle" /\ (out' = out \/ out'.kind = "signal")
        /\ UNCHANGED <<inflight, pending, reported>>
    BY <1>0, <1>9 DEF HandleStopped, Again, Return
  <2>2. PICK d : Resume(t, d)
    BY <2>1
  <2>3. Stopped(t) /\ out'.kind # "syscall"
    BY <2>1, <2>2 DEF Resume, CallInv, OutInv
  <2>4. t \in execd \/ TaskInv(t)'
    BY <1>0, <2>1, <2>2, <2>3, InHand, ResumeTask
  <2> QED
    BY <1>0, <2>1, <2>2, <2>3, <2>4, HandlerStep
<1>10. CASE HandleExit
  <2>1. /\ pc = "handle" /\ status.kind \in {"exited", "signaled"}
        /\ inflight' = InflightRemove(t) /\ out'.kind = "exit" /\ pc' = "idle"
        /\ UNCHANGED <<kvars, pending, reported>>
    BY <1>0, <1>10 DEF HandleExit, Return
  <2>2. HandInv' /\ OutInv'
    BY <2>1 DEF HandInv, OutInv
  <2>3. t \in execd \/ st[t] \in {"zombie", "gone"}
    BY <1>0, <2>1 DEF SeenInv, CallInv, HandInv
  <2> QED
    BY <1>0, <2>1, <2>2, <2>3 DEF CallInv, InflightRemove, kvars, TypeOK
<1>11. CASE TaskStep
  <2>1. KernelMoves
    BY <1>11, KernelStepMoves DEF TaskStep, SeenInv
  <2>2. \A x \in Task \ execd' : TaskInv(x)'
    BY <1>11, KernelStepTasks DEF TaskStep, CallInv
  <2>3. HandInv' /\ OutInv'
    BY <1>0, <1>11, <2>1 DEF TaskStep, tvars, CallInv, HandInv, OutInv, KernelMoves
  <2> QED
    BY <2>2, <2>3 DEF CallInv
<1>12. CASE UNCHANGED vars
  BY <1>12 DEF vars, kvars, tvars, CallInv, HandInv, OutInv
<1> QED
  BY <1>1, <1>2, <1>3, <1>4, <1>5, <1>6, <1>7, <1>8, <1>9, <1>10, <1>11, <1>12
     DEF Next, TracerStep, Handle, Stutter

\* The state that PtraceTracer::new leaves satisfies the inductive invariant.
LEMMA InitInv == Init => IInv
<1>1. ASSUME Init
      PROVE  SeenInv
  BY <1>1 DEF Init, KernelInit, TracerInit, SeenInv, NoStranded
<1>2. ASSUME Init
      PROVE  CallInv
  BY <1>2, TracerAssumption
     DEF Init, KernelInit, TracerInit, CallInv, TaskInv, AtRest, Waiting, InCall,
         HandInv, OutInv, NoEvent
<1> QED
  BY <1>1, <1>2, InitType DEF IInv

\* IInv is an inductive invariant.
THEOREM Invariance == Spec => []IInv
<1>1. IInv /\ [Next]_vars => IInv'
  BY NextType, SeenStep, CallStep DEF IInv
<1> QED
  BY <1>1, InitInv, PTL DEF Spec

\* Every Syscall event joins the entry and the exit of one call, unless its tid
\* came out of a followed execve.
THEOREM PairingHolds == Spec => []Pairing
<1>1. IInv => Pairing
  BY DEF IInv, CallInv, OutInv, Pairing
<1> QED
  BY <1>1, Invariance, PTL

\* The task of the Syscall event in hand is still stopped at the exit of that
\* call, or dead.
THEOREM HeldStillHolds == Spec => []HeldStill
<1>1. ASSUME IInv
      PROVE  HeldStill
  <2>1. SUFFICES ASSUME pc = "idle", out.kind = "syscall", out.tid \notin execd
                 PROVE  \/ st[out.tid] = "exit" /\ ncall[out.tid] = out.call
                        \/ ~Alive(out.tid)
    BY DEF HeldStill
  <2>2. out.tid \in Task
    BY <1>1 DEF IInv, TypeOK, Event
  <2>3. TaskInv(out.tid) /\ pending = out.tid /\ out.call = reported[out.tid]
    BY <1>1, <2>1, <2>2 DEF IInv, CallInv, OutInv
  <2> QED
    BY <2>3 DEF TaskInv, AtRest, Alive, DeadStates
<1> QED
  BY <1>1, Invariance, PTL

\* Calls are reported one for one and in order; only a call that its task dies
\* in goes unreported.
THEOREM NoCallLostHolds == Spec => []NoCallLost
<1>1. ASSUME IInv
      PROVE  NoCallLost
  BY <1>1 DEF IInv, CallInv, OutInv, TaskInv, AtRest, NoCallLost
<1> QED
  BY <1>1, Invariance, PTL

\* Without --follow, execve takes nothing away: every tid's events are paired.
THEOREM PairingWithoutFollow == ~Follow => (Spec => []PairingAfterExec)
<1> SUFFICES ASSUME ~Follow
             PROVE  Spec => []PairingAfterExec
  OBVIOUS
<1> DEFINE NoExecd == execd = {}
<1>1. Init => NoExecd
  BY DEF Init, KernelInit
<1>2. ASSUME NoExecd, [Next]_vars
      PROVE  NoExecd'
  <2>1. CASE TaskStep
    BY <1>2, <2>1
       DEF TaskStep, KernelStep, SyscallEnter, SyscallExit, Clone, CloneStop,
           ExecBegin, ExecEnd, Options, ThreadExit, GroupExit, SignalStop,
           Kill
  <2>2. CASE UNCHANGED vars
    BY <1>2, <2>2 DEF vars, kvars
  <2>3. CASE NextEvent \/ ReturnNone \/ \E t \in Task : WaitPid(t)
    BY <1>2, <2>3 DEF NextEvent, ReturnNone, WaitPid, Resume, Collect, kvars
  <2>4. CASE Handle
    BY <1>2, <2>4
       DEF Handle, HandleEsrch, Fail, SyscallStopExit, Defer, SyscallStopEnter,
           HandleCloneEvent, HandleExecEvent, HandleStopped, HandleExit, Resume,
           kvars
  <2> QED
    BY <1>2, <2>1, <2>2, <2>3, <2>4 DEF Next, TracerStep, Stutter
<1>3. IInv /\ NoExecd => PairingAfterExec
  BY DEF IInv, CallInv, OutInv, PairingAfterExec
<1> QED
  BY <1>1, <1>2, <1>3, Invariance, PTL DEF Spec

-----------------------------------------------------------------------------
(* Thread groups, and the end of the stream.                               *)

\* What no step ever undoes: a task that was created exists or is gone, keeps
\* its thread group, and does not come back once it is reaped.
Onward ==
    \A t \in Task :
        /\ st[t] # "absent" => st'[t] # "absent" /\ grp'[t] = grp[t]
        /\ st[t] = "gone" => st'[t] = "gone"
        /\ st'[t] = "absent" => grp'[t] = grp[t]

\* The death of a thread group goes onward.
LEMMA GroupDiesOnward ==
    ASSUME TypeOK, NEW t \in Task, NEW w, GroupDies(t, w), grp' = grp
    PROVE  Onward
BY DEF TypeOK, KernelTypeOK, GroupDies, Mates, Onward

\* So does everything else that the tasks do ...
LEMMA KernelStepOnward ==
    ASSUME TypeOK, KernelStep
    PROVE  Onward
<1> USE DEF TypeOK, KernelTypeOK
<1>1. PICK t \in Task :
        \/ SyscallEnter(t)
        \/ SyscallExit(t)
        \/ \E u \in Task, g \in Task : Clone(t, u, g)
        \/ CloneStop(t)
        \/ ExecBegin(t)
        \/ ExecEnd(t)
        \/ \E c \in Codes : ThreadExit(t, c) \/ GroupExit(t, c)
        \/ \E s \in Signals : SignalStop(t, s)
        \/ Kill(t)
  BY DEF KernelStep
<1>2. CASE SyscallEnter(t) \/ SyscallExit(t) \/ CloneStop(t)
  BY <1>2 DEF SyscallEnter, SyscallExit, CloneStop, Onward
<1>3. CASE \E u \in Task, g \in Task : Clone(t, u, g)
  BY <1>3 DEF Clone, Onward
<1>4. CASE ExecBegin(t)
  BY <1>4 DEF ExecBegin, Alive, DeadStates, Onward
<1>5. CASE ExecEnd(t)
  BY <1>5 DEF ExecEnd, Onward
<1>6. CASE \E c \in Codes : ThreadExit(t, c) \/ GroupExit(t, c)
  BY <1>6, GroupDiesOnward DEF ThreadExit, GroupExit, Onward
<1>7. CASE \E s \in Signals : SignalStop(t, s)
  BY <1>7 DEF SignalStop, Onward
<1>8. CASE Kill(t)
  BY <1>8, GroupDiesOnward DEF Kill
<1> QED
  BY <1>1, <1>2, <1>3, <1>4, <1>5, <1>6, <1>7, <1>8

\* ... and every ptrace call of the tracer.
LEMMA ResumeOnward ==
    ASSUME TypeOK, NEW t \in Task, NEW d, Resume(t, d)
    PROVE  Onward
<1>1. grp' = grp /\ Stopped(t)
  BY DEF Resume
<1>2. CASE st[t] = "signal" /\ d = SIGTERM
  BY <1>1, <1>2, GroupDiesOnward DEF Resume
<1>3. CASE ~(st[t] = "signal" /\ d = SIGTERM)
  <2>1. st' = [st EXCEPT ![t] = Resumed(t, d)]
    BY <1>3 DEF Resume
  <2> QED
    BY <1>1, <2>1, ResumedType
       DEF Stopped, StopStates, Onward, TypeOK, KernelTypeOK
<1> QED
  BY <1>2, <1>3

\* No step takes a task back: Onward holds of all of them.
LEMMA NextOnward ==
    ASSUME TypeOK, [Next]_vars
    PROVE  Onward
<1> USE DEF TypeOK
<1>1. CASE UNCHANGED kvars
  BY <1>1 DEF kvars, Onward
<1>2. status.pid \in Task
  BY DEF WaitStatus
<1>3. CASE NextEvent
  BY <1>1, <1>3, ResumeOnward DEF NextEvent
<1>4. ASSUME NEW t \in Task, WaitPid(t)
      PROVE  Onward
  BY <1>4 DEF WaitPid, Collect, Waitable, Onward, KernelTypeOK
<1>5. CASE Handle
  BY <1>1, <1>2, <1>5, ResumeOnward
     DEF Handle, HandleEsrch, Fail, SyscallStopExit, Defer, SyscallStopEnter,
         HandleCloneEvent, HandleExecEvent, HandleStopped, HandleExit
<1> QED
  BY <1>1, <1>3, <1>4, <1>5, KernelStepOnward
     DEF Next, TracerStep, ReturnNone, TaskStep, Stutter, vars

\* The cache of thread-group ids, for every tid: it is right or empty, it is
\* not empty for a task that was reported and may still be named in an event,
\* and an event in hand agrees with it.
GroupInv ==
    /\ \A t \in Task : tgid[t] \in {None, grp[t]}
    /\ \A t \in Task : st[t] = "absent" => tgid[t] = None
    /\ pc = "handle" => st[status.pid] # "absent"
    /\ pc = "handle" /\ status.kind \in {"exited", "signaled"}
          => st[status.pid] = "gone"
    /\ \A t \in Task : reported[t] > 0
          => \/ tgid[t] # None
             \/ st[t] = "gone" /\ ~(pc = "handle" /\ status.pid = t)
    /\ out.kind # "none" => st[out.tid] # "absent"
    /\ TgidRight
    /\ ExitNamesGroup

\* tgid_of is right of every task that /proc still knows.
LEMMA TgidOfRight ==
    ASSUME TypeOK, GroupInv, NEW t \in Task, st[t] # "gone"
    PROVE  TgidOf(t) = grp[t]
BY TracerAssumption DEF GroupInv, TgidOf, ReadTgid, TypeOK, KernelTypeOK

\* Steps that leave the cache and the history alone keep GroupInv.
LEMMA GroupKept ==
    ASSUME TypeOK, GroupInv, Onward, UNCHANGED <<tgid, reported>>,
           out' = out \/ out'.kind = "none",
           pc' # "handle" \/ UNCHANGED <<pc, status>>
    PROVE  GroupInv'
<1>1. out.tid \in Task /\ (pc = "handle" => status.pid \in Task)
  BY DEF TypeOK, Event, WaitStatus
<1>2. \A t \in Task : tgid'[t] \in {None, grp'[t]}
  BY DEF GroupInv, Onward
<1>3. \A t \in Task : st'[t] = "absent" => tgid'[t] = None
  BY DEF GroupInv, Onward
<1>4. \A t \in Task : reported'[t] > 0
          => \/ tgid'[t] # None
             \/ st'[t] = "gone" /\ ~(pc' = "handle" /\ status'.pid = t)
  BY DEF GroupInv, Onward
<1>5. /\ out'.kind # "none" => st'[out'.tid] # "absent"
      /\ TgidRight' /\ ExitNamesGroup'
  BY <1>1 DEF GroupInv, Onward, TgidRight, ExitNamesGroup
<1> QED
  BY <1>1, <1>2, <1>3, <1>4, <1>5 DEF GroupInv, Onward

\* Every step keeps GroupInv.
LEMMA GroupStep ==
    ASSUME TypeOK, GroupInv, [Next]_vars
    PROVE  GroupInv'
<1>0. Onward
  BY NextOnward
<1>1. PICK t \in Task : t = status.pid
  BY DEF TypeOK, WaitStatus
<1>2. CASE NextEvent
  BY <1>0, <1>2, GroupKept DEF NextEvent, NoEvent
<1>3. CASE ReturnNone \/ HandleEsrch
  BY <1>0, <1>3, GroupKept DEF ReturnNone, HandleEsrch, Fail
<1>4. ASSUME NEW p \in Task, WaitPid(p)
      PROVE  GroupInv'
  <2>1. /\ Waitable(p) /\ status' = StatusOf(p) /\ StatusOf(p).pid = p
        /\ StatusOf(p).kind \in {"exited", "signaled"} <=> st[p] = "zombie"
        /\ st' = [st EXCEPT ![p] = IF @ = "zombie" THEN "gone" ELSE @]
        /\ UNCHANGED <<grp, tgid, out, reported>>
    BY <1>4, StatusType DEF WaitPid, Collect
  <2>2. st[p] \notin {"absent", "gone"}
    BY <2>1 DEF Waitable, Stopped, StopStates
  <2>3. \A x \in Task : st'[x] = IF x = p /\ st[p] = "zombie" THEN "gone" ELSE st[x]
    BY <2>1 DEF TypeOK, KernelTypeOK
  <2>4. out.tid \in Task
    BY DEF TypeOK, Event
  <2>5. TgidRight' /\ ExitNamesGroup'
    BY <2>1 DEF GroupInv, TgidRight, ExitNamesGroup
  <2> QED
    BY <2>1, <2>2, <2>3, <2>4, <2>5 DEF GroupInv
<1>5. CASE SyscallStopExit
  <2>1. /\ pc = "handle" /\ Stopped(t) /\ UNCHANGED kvars
        /\ tgid' = [tgid EXCEPT ![t] = TgidOf(t)]
        /\ reported' = [reported EXCEPT ![t] = @ + 1]
        /\ out'.kind = "syscall" /\ out'.pid = TgidOf(t) /\ out'.tid = t
        /\ pc' = "idle"
    BY <1>1, <1>5 DEF SyscallStopExit, Defer, Return
  <2>2. st[t] \notin {"absent", "gone"} /\ TgidOf(t) = grp[t] /\ grp[t] \in Task
    BY <2>1, TgidOfRight DEF Stopped, StopStates, TypeOK, KernelTypeOK
  <2>3. TgidRight' /\ ExitNamesGroup'
    BY <2>1, <2>2 DEF kvars, TgidRight, ExitNamesGroup
  <2>4. \A x \in Task : /\ tgid'[x] = IF x = t THEN grp[t] ELSE tgid[x]
                        /\ x # t => reported'[x] = reported[x]
    BY <2>1, <2>2 DEF TypeOK
  <2> QED
    BY <2>1, <2>2, <2>3, <2>4, TracerAssumption DEF GroupInv, kvars
<1>6. CASE SyscallStopEnter \/ HandleCloneEvent \/ HandleExecEvent
  BY <1>0, <1>6, GroupKept
     DEF SyscallStopEnter, HandleCloneEvent, HandleExecEvent, Again
<1>7. CASE HandleStopped
  <2>1. CASE status.n \in {SIGSTOP, SIGTRAP}
    BY <1>0, <1>7, <2>1, GroupKept DEF HandleStopped, Again
  <2>2. CASE status.n \notin {SIGSTOP, SIGTRAP}
    <3>1. /\ pc = "handle" /\ Stopped(t) /\ reported' = reported
          /\ tgid' = [tgid EXCEPT ![t] = TgidOf(t)]
          /\ out'.kind = "signal" /\ out'.pid = TgidOf(t) /\ out'.tid = t
          /\ pc' = "idle"
      BY <1>1, <1>7, <2>2 DEF HandleStopped, Return, Resume
    <3>2. st[t] \notin {"absent", "gone"} /\ TgidOf(t) = grp[t] /\ grp[t] \in Task
      BY <3>1, TgidOfRight DEF Stopped, StopStates, TypeOK, KernelTypeOK
    <3>3. st'[t] # "absent" /\ grp'[t] = grp[t]
      BY <1>0, <3>2 DEF Onward
    <3>4. TgidRight' /\ ExitNamesGroup'
      BY <3>1, <3>2, <3>3 DEF TgidRight, ExitNamesGroup
    <3>5. \A x \in Task : tgid'[x] = IF x = t THEN grp[t] ELSE tgid[x]
      BY <3>1, <3>2 DEF TypeOK
    <3> QED
      BY <1>0, <3>1, <3>2, <3>3, <3>4, <3>5, TracerAssumption DEF GroupInv, Onward
  <2> QED
    BY <2>1, <2>2
<1>8. CASE HandleExit
  <2>1. /\ pc = "handle" /\ UNCHANGED <<kvars, reported>>
        /\ tgid' = [tgid EXCEPT ![t] = None]
        /\ out'.kind = "exit" /\ out'.pid = TgidOf(t) /\ out'.tid = t
        /\ pc' = "idle" /\ status.kind \in {"exited", "signaled"}
    BY <1>1, <1>8 DEF HandleExit, Return
  <2>2. st[t] = "gone" /\ (reported[t] > 0 => tgid[t] # None)
    BY <1>1, <2>1 DEF GroupInv
  <2>3. t = grp[t] \/ reported[t] > 0 => TgidOf(t) = grp[t]
    BY <2>2, TracerAssumption DEF GroupInv, TgidOf, ReadTgid
  <2>4. TgidRight' /\ ExitNamesGroup'
    BY <2>1, <2>3 DEF kvars, TgidRight, ExitNamesGroup
  <2>5. \A x \in Task : tgid'[x] = IF x = t THEN None ELSE tgid[x]
    BY <2>1 DEF TypeOK
  <2> QED
    BY <2>1, <2>2, <2>4, <2>5 DEF GroupInv, kvars
<1>9. CASE TaskStep \/ UNCHANGED vars
  BY <1>0, <1>9, GroupKept DEF TaskStep, tvars, vars
<1> QED
  BY <1>2, <1>3, <1>4, <1>5, <1>6, <1>7, <1>8, <1>9
     DEF Next, TracerStep, Handle, Stutter

\* GroupInv holds of the state that PtraceTracer::new leaves, attached or spawned.
LEMMA InitGroup == Init => GroupInv
BY DEF Init, KernelInit, TracerInit, GroupInv, NoEvent, TgidRight, ExitNamesGroup

\* GroupInv is inductive with the types.
LEMMA GroupInvariance == Spec => []GroupInv
<1>1. TypeOK /\ GroupInv /\ [Next]_vars => GroupInv'
  BY GroupStep
<1> QED
  BY <1>1, InitGroup, TypeCorrect, PTL DEF Spec

\* A Syscall or Signal event names the thread group of its task.
THEOREM TgidRightHolds == Spec => []TgidRight
<1>1. GroupInv => TgidRight
  BY DEF GroupInv
<1> QED
  BY <1>1, GroupInvariance, PTL

\* So does a ProcessExit event of a group leader or of a task that was reported.
THEOREM ExitNamesGroupHolds == Spec => []ExitNamesGroup
<1>1. GroupInv => ExitNamesGroup
  BY DEF GroupInv
<1> QED
  BY <1>1, GroupInvariance, PTL

\* `live` misses no task that the tracer was told of until the task is reaped.
LiveInv ==
    /\ \A c \in told : c \in live \/ st[c] = "gone"
    /\ ~Follow => \A t \in Task : st[t] \notin {"cloned", "clone"}
    /\ pc = "handle" /\ status.kind = "clone" => Follow
    /\ NoneMeansGone

\* Without --follow no task is ever at a fork event: the options do not ask for it.
LEMMA KernelStepClones ==
    ASSUME TypeOK, KernelStep, ~Follow,
           \A t \in Task : st[t] \notin {"cloned", "clone"}
    PROVE  \A t \in Task : st'[t] \notin {"cloned", "clone"}
<1> USE DEF TypeOK, KernelTypeOK
<1>1. PICK t \in Task :
        \/ SyscallEnter(t)
        \/ SyscallExit(t)
        \/ \E u \in Task, g \in Task : Clone(t, u, g)
        \/ CloneStop(t)
        \/ ExecBegin(t)
        \/ ExecEnd(t)
        \/ \E c \in Codes : ThreadExit(t, c) \/ GroupExit(t, c)
        \/ \E s \in Signals : SignalStop(t, s)
        \/ Kill(t)
  BY DEF KernelStep
<1>2. CASE SyscallEnter(t) \/ SyscallExit(t) \/ CloneStop(t)
  BY <1>2 DEF SyscallEnter, SyscallExit, CloneStop
<1>3. CASE \E u \in Task, g \in Task : Clone(t, u, g)
  BY <1>3 DEF Clone, Options
<1>4. CASE ExecBegin(t)
  BY <1>4 DEF ExecBegin
<1>5. CASE ExecEnd(t)
  BY <1>5 DEF ExecEnd
<1>6. CASE \E c \in Codes : ThreadExit(t, c) \/ GroupExit(t, c)
  BY <1>6 DEF ThreadExit, GroupExit, GroupDies
<1>7. CASE \E s \in Signals : SignalStop(t, s)
  BY <1>7 DEF SignalStop
<1>8. CASE Kill(t)
  BY <1>8 DEF Kill, GroupDies
<1> QED
  BY <1>1, <1>2, <1>3, <1>4, <1>5, <1>6, <1>7, <1>8

\* Nor does PTRACE_SYSCALL take a task there.
LEMMA ResumeClones ==
    ASSUME TypeOK, NEW t \in Task, NEW d, Resume(t, d),
           \A x \in Task : st[x] \notin {"cloned", "clone"}
    PROVE  \A x \in Task : st'[x] \notin {"cloned", "clone"}
<1>1. CASE st[t] = "signal" /\ d = SIGTERM
  BY <1>1 DEF Resume, GroupDies, TypeOK, KernelTypeOK
<1>2. CASE ~(st[t] = "signal" /\ d = SIGTERM)
  <2>1. st' = [st EXCEPT ![t] = Resumed(t, d)]
    BY <1>2 DEF Resume
  <2> QED
    BY <2>1, ResumedType DEF TypeOK, KernelTypeOK
<1> QED
  BY <1>1, <1>2

\* Every step keeps the account of who is alive.
LEMMA LiveStep ==
    ASSUME TypeOK, GroupInv, LiveInv, [Next]_vars
    PROVE  LiveInv'
<1> DEFINE NoClones == \A t \in Task : st[t] \notin {"cloned", "clone"}
<1>0. Onward /\ told \subseteq Task
  BY NextOnward DEF TypeOK
<1>1. status.pid \in Task
  BY DEF TypeOK, WaitStatus
<1>2. ASSUME ~Follow
      PROVE  NoClones'
  <2>1. NoClones
    BY <1>2 DEF LiveInv
  <2>2. CASE UNCHANGED kvars
    BY <2>1, <2>2 DEF kvars
  <2>3. CASE NextEvent
    BY <2>1, <2>2, <2>3, ResumeClones DEF NextEvent, TypeOK
  <2>4. ASSUME NEW t \in Task, WaitPid(t)
        PROVE  NoClones'
    BY <2>1, <2>4 DEF WaitPid, Collect, TypeOK, KernelTypeOK
  <2>5. CASE Handle
    BY <1>1, <2>1, <2>2, <2>5, ResumeClones
       DEF Handle, HandleEsrch, Fail, SyscallStopExit, Defer, SyscallStopEnter,
           HandleCloneEvent, HandleExecEvent, HandleStopped, HandleExit
  <2>6. CASE TaskStep
    BY <1>2, <2>1, <2>6, KernelStepClones DEF TaskStep
  <2> QED
    BY <2>2, <2>3, <2>4, <2>5, <2>6
       DEF Next, TracerStep, ReturnNone, Stutter, vars
<1> HIDE DEF NoClones
<1>3. ASSUME UNCHANGED <<live, told>>, pc' # "none",
             pc' # "handle" \/ UNCHANGED <<pc, status>>
      PROVE  LiveInv'
  BY <1>0, <1>2, <1>3 DEF LiveInv, NoClones, Onward, NoneMeansGone
<1>4. CASE NextEvent \/ HandleEsrch
  BY <1>3, <1>4 DEF NextEvent, HandleEsrch, Fail
<1>5. CASE ReturnNone
  <2>1. /\ pc' = "none" /\ (live = {} \/ NoChild)
        /\ UNCHANGED <<st, live, told>>
    BY <1>5 DEF ReturnNone, kvars
  <2>2. NoneMeansGone'
    BY <2>1 DEF LiveInv, NoneMeansGone, Unannounced, NoChild
  <2> QED
    BY <1>2, <2>1, <2>2 DEF LiveInv, NoClones
<1>6. ASSUME NEW p \in Task, WaitPid(p)
      PROVE  LiveInv'
  <2>1. /\ Waitable(p) /\ status' = StatusOf(p)
        /\ pc' # "none" /\ UNCHANGED <<live, told>>
    BY <1>6 DEF WaitPid, Collect
  <2>2. status'.kind = "clone" => Follow
    <3>1. CASE Stopped(p)
      BY <2>1, <3>1, StatusMatches DEF LiveInv
    <3>2. CASE ~Stopped(p)
      BY <2>1, <3>2, StatusType DEF Waitable
    <3> QED
      BY <3>1, <3>2
  <2> QED
    BY <1>0, <1>2, <2>1, <2>2 DEF LiveInv, NoClones, Onward, NoneMeansGone
<1>7. CASE SyscallStopExit \/ SyscallStopEnter \/ HandleExecEvent \/ HandleStopped
  BY <1>3, <1>7
     DEF SyscallStopExit, SyscallStopEnter, HandleExecEvent, HandleStopped, Again,
         Return
<1>8. CASE HandleCloneEvent
  <2>1. /\ Follow /\ pc' = "loop"
        /\ live' = live \cup {msg[status.pid]}
        /\ told' = told \cup {msg[status.pid]}
    BY <1>8 DEF HandleCloneEvent, Again, LiveInv
  <2> QED
    BY <1>0, <2>1 DEF LiveInv, Onward, NoneMeansGone
<1>9. CASE HandleExit
  <2>1. /\ live' = live \ {status.pid} /\ pc' = "idle"
        /\ UNCHANGED <<st, told>>
        /\ st[status.pid] = "gone"
    BY <1>9 DEF HandleExit, Return, kvars, GroupInv
  <2> QED
    BY <1>2, <2>1 DEF LiveInv, NoClones, NoneMeansGone
<1>10. CASE TaskStep
  BY <1>3, <1>10 DEF TaskStep, tvars, Final
<1>11. CASE UNCHANGED vars
  BY <1>2, <1>11 DEF vars, kvars, tvars, LiveInv, NoClones, NoneMeansGone, Unannounced
<1> QED
  BY <1>4, <1>5, <1>6, <1>7, <1>8, <1>9, <1>10, <1>11
     DEF Next, TracerStep, Handle, Stutter

\* The tasks traced from the start are alive and counted.
LEMMA InitLive == Init => LiveInv
BY DEF Init, KernelInit, TracerInit, LiveInv, NoneMeansGone

\* LiveInv is inductive with the types and GroupInv.
LEMMA LiveInvariance == Spec => []LiveInv
<1>1. TypeOK /\ GroupInv /\ LiveInv /\ [Next]_vars => LiveInv'
  BY LiveStep
<1> QED
  BY <1>1, InitLive, GroupInvariance, TypeCorrect, PTL DEF Spec

\* next_event answers Ok(None) only when every task it was told of is reaped.
THEOREM NoneMeansGoneHolds == Spec => []NoneMeansGone
<1>1. LiveInv => NoneMeansGone
  BY DEF LiveInv
<1> QED
  BY <1>1, LiveInvariance, PTL

-----------------------------------------------------------------------------
(***************************************************************************)
(* The ptrace backend implements TraceStream.                              *)
(*                                                                         *)
(* Unlike Pairing, the contract holds of tids that came out of a followed  *)
(* execve too, whose entries and exits the tracer takes for one another.   *)
(* StreamInv says why: whatever a syscall-stop is taken for, `inflight` is *)
(* a call that was entered and is newer than the last one reported, and a  *)
(* task that has still to stop in a call was not reported for that call.   *)
(***************************************************************************)


\* A task that is in its call number ncall[t] and has a stop of it to come.
TaskStream(t) ==
    /\ last[t] <= ncall[t]
    /\ inflight[t] # 0 => last[t] < inflight[t] /\ inflight[t] <= ncall[t]
    /\ st[t] = "enter" => inflight[t] < ncall[t]
    /\ st[t] \in InCall \cup {"enter", "exec"} => last[t] < ncall[t]
    /\ st[t] = "exit" /\ pending # t => last[t] < ncall[t]

\* A syscall-stop in hand is still that stop, unless the task was killed since,
\* or killed and brought back by a thread that called execve: then the call it
\* is in is a new one.
HandStream ==
    pc = "handle" /\ status.kind = "syscall"
        => LET t == status.pid IN
           /\ st[t] \in {"enter", "exit", "exec", "zombie", "gone"}
           /\ st[t] = "exec" => inflight[t] < ncall[t]

StreamInv ==
    /\ pc \in {"loop", "handle"} => out.kind = "none"
    /\ \A t \in Task : TaskStream(t)
    /\ HandStream

\* A task that a step leaves where it is or kills keeps TaskStream.
LEMMA StreamKept ==
    ASSUME NEW x \in Task, TaskStream(x), ncall'[x] = ncall[x],
           last'[x] = last[x], inflight'[x] = inflight[x],
           st'[x] = st[x] \/ st'[x] \in {"zombie", "gone"},
           pending' = x <=> pending = x
    PROVE  TaskStream(x)'
BY DEF TaskStream, InCall

\* The death of a thread group keeps what StreamInv says of the tasks and of the
\* stop in hand.
LEMMA GroupDiesStream ==
    ASSUME TypeOK, StreamInv, NEW t \in Task, NEW w, GroupDies(t, w),
           ncall' = ncall, UNCHANGED tvars
    PROVE  StreamInv'
<1>1. \A x \in Task : st'[x] = st[x] \/ st'[x] = "zombie"
  BY DEF TypeOK, KernelTypeOK, GroupDies
<1>2. \A x \in Task : TaskStream(x)'
  BY <1>1, StreamKept DEF StreamInv, tvars
<1>3. status.pid \in Task
  BY DEF TypeOK, WaitStatus
<1> QED
  BY <1>1, <1>2, <1>3 DEF StreamInv, HandStream, tvars

\* So does everything else that the tasks do on their own.
LEMMA KernelStepStream ==
    ASSUME TypeOK, StreamInv, KernelStep, UNCHANGED tvars
    PROVE  StreamInv'
<1> USE DEF TypeOK, KernelTypeOK
<1>0. PICK p \in Task : p = status.pid
  BY DEF WaitStatus
<1>1. PICK t \in Task :
        \/ SyscallEnter(t)
        \/ SyscallExit(t)
        \/ \E u \in Task, g \in Task : Clone(t, u, g)
        \/ CloneStop(t)
        \/ ExecBegin(t)
        \/ ExecEnd(t)
        \/ \E c \in Codes : ThreadExit(t, c) \/ GroupExit(t, c)
        \/ \E s \in Signals : SignalStop(t, s)
        \/ Kill(t)
  BY DEF KernelStep
<1>2. CASE SyscallEnter(t)
  BY <1>0, <1>2 DEF SyscallEnter, StreamInv, TaskStream, InCall, HandStream, tvars
<1>3. CASE SyscallExit(t)
  BY <1>0, <1>3 DEF SyscallExit, StreamInv, TaskStream, InCall, HandStream, tvars
<1>4. CASE \E u \in Task, g \in Task : Clone(t, u, g)
  BY <1>0, <1>4 DEF Clone, StreamInv, TaskStream, InCall, HandStream, tvars
<1>5. CASE CloneStop(t)
  BY <1>0, <1>5 DEF CloneStop, StreamInv, TaskStream, InCall, HandStream, tvars
<1>6. CASE ExecBegin(t)
  BY <1>0, <1>6 DEF ExecBegin, StreamInv, TaskStream, InCall, HandStream, tvars
<1>7. CASE ExecEnd(t)
  <2>1. PICK l \in Task : l = grp[t]
    OBVIOUS
  <2>2. CASE "TRACEEXEC" \in Options
    <3>1. /\ st[t] = "execing" /\ (l = t \/ st[l] = "zombie")
          /\ \A x \in Task : st'[x] = IF x = l THEN "exec"
                                      ELSE IF x = t THEN "gone" ELSE st[x]
          /\ \A x \in Task : ncall'[x] = IF x = l /\ l # t THEN ncall[x] + 1
                                         ELSE ncall[x]
      BY <1>7, <2>1, <2>2 DEF ExecEnd
    <3>2. \A x \in Task : TaskStream(x)'
      BY <3>1 DEF StreamInv, TaskStream, InCall, tvars
    <3>3. HandStream'
      BY <1>0, <3>1 DEF StreamInv, TaskStream, InCall, HandStream, tvars
    <3> QED
      BY <3>2, <3>3 DEF StreamInv, tvars
  <2>3. CASE "TRACEEXEC" \notin Options
    BY <1>0, <1>7, <2>3
       DEF ExecEnd, StreamInv, TaskStream, InCall, HandStream, tvars
  <2> QED
    BY <2>2, <2>3
<1>8. CASE \E c \in Codes : ThreadExit(t, c) \/ GroupExit(t, c)
  <2>1. CASE \E c \in Codes : ThreadExit(t, c)
    BY <1>0, <2>1 DEF ThreadExit, StreamInv, TaskStream, InCall, HandStream, tvars
  <2>2. CASE \E c \in Codes : GroupExit(t, c)
    BY <2>2, GroupDiesStream DEF GroupExit
  <2> QED
    BY <1>8, <2>1, <2>2
<1>9. CASE \E s \in Signals : SignalStop(t, s)
  BY <1>0, <1>9 DEF SignalStop, StreamInv, TaskStream, InCall, HandStream, tvars
<1>10. CASE Kill(t)
  BY <1>10, GroupDiesStream DEF Kill
<1> QED
  BY <1>1, <1>2, <1>3, <1>4, <1>5, <1>6, <1>7, <1>8, <1>9, <1>10

\* PTRACE_SYSCALL on t, with inflight[t] as it was, removed, or set to the call
\* that t is in.
LEMMA ResumeStream ==
    ASSUME TypeOK, NEW t \in Task, NEW d, Resume(t, d),
           \A x \in Task : TaskStream(x), last' = last,
           \A x \in Task \ {t} : inflight'[x] = inflight[x],
           \/ inflight'[t] \in {inflight[t], 0}
           \/ inflight'[t] = ncall[t] /\ last[t] < ncall[t],
           pending' = pending \/ (pending = t /\ pending' = None)
    PROVE  \A x \in Task : TaskStream(x)'
<1>1. /\ ncall' = ncall /\ Stopped(t)
      /\ \A x \in Task \ {t} : st'[x] = st[x] \/ st'[x] = "zombie"
      /\ st'[t] \notin {"enter", "exit", "exec"}
      /\ st'[t] \in InCall => st[t] \in {"enter", "clone", "exec"}
  BY ResumeTask DEF Resume, Stopped, StopStates, InCall
<1>2. ASSUME NEW x \in Task, x # t
      PROVE  TaskStream(x)'
  BY <1>1, <1>2, StreamKept, TracerAssumption
<1>3. TaskStream(t)'
  BY <1>1 DEF TaskStream, InCall, TypeOK, KernelTypeOK
<1> QED
  BY <1>2, <1>3

\* Every step keeps StreamInv.
LEMMA StreamStep ==
    ASSUME TypeOK, SeenInv, StreamInv, [Next]_vars
    PROVE  StreamInv'
<1>0. PICK t \in Task : t = status.pid
  BY DEF TypeOK, WaitStatus
<1>1. CASE NextEvent
  <2>1. /\ pc' \in {"loop", "err"} /\ out'.kind = "none" /\ pending' = None
        /\ UNCHANGED <<inflight, last>>
    BY <1>1 DEF NextEvent, NoEvent
  <2>2. \A x \in Task : TaskStream(x)'
    <3>1. CASE pending # None /\ Stopped(pending)
      <4>1. pending \in Task /\ Resume(pending, 0)
        BY <1>1, <3>1 DEF NextEvent, TypeOK
      <4> QED
        BY <2>1, <4>1, ResumeStream DEF StreamInv
    <3>2. CASE ~(pending # None /\ Stopped(pending))
      <4>1. UNCHANGED kvars
        BY <1>1, <3>2 DEF NextEvent
      <4>2. ASSUME NEW x \in Task
            PROVE  TaskStream(x)'
        <5>1. x = pending => st[x] # "exit"
          BY <3>2, TracerAssumption DEF Stopped, StopStates
        <5> QED
          BY <2>1, <4>1, <5>1 DEF StreamInv, TaskStream, kvars
      <4> QED
        BY <4>2
    <3> QED
      BY <3>1, <3>2
  <2> QED
    BY <2>1, <2>2 DEF StreamInv, HandStream
<1>2. CASE ReturnNone \/ HandleEsrch
  BY <1>2 DEF ReturnNone, HandleEsrch, Fail, kvars, StreamInv, TaskStream, HandStream
<1>3. ASSUME NEW p \in Task, WaitPid(p)
      PROVE  StreamInv'
  <2>1. /\ pc = "loop" /\ status' = StatusOf(p) /\ StatusOf(p).pid = p
        /\ Waitable(p)
        /\ UNCHANGED <<ncall, inflight, last, pending, out>>
        /\ \A x \in Task : st'[x] = IF x = p /\ st[p] = "zombie" THEN "gone"
                                    ELSE st[x]
    BY <1>3, StatusType DEF WaitPid, Collect, TypeOK, KernelTypeOK
  <2>2. \A x \in Task : TaskStream(x)'
    BY <2>1, StreamKept DEF StreamInv
  <2>3. HandStream'
    <3>1. CASE Stopped(p)
      BY <2>1, <3>1, StatusMatches DEF HandStream, Stopped, StopStates
    <3>2. CASE ~Stopped(p)
      BY <2>1, <3>2 DEF HandStream, Waitable
    <3> QED
      BY <3>1, <3>2
  <2> QED
    BY <2>1, <2>2, <2>3 DEF StreamInv
<1>4. CASE SyscallStopExit
  <2>1. /\ pc = "handle" /\ status.kind = "syscall" /\ Stopped(t)
        /\ inflight[t] # 0 /\ inflight' = InflightRemove(t) /\ pending' = t
        /\ last' = [last EXCEPT ![t] = inflight[t]] /\ pc' = "idle"
        /\ UNCHANGED kvars
    BY <1>0, <1>4 DEF SyscallStopExit, Defer, Return
  <2>2. pending = None /\ st[t] \in {"enter", "exit", "exec"}
        /\ (st[t] # "exit" => inflight[t] < ncall[t])
    BY <1>0, <2>1
       DEF SeenInv, StreamInv, HandStream, TaskStream, Stopped, StopStates
  <2>3. ASSUME NEW x \in Task
        PROVE  TaskStream(x)'
    <3>1. CASE x = t
      <4>1. /\ inflight'[t] = 0 /\ last'[t] = inflight[t]
            /\ ncall' = ncall /\ st' = st
        BY <2>1 DEF InflightRemove, TypeOK, kvars
      <4>2. TaskStream(t) /\ inflight[t] \in Nat /\ ncall[t] \in Nat
        BY DEF StreamInv, TypeOK, KernelTypeOK
      <4> QED
        BY <2>1, <2>2, <3>1, <4>1, <4>2 DEF TaskStream, InCall
    <3>2. CASE x # t
      <4>1. inflight'[x] = inflight[x] /\ last'[x] = last[x]
        BY <2>1, <3>2 DEF InflightRemove, TypeOK
      <4> QED
        BY <2>1, <2>2, <3>2, <4>1, StreamKept, TracerAssumption DEF StreamInv, kvars
    <3> QED
      BY <3>1, <3>2
  <2> QED
    BY <2>1, <2>3 DEF StreamInv, HandStream
<1>5. ASSUME NEW d, Resume(t, d), pc = "handle", UNCHANGED <<last, pending>>,
             \A x \in Task \ {t} : inflight'[x] = inflight[x],
             \/ inflight'[t] \in {inflight[t], 0}
             \/ inflight'[t] = ncall[t] /\ last[t] < ncall[t],
             (pc' = "loop" /\ out' = out) \/ pc' = "idle"
      PROVE  StreamInv'
  <2>1. \A x \in Task : TaskStream(x)'
    BY <1>5, ResumeStream DEF StreamInv
  <2> QED
    BY <1>5, <2>1 DEF StreamInv, HandStream
<1>6. CASE SyscallStopEnter
  <2>1. /\ pc = "handle" /\ status.kind = "syscall" /\ Resume(t, 0)
        /\ inflight' = [inflight EXCEPT ![t] = ncall[t]]
        /\ pc' = "loop" /\ UNCHANGED <<out, last, pending>>
    BY <1>0, <1>6 DEF SyscallStopEnter, Again, OrigRax
  <2>2. last[t] < ncall[t]
    <3>1. pending # t /\ st[t] \in {"enter", "exit", "exec"}
      BY <1>0, <2>1, TracerAssumption
         DEF SeenInv, StreamInv, HandStream, Resume, Stopped, StopStates
    <3> QED
      BY <3>1 DEF StreamInv, TaskStream
  <2> QED
    BY <1>5, <2>1, <2>2 DEF TypeOK
<1>7. CASE HandleCloneEvent
  BY <1>0, <1>5, <1>7 DEF HandleCloneEvent, Again
<1>8. CASE HandleExecEvent
  BY <1>0, <1>5, <1>8 DEF HandleExecEvent, Again, InflightRemove, TypeOK
<1>9. CASE HandleStopped
  <2>1. /\ pc = "handle" /\ \E d : Resume(t, d)
        /\ (pc' = "loop" /\ out' = out) \/ pc' = "idle"
        /\ UNCHANGED <<inflight, last, pending>>
    BY <1>0, <1>9 DEF HandleStopped, Again, Return
  <2> QED
    BY <1>5, <2>1
<1>10. CASE HandleExit
  <2>1. /\ inflight' = InflightRemove(t) /\ pc' = "idle"
        /\ UNCHANGED <<kvars, last, pending>>
    BY <1>0, <1>10 DEF HandleExit, Return
  <2>2. \A x \in Task : TaskStream(x)'
    BY <2>1 DEF StreamInv, TaskStream, InflightRemove, kvars, TypeOK, KernelTypeOK
  <2> QED
    BY <2>1, <2>2 DEF StreamInv, HandStream
<1>11. CASE TaskStep
  BY <1>11, KernelStepStream DEF TaskStep
<1>12. CASE UNCHANGED vars
  BY <1>12 DEF vars, kvars, tvars, StreamInv, TaskStream, HandStream
<1> QED
  BY <1>1, <1>2, <1>3, <1>4, <1>6, <1>7, <1>8, <1>9, <1>10, <1>11, <1>12
     DEF Next, TracerStep, Handle, Stutter

\* No call is entered or reported before the first event.
LEMMA InitStream == Init => StreamInv
BY DEF Init, KernelInit, TracerInit, StreamInv, TaskStream, HandStream, InCall, NoEvent

-----------------------------------------------------------------------------
(* The refinement.                                                         *)

\* No step takes back a system call.
LEMMA CallsGrow ==
    ASSUME TypeOK, KernelStep
    PROVE  \A x \in Task : ncall'[x] >= ncall[x]
<1> USE DEF TypeOK, KernelTypeOK
<1>1. PICK t \in Task :
        \/ SyscallEnter(t)
        \/ ExecEnd(t)
        \/ ncall' = ncall
  BY DEF KernelStep, SyscallExit, Clone, CloneStop, ExecBegin, ThreadExit, GroupExit,
         SignalStop, Kill
<1>2. CASE SyscallEnter(t)
  BY <1>2 DEF SyscallEnter
<1>3. CASE ExecEnd(t)
  <2>1. \/ ncall' = ncall
        \/ ncall' = [ncall EXCEPT ![grp[t]] = IF grp[t] = t THEN @ ELSE @ + 1]
    BY <1>3 DEF ExecEnd
  <2> QED
    BY <2>1
<1> QED
  BY <1>1, <1>2, <1>3

\* Every step of the ptrace backend is a step of the stream or none.
LEMMA StreamRefines ==
    ASSUME TypeOK, TypeOK', StreamInv, [Next]_vars
    PROVE  [Stream!StreamNext]_Stream!streamVars
<1>0. PICK t \in Task : t = status.pid
  BY DEF TypeOK, WaitStatus
<1>1. ASSUME UNCHANGED <<ncall, last, out>>, Final' = Final
      PROVE  UNCHANGED Stream!streamVars
  BY <1>1 DEF Stream!streamVars
<1>2. ASSUME UNCHANGED <<ncall, last, out>>, ~Final, Final', out.kind = "none"
      PROVE  Stream!End
  BY <1>2 DEF Stream!End, Stream!Nothing
<1>3. ASSUME UNCHANGED <<ncall, last>>, ~Final, ~Final', out.kind = "none",
             out'.kind \in {"exit", "signal"}
      PROVE  Stream!TellOther
  BY <1>3 DEF Stream!TellOther, Stream!Nothing, Stream!OtherEvent, Final
<1>4. CASE NextEvent
  <2>1. ncall' = ncall
    BY <1>4 DEF NextEvent, Resume, kvars
  <2>2. /\ ~Final /\ out'.kind = "none" /\ last' = last /\ Final' \in BOOLEAN
    BY <1>4 DEF NextEvent, NoEvent, Final
  <2>3. Stream!Ask
    BY <2>1, <2>2 DEF Stream!Ask, Stream!Nothing
  <2> QED
    BY <2>3 DEF Stream!StreamNext
<1>5. CASE ReturnNone \/ HandleEsrch
  <2>1. /\ UNCHANGED <<ncall, last, out>> /\ ~Final /\ Final'
        /\ out.kind = "none"
    BY <1>5 DEF ReturnNone, HandleEsrch, Fail, kvars, Final, StreamInv
  <2> QED
    BY <1>2, <2>1 DEF Stream!StreamNext
<1>6. ASSUME NEW p \in Task, WaitPid(p)
      PROVE  [Stream!StreamNext]_Stream!streamVars
  <2>1. /\ UNCHANGED <<ncall, last, out>> /\ ~Final /\ pc' \in {"err", "handle"}
        /\ out.kind = "none"
    BY <1>6 DEF WaitPid, Collect, Final, StreamInv
  <2>2. CASE pc' = "err"
    BY <1>2, <2>1, <2>2 DEF Final, Stream!StreamNext
  <2>3. CASE pc' = "handle"
    BY <1>1, <2>1, <2>3 DEF Final
  <2> QED
    BY <2>1, <2>2, <2>3
<1>7. CASE SyscallStopExit
  <2> DEFINE k == inflight[t]
  <2>1. /\ pc = "handle" /\ pc' = "idle" /\ ncall' = ncall
        /\ out'.kind = "syscall" /\ out'.tid = t /\ out'.call = k
        /\ last' = [last EXCEPT ![t] = k] /\ k # 0
    BY <1>0, <1>7 DEF SyscallStopExit, Defer, Return, kvars
  <2>2. out.kind = "none" /\ last[t] < k /\ k <= ncall[t]
    BY <2>1 DEF StreamInv, TaskStream
  <2>3. k \in (last[t] + 1)..ncall[t] /\ k > last[t]
    BY <2>2 DEF TypeOK, KernelTypeOK
  <2>4. Stream!Tell(t, k)
    BY <2>1, <2>2, <2>3 DEF Stream!Tell, Stream!Nothing, Stream!SyscallEvent, Final
  <2> QED
    BY <2>3, <2>4 DEF Stream!StreamNext
<1>8. CASE SyscallStopEnter \/ HandleCloneEvent \/ HandleExecEvent
  BY <1>1, <1>8
     DEF SyscallStopEnter, HandleCloneEvent, HandleExecEvent, Resume, Again, Final
<1>9. CASE HandleStopped
  <2>1. /\ pc = "handle" /\ UNCHANGED <<ncall, last>>
        /\ \/ pc' = "loop" /\ out' = out
           \/ pc' = "idle" /\ out'.kind = "signal"
    BY <1>9 DEF HandleStopped, Resume, Again, Return
  <2>2. CASE pc' = "loop" /\ out' = out
    BY <1>1, <2>1, <2>2 DEF Final
  <2>3. CASE pc' = "idle" /\ out'.kind = "signal"
    BY <1>3, <2>1, <2>3 DEF Final, StreamInv, Stream!StreamNext
  <2> QED
    BY <2>1, <2>2, <2>3
<1>10. CASE HandleExit
  <2>1. /\ pc = "handle" /\ UNCHANGED <<ncall, last>>
        /\ pc' = "idle" /\ out'.kind = "exit"
    BY <1>10 DEF HandleExit, Return, kvars
  <2> QED
    BY <1>3, <2>1 DEF Final, StreamInv, Stream!StreamNext
<1>11. CASE TaskStep
  <2>1. /\ \A x \in Task : ncall'[x] >= ncall[x]
        /\ UNCHANGED <<last, out, pc>> /\ ncall' \in [Task -> Nat]
    BY <1>11, CallsGrow DEF TaskStep, tvars, TypeOK, KernelTypeOK
  <2>2. Stream!MakeCalls
    BY <2>1 DEF Stream!MakeCalls, Final
  <2> QED
    BY <2>2 DEF Stream!StreamNext
<1>12. CASE UNCHANGED vars
  BY <1>1, <1>12 DEF vars, kvars, tvars, Final
<1> QED
  BY <1>4, <1>5, <1>6, <1>7, <1>8, <1>9, <1>10, <1>11, <1>12
     DEF Next, TracerStep, Handle, Stutter

\* The initial states map to initial states of the stream.
LEMMA InitRefines == Init => Stream!StreamInit
<1> SUFFICES ASSUME Init
             PROVE  Stream!StreamInit
  OBVIOUS
<1>1. ncall \in [Task -> Nat] /\ last = [t \in Task |-> 0] /\ out.kind = "none"
  BY DEF Init, KernelInit, TracerInit, NoEvent
<1>2. ~Final
  BY DEF Init, TracerInit, Final
<1> QED
  BY <1>1, <1>2 DEF Stream!StreamInit, Stream!Nothing

\* The ptrace loop keeps the contract of trait Tracer: it reports only calls that
\* were made, those of a tid in order and none twice, and nothing after its end.
THEOREM KeepsContractHolds == Spec => KeepsContract
<1>1. TypeOK /\ SeenInv /\ StreamInv /\ [Next]_vars => StreamInv'
  BY StreamStep
<1>2. TypeOK /\ TypeOK' /\ StreamInv /\ [Next]_vars
         => [Stream!StreamNext]_Stream!streamVars
  BY StreamRefines
<1>3. IInv => TypeOK /\ SeenInv
  BY DEF IInv
<1> QED
  BY <1>1, <1>2, <1>3, InitStream, InitRefines, Invariance, PTL
     DEF Spec, KeepsContract, Stream!StreamSpec
=============================================================================
