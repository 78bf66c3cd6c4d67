--------------------------- MODULE SyrenCliProofs ---------------------------
(***************************************************************************)
(* Proofs about SyrenCli, for every set of tasks, any bounds and any       *)
(* leader among the tasks traced from the start.                           *)
(*                                                                         *)
(* The driver takes only steps of the ptrace backend, so the invariants of *)
(* PtraceTracerProofs hold here too.  LeaderInv adds what makes the last   *)
(* ProcessExit under the leader's id the leader's own: the leader is       *)
(* reaped after all other threads of its group.                            *)
(***************************************************************************)
EXTENDS SyrenCli, PtraceTracerProofs

\* What waitpid's status n of a kind comes to as an exit code.
CodeOf(kind, n) == IF kind = "exited" THEN n ELSE 128 + n

\* The statuses the tasks leave fit an exit code.
StatusInv ==
    /\ \A t \in Task : CodeOf(wstatus[t].kind, wstatus[t].n) \in 0..255
    /\ \A t \in Task : st[t] = "absent" => grp[t] = t
    /\ grp[Leader] = Leader
    /\ st[Leader] # "absent"
    /\ Leader \in told
    /\ exit_code \in Nat

\* The exit of a reaped leader is in hand, was just reported, or is what run kept;
\* and no exit of its group is still to come.
LeaderInv ==
    st[Leader] = "gone" =>
        /\ \A t \in Task : grp[t] = Leader => st[t] = "gone"
        /\ \/ /\ pc = "handle" /\ status.pid = Leader
              /\ status.kind \in {"exited", "signaled"}
              /\ CodeOf(status.kind, status.n) = LeaderCode
           \/ /\ pc = "idle" /\ out.kind = "exit" /\ out.pid = Leader
              /\ out.n = LeaderCode
           \/ /\ exit_code = LeaderCode
              /\ pc = "handle" => grp[status.pid] # Leader
              /\ out.kind = "exit" => out.pid # Leader
           \/ pc = "err"

CliInv == StatusInv /\ LeaderInv /\ LeaderStatusKept /\ NoInventedStatus

\* Whatever the driver does, the backend takes one of its own steps or none.
LEMMA CliSteps ==
    ASSUME [CliNext]_cliVars
    PROVE  [Next]_vars
BY DEF CliNext, cliVars, Record, RecordFails, Finish, TraceFails, Backend, CliStutter,
       Next, TracerStep

\* The invariants of the backend hold under the driver.
LEMMA CliBackend == CliSpec => [](IInv /\ GroupInv /\ LiveInv)
<1>1. CliInit => IInv /\ GroupInv /\ LiveInv
  BY InitInv, InitGroup, InitLive DEF CliInit
<1>2. IInv /\ GroupInv /\ LiveInv /\ [CliNext]_cliVars => (IInv /\ GroupInv /\ LiveInv)'
  BY CliSteps, NextType, SeenStep, CallStep, GroupStep, LiveStep DEF IInv
<1> QED
  BY <1>1, <1>2, PTL DEF CliSpec

-----------------------------------------------------------------------------
(* Exit statuses.                                                          *)

\* What a step may do to exit statuses: that of a reaped task never changes, and
\* a new one is an exit code of the program or a fatal signal.
StatusMoves ==
    \A t \in Task :
        /\ st[t] = "gone" => wstatus'[t] = wstatus[t]
        /\ wstatus'[t] = wstatus[t]
              \/ CodeOf(wstatus'[t].kind, wstatus'[t].n) \in 0..255

\* The death of a group leaves the status it died with.
LEMMA GroupDiesStatus ==
    ASSUME TypeOK, NEW t \in Task, NEW w, GroupDies(t, w),
           CodeOf(w.kind, w.n) \in 0..255
    PROVE  StatusMoves
BY DEF TypeOK, KernelTypeOK, GroupDies, Mates, StatusMoves

\* The tasks leave proper statuses on their own ...
LEMMA KernelStepStatus ==
    ASSUME TypeOK, KernelStep
    PROVE  StatusMoves
<1> USE DEF TypeOK, KernelTypeOK
<1>1. PICK t \in Task :
        \/ wstatus' = wstatus
        \/ ExecBegin(t)
        \/ \E c \in Codes : ThreadExit(t, c) \/ GroupExit(t, c)
        \/ Kill(t)
  BY DEF KernelStep, SyscallEnter, SyscallExit, Clone, CloneStop, ExecEnd, SignalStop
<1>2. CASE wstatus' = wstatus
  BY <1>2 DEF StatusMoves
<1>3. CASE ExecBegin(t)
  BY <1>3 DEF ExecBegin, Alive, DeadStates, StatusMoves, CodeOf
<1>4. ASSUME NEW c \in Codes, ThreadExit(t, c)
      PROVE  StatusMoves
  BY <1>4, KernelAssumption DEF ThreadExit, StatusMoves, CodeOf
<1>5. ASSUME NEW c \in Codes, GroupExit(t, c)
      PROVE  StatusMoves
  <2>1. CodeOf("exited", c) \in 0..255
    BY KernelAssumption DEF CodeOf
  <2> QED
    BY <1>5, <2>1, GroupDiesStatus DEF GroupExit
<1>6. CASE Kill(t)
  <2>1. CodeOf("signaled", SIGKILL) \in 0..255
    BY DEF CodeOf, SIGKILL
  <2> QED
    BY <1>6, <2>1, GroupDiesStatus DEF Kill
<1> QED
  BY <1>1, <1>2, <1>3, <1>4, <1>5, <1>6

\* ... and when a signal is delivered to them.
LEMMA NextStatus ==
    ASSUME TypeOK, [Next]_vars
    PROVE  StatusMoves
<1>1. CASE wstatus' = wstatus
  BY <1>1 DEF StatusMoves
<1>2. ASSUME NEW t \in Task, NEW d, Resume(t, d)
      PROVE  StatusMoves
  <2>1. CodeOf("signaled", SIGTERM) \in 0..255
    BY DEF CodeOf, SIGTERM
  <2>2. CASE st[t] = "signal" /\ d = SIGTERM
    BY <1>2, <2>1, <2>2, GroupDiesStatus DEF Resume
  <2>3. CASE ~(st[t] = "signal" /\ d = SIGTERM)
    BY <1>1, <1>2, <2>3 DEF Resume
  <2> QED
    BY <2>2, <2>3
<1>3. status.pid \in Task /\ (pending # None => pending \in Task)
  BY DEF TypeOK, WaitStatus
<1>4. CASE TracerStep
  BY <1>1, <1>2, <1>3, <1>4
     DEF TracerStep, NextEvent, ReturnNone, WaitPid, Collect, Handle, HandleEsrch,
         Fail, SyscallStopExit, Defer, SyscallStopEnter, HandleCloneEvent,
         HandleExecEvent, HandleStopped, HandleExit, kvars
<1>5. CASE TaskStep
  BY <1>5, KernelStepStatus DEF TaskStep
<1> QED
  BY <1>1, <1>4, <1>5 DEF Next, Stutter, vars, kvars

-----------------------------------------------------------------------------
(* The leader's thread group.                                              *)

\* A thread group is joined only by clone, from inside it.
NewGroups ==
    \A t \in Task :
        \/ grp'[t] = grp[t]
        \/ /\ st[t] = "absent"
           /\ grp'[t] = t \/ \E c \in Task : st[c] = "kernel" /\ grp'[t] = grp[c]

\* No step but clone gives a task its thread group.
LEMMA NextGroups ==
    ASSUME TypeOK, [Next]_vars
    PROVE  NewGroups
<1>1. CASE grp' = grp
  BY <1>1 DEF NewGroups
<1>2. CASE TracerStep
  BY <1>1, <1>2
     DEF TracerStep, NextEvent, ReturnNone, WaitPid, Collect, Handle, HandleEsrch,
         Fail, SyscallStopExit, Defer, SyscallStopEnter, HandleCloneEvent,
         HandleExecEvent, HandleStopped, HandleExit, Resume, kvars
<1>3. CASE TaskStep
  <2>1. \/ grp' = grp
        \/ \E c \in Task, u \in Task, g \in Task : Clone(c, u, g)
    BY <1>3
       DEF TaskStep, KernelStep, SyscallEnter, SyscallExit, CloneStop, ExecBegin,
           ExecEnd, ThreadExit, GroupExit, SignalStop, Kill
  <2>2. ASSUME NEW c \in Task, NEW u \in Task, NEW g \in Task, Clone(c, u, g)
        PROVE  NewGroups
    BY <2>2 DEF Clone, NewGroups, TypeOK, KernelTypeOK
  <2> QED
    BY <1>1, <2>1, <2>2
<1> QED
  BY <1>1, <1>2, <1>3 DEF Next, Stutter, vars, kvars

\* Only waitpid takes a group leader away: a thread that is replaced in an execve
\* is not one.
LEMMA LeaderReaped ==
    ASSUME TypeOK, grp[Leader] = Leader, [Next]_vars,
           st'[Leader] = "gone", st[Leader] # "gone"
    PROVE  WaitPid(Leader)
<1>0. Leader \in Task
  BY KernelAssumption, CliAssumption
<1>1. ASSUME NEW t \in Task, NEW d, Resume(t, d)
      PROVE  FALSE
  <2>1. \A x \in Task \ {t} : st'[x] = st[x] \/ st'[x] = "zombie"
    BY <1>1, ResumeTask
  <2>2. st'[t] # "gone"
    BY <1>1, ResumeTask DEF Resume, Stopped, StopStates
  <2> QED
    BY <1>0, <2>1, <2>2
<1>2. status.pid \in Task /\ (pending # None => pending \in Task)
  BY DEF TypeOK, WaitStatus
<1>3. ~(UNCHANGED kvars)
  BY DEF kvars
<1>4. ASSUME NEW p \in Task, WaitPid(p)
      PROVE  p = Leader
  BY <1>0, <1>4 DEF WaitPid, Collect, TypeOK, KernelTypeOK
<1>5. ~TaskStep
  <2> SUFFICES ASSUME KernelStep
               PROVE  FALSE
    BY DEF TaskStep
  <2>1. ASSUME NEW t \in Task, ExecEnd(t)
        PROVE  FALSE
    <3>1. PICK l \in Task : l = grp[t]
      BY DEF TypeOK, KernelTypeOK
    <3>2. st'[Leader] = "gone" => t = Leader /\ l # Leader
      BY <1>0, <2>1, <3>1 DEF ExecEnd, TypeOK, KernelTypeOK
    <3> QED
      BY <3>1, <3>2
  <2>2. ASSUME NEW t \in Task, ExecBegin(t)
        PROVE  FALSE
    BY <1>0, <2>2 DEF ExecBegin, TypeOK, KernelTypeOK
  <2> QED
    BY <1>0, <2>1, <2>2
       DEF KernelStep, SyscallEnter, SyscallExit, Clone, CloneStop, ThreadExit,
           GroupExit, GroupDies, SignalStop, Kill, TypeOK, KernelTypeOK
<1> QED
  BY <1>1, <1>2, <1>3, <1>4, <1>5
     DEF Next, TracerStep, NextEvent, ReturnNone, Handle, HandleEsrch, Fail,
         SyscallStopExit, Defer, SyscallStopEnter, HandleCloneEvent,
         HandleExecEvent, HandleStopped, HandleExit, Stutter, vars

\* Every step of the driver keeps StatusInv.
LEMMA StatusStep ==
    ASSUME TypeOK, StatusInv, [CliNext]_cliVars
    PROVE  StatusInv'
<1>0. Leader \in Task
  BY KernelAssumption, CliAssumption
<1>1. Onward /\ StatusMoves
  BY CliSteps, NextOnward, NextStatus
<1>2. told \subseteq told'
  BY CliSteps
     DEF Next, TracerStep, NextEvent, ReturnNone, WaitPid, Handle, HandleEsrch, Fail,
         SyscallStopExit, SyscallStopEnter, HandleCloneEvent, HandleExecEvent,
         HandleStopped, HandleExit, TaskStep, Stutter, vars, tvars
<1>3. exit_code' \in Nat
  <2>1. out.n \in Nat /\ exit_code \in Nat
    BY DEF TypeOK, Event, StatusInv
  <2> QED
    BY <2>1
       DEF CliNext, cliVars, Record, RecordFails, Finish, TraceFails, Backend,
           CliStutter
<1> QED
  BY <1>0, <1>1, <1>2, <1>3 DEF StatusInv, Onward, StatusMoves

\* Every step of the driver keeps LeaderInv: the leader is reaped last of its
\* group, and from then on its code is handled, handed out and kept in turn.
LEMMA LeaderStep ==
    ASSUME TypeOK, GroupInv, StatusInv, LeaderInv, [CliNext]_cliVars
    PROVE  LeaderInv'
<1>0. Leader \in Task /\ status.pid \in Task
  BY KernelAssumption, CliAssumption DEF TypeOK, WaitStatus
<1>1. [Next]_vars /\ Onward /\ StatusMoves /\ NewGroups
  BY CliSteps, NextOnward, NextStatus, NextGroups
<1>2. SUFFICES ASSUME st'[Leader] = "gone"
               PROVE  LeaderInv'
  BY DEF LeaderInv
<1>3. CASE st[Leader] # "gone"
  <2>1. WaitPid(Leader)
    BY <1>1, <1>2, <1>3, LeaderReaped DEF StatusInv
  <2>2. /\ Waitable(Leader) /\ grp' = grp /\ wstatus' = wstatus
        /\ status' = StatusOf(Leader) /\ StatusOf(Leader).pid = Leader
        /\ pc' \in {"err", "handle"}
        /\ \A t \in Task \ {Leader} : st'[t] = st[t]
    BY <1>0, <2>1, StatusType DEF WaitPid, Collect, TypeOK, KernelTypeOK
  <2>3. st[Leader] = "zombie"
    BY <1>0, <1>2, <1>3, <2>1 DEF WaitPid, Collect, TypeOK, KernelTypeOK
  <2>4. Mates(Leader) = {Leader}
    BY <2>2, <2>3 DEF Waitable, Stopped, StopStates, StatusInv
  <2>5. \A t \in Task : grp[t] = Leader => st'[t] = "gone"
    BY <1>2, <2>2, <2>4 DEF Mates, StatusInv
  <2>6. status'.kind = wstatus[Leader].kind /\ status'.n = wstatus[Leader].n
    BY <2>2, <2>3 DEF StatusOf
  <2>7. status'.kind \in {"exited", "signaled"}
    BY <1>0, <2>6 DEF TypeOK, KernelTypeOK, ExitStatus
  <2> QED
    BY <2>2, <2>5, <2>6, <2>7 DEF LeaderInv, CodeOf, LeaderCode
<1>4. CASE st[Leader] = "gone"
  <2>1. LeaderCode' = LeaderCode
    BY <1>0, <1>1, <1>4 DEF StatusMoves, LeaderCode
  <2>2. \A t \in Task : grp[t] = Leader => st[t] = "gone"
    BY <1>4 DEF LeaderInv
  <2>3. \A t \in Task : grp'[t] = Leader => st'[t] = "gone"
    BY <1>0, <1>1, <1>4, <2>2 DEF NewGroups, Onward
  <2> DEFINE Handed == /\ pc = "handle" /\ status.pid = Leader
                       /\ status.kind \in {"exited", "signaled"}
                       /\ CodeOf(status.kind, status.n) = LeaderCode
             Told == /\ pc = "idle" /\ out.kind = "exit" /\ out.pid = Leader
                     /\ out.n = LeaderCode
             Kept == /\ exit_code = LeaderCode
                     /\ pc = "handle" => grp[status.pid] # Leader
                     /\ out.kind = "exit" => out.pid # Leader
  <2>4. Handed \/ Told \/ Kept \/ pc = "err"
    BY <1>4 DEF LeaderInv
  <2>5. SUFFICES Handed' \/ Told' \/ Kept' \/ pc' = "err"
    BY <2>3 DEF LeaderInv
  <2>6. CASE Record
    BY <2>1, <2>4, <2>6 DEF Record, NextEvent, NoEvent
  <2>7. CASE \E e \in SinkErrors : RecordFails(e)
    BY <2>1, <2>4, <2>7 DEF RecordFails, vars, kvars, tvars
  <2>8. ASSUME UNCHANGED <<vars, exit_code>>
        PROVE  Handed' \/ Told' \/ Kept' \/ pc' = "err"
    BY <2>1, <2>4, <2>8 DEF vars, kvars, tvars
  <2>9. CASE Backend
    <3>0. exit_code' = exit_code
      BY <2>9 DEF Backend
    <3>1. CASE ReturnNone \/ HandleEsrch
      BY <2>1, <2>4, <3>0, <3>1 DEF ReturnNone, HandleEsrch, Fail
    <3>2. ASSUME NEW p \in Task, WaitPid(p)
          PROVE  Kept'
      <4>1. /\ pc = "loop" /\ status'.pid = p /\ UNCHANGED <<grp, out>>
            /\ st[p] # "gone"
        BY <3>2, StatusType DEF WaitPid, Collect, Waitable, Stopped, StopStates
      <4> QED
        BY <2>1, <2>2, <2>4, <3>0, <4>1
    <3>3. CASE SyscallStopExit \/ SyscallStopEnter \/ HandleCloneEvent
                \/ HandleExecEvent \/ HandleStopped
      <4>1. /\ pc = "handle" /\ status.kind \notin {"exited", "signaled"}
            /\ pc' \in {"idle", "loop"} /\ (out' = out \/ out'.kind # "exit")
        BY <3>3
           DEF SyscallStopExit, SyscallStopEnter, HandleCloneEvent, HandleExecEvent,
               HandleStopped, Again, Return
      <4> QED
        BY <2>1, <2>4, <3>0, <4>1
    <3>4. CASE HandleExit
      <4> DEFINE t == status.pid
      <4>1. /\ pc = "handle" /\ pc' = "idle" /\ out'.kind = "exit"
            /\ out'.pid = TgidOf(t)
            /\ out'.n = CodeOf(status.kind, status.n)
        BY <3>4 DEF HandleExit, Return, CodeOf
      <4>2. st[t] = "gone" /\ TgidOf(t) \in {t, grp[t]}
        BY <1>0, <3>4 DEF HandleExit, GroupInv, TgidOf, ReadTgid
      <4>3. CASE Handed
        BY <2>1, <4>1, <4>2, <4>3 DEF StatusInv
      <4>4. CASE Kept
        BY <2>1, <3>0, <4>1, <4>2, <4>4 DEF StatusInv
      <4> QED
        BY <2>4, <4>1, <4>3, <4>4
    <3>5. CASE TaskStep
      <4>1. UNCHANGED <<pc, status, out>>
        BY <3>5 DEF TaskStep, tvars
      <4>2. pc = "handle" => grp'[status.pid] = grp[status.pid]
        BY <1>0, <1>1 DEF GroupInv, Onward
      <4> QED
        BY <2>1, <2>4, <3>0, <4>1, <4>2
    <3> QED
      BY <2>9, <3>1, <3>2, <3>3, <3>4, <3>5 DEF Backend, Handle
  <2> QED
    BY <2>6, <2>7, <2>8, <2>9 DEF CliNext, cliVars, Finish, TraceFails, CliStutter
<1> QED
  BY <1>3, <1>4

\* At the end of the stream the leader is reaped and run has kept its code.
LEMMA KeptAtEnd ==
    ASSUME TypeOK, LiveInv, StatusInv, LeaderInv
    PROVE  LeaderStatusKept
<1> SUFFICES ASSUME pc = "none"
             PROVE  st[Leader] = "gone" /\ Clamp(exit_code) = LeaderCode
  BY DEF LeaderStatusKept
<1>0. Leader \in Task
  BY KernelAssumption, CliAssumption
<1>1. st[Leader] = "gone"
  BY <1>0 DEF LiveInv, NoneMeansGone, Unannounced, StatusInv
<1>2. exit_code = LeaderCode
  BY <1>1 DEF LeaderInv
<1>3. LeaderCode \in 0..255
  BY <1>0 DEF StatusInv, LeaderCode, CodeOf
<1> QED
  BY <1>1, <1>2, <1>3 DEF Clamp

\* What syren exits with is decided once.
LEMMA ExitStep ==
    ASSUME LeaderStatusKept, NoInventedStatus, [CliNext]_cliVars
    PROVE  NoInventedStatus'
<1>1. CASE UNCHANGED <<vars, exited>>
  BY <1>1 DEF NoInventedStatus, Alive, LeaderCode, vars, kvars
<1>2. CASE exited' \in {-1, 0, 1, 101}
  BY <1>2 DEF NoInventedStatus
<1>3. CASE \E e \in SinkErrors : RecordFails(e)
  BY <1>2, <1>3 DEF RecordFails, ErrorCode
<1>4. CASE Finish
  <2>1. CASE exited' = Clamp(exit_code)
    <3>1. st[Leader] = "gone" /\ exited' = LeaderCode /\ UNCHANGED <<st, wstatus>>
      BY <1>4, <2>1 DEF Finish, LeaderStatusKept, vars, kvars
    <3> QED
      BY <3>1 DEF NoInventedStatus, Alive, DeadStates, LeaderCode
  <2>2. CASE \E e \in SinkErrors : exited' \in ErrorCode(e)
    BY <1>2, <2>2 DEF ErrorCode
  <2> QED
    BY <1>4, <2>1, <2>2 DEF Finish
<1>5. CASE TraceFails
  BY <1>2, <1>5 DEF TraceFails, ErrorCode
<1> QED
  BY <1>1, <1>2, <1>3, <1>4, <1>5 DEF CliNext, cliVars, Record, Backend, CliStutter

\* CliInv is inductive with the invariants of the backend.
THEOREM CliInvariance == CliSpec => []CliInv
<1> DEFINE B == IInv /\ GroupInv /\ LiveInv
<1>1. CliInit /\ B => CliInv
  <2> SUFFICES ASSUME CliInit, B
               PROVE  CliInv
    OBVIOUS
  <2>1. StatusInv /\ LeaderInv
    BY KernelAssumption, CliAssumption
       DEF CliInit, Init, KernelInit, TracerInit, StatusInv, LeaderInv, CodeOf
  <2> QED
    BY <2>1, KeptAtEnd DEF CliInit, CliInv, NoInventedStatus, IInv
<1>2. B /\ B' /\ CliInv /\ [CliNext]_cliVars => CliInv'
  <2> SUFFICES ASSUME B, B', CliInv, [CliNext]_cliVars
               PROVE  CliInv'
    OBVIOUS
  <2>1. StatusInv' /\ LeaderInv' /\ NoInventedStatus'
    BY StatusStep, LeaderStep, ExitStep DEF CliInv, IInv
  <2>2. (TypeOK /\ LiveInv /\ StatusInv /\ LeaderInv => LeaderStatusKept)'
    BY KeptAtEnd, PTL
  <2> QED
    BY <2>1, <2>2 DEF CliInv, IInv
<1> QED
  BY <1>1, <1>2, CliBackend, PTL DEF CliSpec

\* When the stream ends, the code that run kept is that of the leader itself.
THEOREM LeaderStatusKeptHolds == CliSpec => []LeaderStatusKept
<1>1. CliInv => LeaderStatusKept
  BY DEF CliInv
<1> QED
  BY <1>1, CliInvariance, PTL

\* syren never reports the exit of a program that has not exited.
THEOREM NoInventedStatusHolds == CliSpec => []NoInventedStatus
<1>1. CliInv => NoInventedStatus
  BY DEF CliInv
<1> QED
  BY <1>1, CliInvariance, PTL
=============================================================================
