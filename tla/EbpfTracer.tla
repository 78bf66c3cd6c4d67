----------------------------- MODULE EbpfTracer -----------------------------
(***************************************************************************)
(* The eBPF backend: the three in-kernel programs and their maps           *)
(* (crates/syren-ebpf/src/main.rs) and the user-space EbpfTracer whose     *)
(* next_event drains the ring buffer (crates/syren-trace/src/ebpf.rs).     *)
(*                                                                         *)
(* The tasks run on other processors, unhindered by the tracer.  A task is *)
(* identified by its tid; the k-th system call on a tid is named k.  The   *)
(* return of a clone in the new task, and of an execve under a tid taken   *)
(* over, count as calls of that tid that were never entered there.         *)
(*                                                                         *)
(* The initial state is the one a successful EbpfTracer::new leaves: the   *)
(* programs are attached and the tids of the target are in TARGETS.  A     *)
(* process that was attached to may have threads and descendants already:  *)
(* only the pids given are armed.                                          *)
(***************************************************************************)
EXTENDS Integers, Sequences, FiniteSets

CONSTANTS Task,        \* every tid
          Leader,      \* the spawned child, or the first pid attached to
          Attached,    \* the pids of Target::Attach
          Follow,      \* --follow: sched_process_fork is attached
          MaxTargets,  \* max_entries of TARGETS (4096)
          MaxEnters,   \* max_entries of ENTERS (10240)
          RingSize,    \* records that fit in EVENTS (256 KiB)
          Reuse,       \* bound: tids of dead tasks that are handed out again
          ThreadExec,  \* whether a thread other than the first calls execve
          MaxCalls     \* bound: calls per tid

ASSUME EbpfAssumption ==
    /\ IsFiniteSet(Task)
    /\ Attached \subseteq Task
    /\ Leader \in Attached
    /\ {Follow, ThreadExec} \subseteq BOOLEAN
    /\ MaxTargets \in Nat /\ MaxEnters \in Nat /\ RingSize \in Nat
    /\ MaxTargets <= MaxEnters
    /\ Cardinality(Attached) <= MaxTargets
    /\ MaxCalls \in Nat /\ Reuse \in Nat

VARIABLES
    run,       \* where each task is
    grp,       \* its thread group
    ncall,     \* calls made on each tid
    mine,      \* history: the tids of the target and of what descends from it
    heir,      \* history: the calls that only returned on a tid had before
    TARGETS,   \* map: the traced tids
    ENTERS,    \* map: the call entered by each tid, 0 if none
    EVENTS,    \* ring buffer: records, busy between reserve and submit
    watch,     \* EbpfTracer.watch: empty when `child` was spawned
    queue,     \* EbpfTracer.queue
    finished,  \* EbpfTracer.finished
    pc,        \* where next_event is
    out,       \* the event in the hands of the caller
    done,      \* history: calls whose exit found their entry, per tid
    got,       \* history: Syscall events handed to the caller, per tid
    lost       \* history: records for which the ring had no room, per tid

kernelVars == <<run, grp, ncall, mine, heir, TARGETS, ENTERS, done, lost>>
userVars == <<watch, queue, finished, pc, out, got>>
vars == <<kernelVars, EVENTS, userVars>>

RunStates == {"absent", "user", "kernel", "submit", "dead"}
Event == [kind : {"none", "syscall", "exit"}, tid : Task, call : Nat, ret : Nat]
NoEvent == [kind |-> "none", tid |-> Leader, call |-> 0, ret |-> 0]

\* The leader's; its code is left out.
ProcessExit == [kind |-> "exit", tid |-> Leader, call |-> 0, ret |-> 0]

\* What new was asked for: spawn arms the child, attach the pids it watches.
Spawned == watch = {}
Target == IF Spawned THEN {Leader} ELSE watch

\* The child of a spawn is alone, and may still be on its way to, or already be
\* blocked in, the read that waits for the filter to be armed.  Beside the
\* processes attached to there may be others that nobody armed: threads of
\* theirs, children, threads of children.
Init ==
    /\ watch \in {{}, Attached}
    /\ run \in [Task -> {"absent", "user", "kernel"}]
    /\ \A t \in Target : run[t] # "absent"
    /\ Spawned => \A t \in Task \ Target : run[t] = "absent"
    /\ grp \in [Task -> Task]
    /\ \A t \in Task : t \in Target \/ run[t] = "absent" => grp[t] = t
    /\ \A t \in Task : run[t] # "absent" => grp[grp[t]] = grp[t] /\ run[grp[t]] # "absent"
    /\ ncall = [t \in Task |-> IF run[t] = "kernel" THEN 1 ELSE 0]
    /\ mine = Target
    /\ heir = [t \in Task |-> {}]
    /\ TARGETS = Target
    /\ ENTERS = [t \in Task |-> 0]
    /\ EVENTS = <<>>
    /\ queue = <<>>
    /\ finished = FALSE
    /\ pc = "idle"
    /\ out = NoEvent
    /\ done = [t \in Task |-> 0]
    /\ got = [t \in Task |-> 0]
    /\ lost = [t \in Task |-> 0]

Dead(t) == run[t] \in {"absent", "dead"}
GroupDead(t) == \A u \in Task : grp[u] = t => Dead(u)

-----------------------------------------------------------------------------
(* The programs in the kernel.                                             *)

EnterKeys == {t \in Task : ENTERS[t] # 0}

\* The insert of a hash map with max entries: it fails when the map is full.
TargetsInsert(u) == IF u \in TARGETS \/ Cardinality(TARGETS) < MaxTargets
                    THEN TARGETS \cup {u} ELSE TARGETS
EntersInsert(t, k) == IF t \in EnterKeys \/ Cardinality(EnterKeys) < MaxEnters
                      THEN [ENTERS EXCEPT ![t] = k] ELSE ENTERS

\* The filter is by task id ...
IsTarget_All(t) == TRUE
IsTarget(t) == t \in TARGETS

\* ... and so is the pairing: the low half of bpf_get_current_pid_tgid, and not
\* the high one.
EnterKey_Tgid(t) == grp[t]
EnterKey(t) == t

\* sys_enter (try_enter).
SysEnter(t) ==
    /\ run[t] = "user"
    /\ ncall[t] < MaxCalls
    /\ run' = [run EXCEPT ![t] = "kernel"]
    /\ ncall' = [ncall EXCEPT ![t] = @ + 1]
    /\ ENTERS' = IF IsTarget(t) THEN EntersInsert(EnterKey(t), ncall[t] + 1)
               ELSE ENTERS
    /\ UNCHANGED <<grp, mine, heir, TARGETS, EVENTS, done, lost, userVars>>

\* sys_exit (try_exit) up to the reserve: a call whose entry was not recorded
\* is ignored, and a full ring drops the record.
SysExit(t) ==
    /\ run[t] = "kernel"
    /\ IF ENTERS[EnterKey(t)] = 0
       THEN /\ run' = [run EXCEPT ![t] = "user"]
            /\ UNCHANGED <<ENTERS, EVENTS, done, lost>>
       ELSE /\ ENTERS' = [ENTERS EXCEPT ![EnterKey(t)] = 0]
            /\ done' = [done EXCEPT ![t] = @ + 1]
            /\ IF Len(EVENTS) < RingSize
               THEN /\ EVENTS' = Append(EVENTS,
                        [tid |-> t, call |-> ENTERS[EnterKey(t)],
                         ret |-> ncall[t], state |-> "busy"])
                    /\ run' = [run EXCEPT ![t] = "submit"]
                    /\ UNCHANGED lost
               ELSE /\ run' = [run EXCEPT ![t] = "user"]
                    /\ lost' = [lost EXCEPT ![t] = @ + 1]
                    /\ UNCHANGED EVENTS
    /\ UNCHANGED <<grp, ncall, mine, heir, TARGETS, userVars>>

\* ... and its end: the record is filled in and submitted.
Submit(t) ==
    /\ run[t] = "submit"
    /\ run' = [run EXCEPT ![t] = "user"]
    /\ EVENTS' = [i \in DOMAIN EVENTS |->
                     IF EVENTS[i].tid = t THEN [EVENTS[i] EXCEPT !.state = "ready"]
                     ELSE EVENTS[i]]
    /\ UNCHANGED <<grp, ncall, mine, heir, TARGETS, ENTERS, done, lost, userVars>>

\* The kernel may give u to a new task: nobody had it yet, or those who had are
\* gone.  A group keeps the tid of its leader, and a spawned child its own until
\* waitpid has reaped it.
Free(u) ==
    /\ GroupDead(u) /\ Dead(u)
    /\ run[u] = "dead" => /\ u = Leader /\ Spawned => finished
                          /\ Cardinality({t \in Task : heir[t] # {}}) < Reuse
    /\ ncall[u] < MaxCalls

\* The call that a task returns from on a tid t that another task had before it:
\* what that one left in ENTERS is still there.
Inherits(t) == [heir EXCEPT ![t] = @ \cup {ncall[t] + 1}]

\* try_fork; slip: the two pids of the tracepoint taken for each other.
TryFork_Swapped(t, u) == IF Follow /\ IsTarget(u) THEN TargetsInsert(t) ELSE TARGETS
TryFork(t, u) == IF Follow /\ IsTarget(t) THEN TargetsInsert(u) ELSE TARGETS

\* sched_process_fork runs before the new task does.
Fork(t, u, g) ==
    /\ run[t] = "kernel"
    /\ Free(u)
    /\ g \in {u, grp[t]}
    /\ run' = [run EXCEPT ![u] = "kernel"]
    /\ grp' = [grp EXCEPT ![u] = g]
    /\ ncall' = [ncall EXCEPT ![u] = @ + 1]
    /\ mine' = IF t \in mine THEN mine \cup {u} ELSE mine \ {u}
    /\ heir' = IF run[u] = "dead" THEN Inherits(u) ELSE heir
    /\ TARGETS' = TryFork(t, u)
    /\ UNCHANGED <<ENTERS, EVENTS, done, lost, userVars>>

\* exit, exit_group or a fatal signal, whose sys_exit never comes.
Die(t) ==
    /\ run[t] \in {"user", "kernel"}
    /\ run' = [run EXCEPT ![t] = "dead"]
    /\ UNCHANGED <<grp, ncall, mine, heir, TARGETS, ENTERS, EVENTS, done, lost, userVars>>

\* The execve of a thread returns, once its siblings are dead, under the tid of
\* the group leader.
ExecTakesOver(t) ==
    LET l == grp[t] IN
    /\ ThreadExec
    /\ run[t] = "kernel" /\ l # t
    /\ \A u \in Task \ {t} : grp[u] = l => Dead(u)
    /\ run' = [run EXCEPT ![l] = "kernel", ![t] = "dead"]
    /\ ncall' = [ncall EXCEPT ![l] = @ + 1]
    /\ mine' = IF t \in mine THEN mine \cup {l} ELSE mine
    /\ heir' = Inherits(l)
    /\ UNCHANGED <<grp, TARGETS, ENTERS, EVENTS, done, lost, userVars>>

\* A task of some other program gets the tid of a dead one.
TidReused(t) ==
    /\ run[t] = "dead" /\ Free(t)
    /\ run' = [run EXCEPT ![t] = "kernel"]
    /\ grp' = [grp EXCEPT ![t] = t]
    /\ ncall' = [ncall EXCEPT ![t] = @ + 1]
    /\ mine' = mine \ {t}
    /\ heir' = Inherits(t)
    /\ UNCHANGED <<TARGETS, ENTERS, EVENTS, done, lost, userVars>>

-----------------------------------------------------------------------------
(* EbpfTracer::next_event and what it calls.                               *)

NextEvent ==
    /\ pc = "idle"
    /\ pc' = "pop"
    /\ out' = NoEvent
    /\ UNCHANGED <<kernelVars, watch, EVENTS, queue, finished, got>>

Pop ==
    /\ pc = "pop"
    /\ IF queue # <<>>
       THEN /\ out' = Head(queue)
            /\ queue' = Tail(queue)
            /\ got' = IF Head(queue).kind = "syscall"
                      THEN [got EXCEPT ![Head(queue).tid] = @ + 1] ELSE got
            /\ pc' = "idle"
       ELSE pc' = "drain" /\ UNCHANGED <<out, queue, got>>
    /\ UNCHANGED <<kernelVars, watch, EVENTS, finished>>

\* ring.next(): the oldest record, unless it is still being written.
RingReady == EVENTS # <<>> /\ Head(EVENTS).state = "ready"

\* record_to_event.
RecordToEvent(r) ==
    [kind |-> "syscall", tid |-> r.tid, call |-> r.call, ret |-> r.ret]

\* queue.push_back; slips: push_front, and a queue of one.
PushBack_Only(e) == queue' = <<e>>
PushBack_Front(e) == queue' = <<e>> \o queue
PushBack(e) == queue' = Append(queue, e)

\* drain_ring, one record at a time: the tasks go on producing.
DrainRing ==
    /\ pc \in {"drain", "drain_exit"}
    /\ RingReady
    /\ PushBack(RecordToEvent(Head(EVENTS)))
    /\ EVENTS' = Tail(EVENTS)
    /\ UNCHANGED <<kernelVars, watch, finished, pc, out, got>>

Drained ==
    /\ pc = "drain"
    /\ ~RingReady
    /\ pc' = IF queue # <<>> THEN "pop" ELSE IF finished THEN "none" ELSE "alive"
    /\ UNCHANGED <<kernelVars, watch, EVENTS, queue, finished, out, got>>

\* pid_alive: kill(pid, 0) finds a process until its last thread is dead (and
\* its parent has reaped it, which Dead includes).
PidAlive(p) == ~GroupDead(p)

\* Slip: any pid gone taken for all.
LivenessDone_Any == IF Spawned THEN GroupDead(Leader) ELSE \E p \in watch : ~PidAlive(p)

\* liveness_done: waitpid(child, WNOHANG), or pid_alive for every watched pid.
LivenessDone == IF Spawned THEN GroupDead(Leader) ELSE \A p \in watch : ~PidAlive(p)

CheckLiveness ==
    /\ pc = "alive"
    /\ pc' = IF LivenessDone THEN "drain_exit" ELSE "poll"
    /\ UNCHANGED <<kernelVars, watch, EVENTS, queue, finished, out, got>>

\* A slip: the exit is queued without draining the ring first.
EnqueueExit_NoDrain ==
    /\ pc = "drain_exit"
    /\ PushBack(ProcessExit)
    /\ finished' = TRUE
    /\ pc' = "pop"
    /\ UNCHANGED <<kernelVars, watch, EVENTS, out, got>>

\* enqueue_exit, after its drain_ring.
EnqueueExit ==
    /\ pc = "drain_exit"
    /\ ~RingReady
    /\ PushBack(ProcessExit)
    /\ finished' = TRUE
    /\ pc' = "pop"
    /\ UNCHANGED <<kernelVars, watch, EVENTS, out, got>>

\* A slip: poll without a timeout.
WaitRing_NoTimeout ==
    /\ pc = "poll"
    /\ RingReady
    /\ pc' = "pop"
    /\ UNCHANGED <<kernelVars, watch, EVENTS, queue, finished, out, got>>

\* wait_ring(100): poll returns when there is a record, or after 100 ms.
WaitRing ==
    /\ pc = "poll"
    /\ pc' = "pop"
    /\ UNCHANGED <<kernelVars, watch, EVENTS, queue, finished, out, got>>

UserStep ==
    \/ NextEvent
    \/ Pop
    \/ DrainRing
    \/ Drained
    \/ CheckLiveness
    \/ EnqueueExit
    \/ WaitRing

KernelStep ==
    \E t \in Task :
        \/ SysEnter(t)
        \/ SysExit(t)
        \/ Submit(t)
        \/ \E u \in Task, g \in Task : Fork(t, u, g)
        \/ Die(t)
        \/ ExecTakesOver(t)
        \/ TidReused(t)

\* After the last answer of next_event nothing more is looked at; and nothing
\* need happen for as long as poll waits.
Stutter == pc \in {"none", "poll"} /\ UNCHANGED vars

Next == UserStep \/ (pc # "none" /\ KernelStep) \/ Stutter

\* The caller keeps asking, and neither the loop nor poll ever blocks for good.
Fairness == WF_vars(UserStep)

Spec == Init /\ [][Next]_vars /\ Fairness

-----------------------------------------------------------------------------
(* Properties.                                                             *)

Record == [tid : Task, call : Nat, ret : Nat, state : {"busy", "ready"}]

\* The maps, the ring and the queue keep their types.
TypeOK ==
    /\ run \in [Task -> RunStates]
    /\ grp \in [Task -> Task]
    /\ ncall \in [Task -> Nat]
    /\ mine \subseteq Task
    /\ heir \in [Task -> SUBSET Nat]
    /\ TARGETS \subseteq Task
    /\ ENTERS \in [Task -> Nat]
    /\ EVENTS \in Seq(Record)
    /\ watch \subseteq Task
    /\ queue \in Seq(Event)
    /\ finished \in BOOLEAN
    /\ pc \in {"idle", "pop", "drain", "alive", "drain_exit", "poll", "none"}
    /\ out \in Event
    /\ done \in [Task -> Nat]
    /\ got \in [Task -> Nat]
    /\ lost \in [Task -> Nat]

\* Only targets ever have an entry, so ENTERS, the larger map, has room for the
\* entry of a target even when TARGETS is full: no sys_enter is dropped.
EntersHasRoom ==
    /\ EnterKeys \subseteq TARGETS
    /\ \A t \in TARGETS : t \in EnterKeys \/ Cardinality(EnterKeys) < MaxEnters

\* "pair each `sys_enter` with its `sys_exit` per task": a record joins the two
\* ends of one call, although tasks die in calls and the entry they leave in ENTERS
\* is never removed.  The one exception is the return of a clone or execve in a
\* task that has the tid of an earlier one: it finds what that one left.  All later
\* calls on the tid are paired again.
JoinsOneCall(e) == e.ret = e.call \/ e.ret \in heir[e.tid]
Paired ==
    /\ out.kind = "syscall" => JoinsOneCall(out)
    /\ \A i \in DOMAIN EVENTS : JoinsOneCall(EVENTS[i])

\* Every completed call of a traced task is in exactly one place: with the caller,
\* in the queue, in the ring, or lost because the ring had no room for it.
NothingVanishes ==
    \A t \in Task :
        done[t] = got[t] + lost[t]
                  + Cardinality({i \in DOMAIN queue :
                                    queue[i].kind = "syscall" /\ queue[i].tid = t})
                  + Cardinality({i \in DOMAIN EVENTS : EVENTS[i].tid = t})

\* Without --follow the ProcessExit of a single traced process comes after every
\* record of its that the ring did not drop: nothing is delivered behind it or
\* left over.
ExitIsLast ==
    /\ ~Follow /\ Target = {Leader}
    /\ out.kind = "exit" \/ pc = "none"
    => got[Leader] + lost[Leader] = done[Leader]

\* "with it, every descendant task is added as it is created": a task that descends
\* from the target, also one with the tid of an earlier task or with that of its
\* leader since an execve, is traced unless TARGETS is full.  The threads and
\* children that a process had when it was attached to are not, nor what descends
\* from them.
TracedUnlessFull ==
    Follow => \A t \in mine : t \in TARGETS \/ Cardinality(TARGETS) = MaxTargets

\* "returns `Ok(None)` once every traced task has exited".
NoneMeansAllExited == pc = "none" => \A t \in mine \cap TARGETS : Dead(t)

\* When the traced process (or every process attached to) is dead for good,
\* next_event comes to its end: also when no record will ever wake poll up.
EndsAfterExit == <>[](\A p \in Target : GroupDead(p)) => <>(pc = "none")
=============================================================================
