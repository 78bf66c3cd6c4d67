------------------------------ MODULE Startup ------------------------------
(***************************************************************************)
(* How syren comes to trace something: fn run up to its loop, with         *)
(* build_target, build_tracer and open_output (crates/syren-cli/src/       *)
(* main.rs), tracer (crates/syren-trace/src/lib.rs) and the constructors   *)
(* of the two backends, EbpfTracer::new (ebpf.rs) and PtraceTracer::new    *)
(* (ptrace.rs), with the fallback from the first to the second.  Parent    *)
(* and child run concurrently; every call of the parent that can fail may  *)
(* fail, as far as Faults allows.                                          *)
(***************************************************************************)
EXTENDS Naturals, FiniteSets

CONSTANTS Pids,   \* the pids that may be given with -p
          Faults  \* what may go wrong

AllFaults == {"feature", "probe", "load", "programs", "resolve", "fork", "arm",
              "traceme", "exec", "attach", "setoptions", "filter", "output",
              "stderr"}

Kids == {"ebpf", "ptrace"}

\* A child that syren forks has none of the pids given to it.
ASSUME StartupAssumption == Faults \subseteq AllFaults /\ Pids \cap Kids = {}

VARIABLES cli,     \* the invocation: backend, pids, whether there is a COMMAND
          pc,      \* where the parent is
          kid,     \* the child forked by each backend
          armed,   \* whether TARGETS holds the tids of the target
          todo,    \* pids still to be attached to
          traced,  \* the pids and children under ptrace
          killed,  \* the pids that syren took with it when it failed
          ran,     \* history: the children that came to run the COMMAND
          blind    \* history: those that began to when nobody traced them

vars == <<cli, pc, kid, armed, todo, traced, killed, ran, blind>>

Cli == [backend : {"ebpf", "ptrace"}, pids : SUBSET Pids, command : BOOLEAN]
KidStates == {"none", "blocked", "forked", "stopped", "running", "dead"}

Init ==
    /\ cli \in Cli
    /\ pc = "build"
    /\ kid = [k \in Kids |-> "none"]
    /\ armed = FALSE
    /\ todo = cli.pids
    /\ traced = {}
    /\ killed = {}
    /\ ran = {}
    /\ blind = {}

Goto(l) == pc' = l
Ended == pc \in {"tracing", "failed", "refused"}

\* build_target: exactly one of -p and COMMAND.
BuildTarget ==
    /\ pc = "build"
    /\ Goto(IF cli.command = (cli.pids # {}) THEN "refused" ELSE "filter")
    /\ UNCHANGED <<cli, kid, armed, todo, traced, ran, blind, killed>>

\* Filter::from_exprs: -e may make no sense.
BuildFilter ==
    /\ pc = "filter"
    /\ \/ Goto("tracer")
       \/ "filter" \in Faults /\ Goto("refused")
    /\ UNCHANGED <<cli, kid, armed, todo, traced, ran, blind, killed>>

\* build_tracer: EbpfUnsupported and BackendUnavailable fall back to ptrace,
\* any other error is final.  eprintln! panics if nobody has stderr open.
FallBack == Goto("ptrace") \/ ("stderr" \in Faults /\ Goto("failed"))

\* tracer: the backend may not be compiled in.
NewTracer ==
    /\ pc = "tracer"
    /\ \/ Goto(cli.backend)
       \/ "feature" \in Faults /\ cli.backend = "ebpf" /\ FallBack
    /\ UNCHANGED <<cli, kid, armed, todo, traced, ran, blind, killed>>

-----------------------------------------------------------------------------
(* EbpfTracer::new.                                                        *)

\* probe: the kernel has BTF and the user is root or has CAP_BPF.
EbpfProbe ==
    /\ pc = "ebpf"
    /\ \/ Goto("ebpf_load")
       \/ "probe" \in Faults /\ FallBack
    /\ UNCHANGED <<cli, kid, armed, todo, traced, ran, blind, killed>>

\* Loading the object: a failure is EbpfUnsupported ...
EbpfLoad ==
    /\ pc = "ebpf_load"
    /\ \/ Goto("ebpf_programs")
       \/ "load" \in Faults /\ FallBack
    /\ UNCHANGED <<cli, kid, armed, todo, traced, ran, blind, killed>>

\* ... as it is in attach_tracepoint, called two or three times, and in
\* populate_patharg and taking the ring, which follow.
AttachTracepoint ==
    /\ pc = "ebpf_programs"
    /\ \/ Goto(IF cli.command THEN "ebpf_spawn" ELSE "ebpf_attach")
       \/ "programs" \in Faults /\ FallBack
    /\ UNCHANGED <<cli, kid, armed, todo, traced, ran, blind, killed>>

\* resolve_program: a COMMAND that cannot be found is a Spawn error.
ResolveProgram ==
    /\ pc = "ebpf_spawn"
    /\ \/ Goto("ebpf_fork")
       \/ "resolve" \in Faults /\ Goto("failed")
    /\ UNCHANGED <<cli, kid, armed, todo, traced, ran, blind, killed>>

\* A slip: the read of the child comes back at once.
EbpfFork_NoRead ==
    /\ pc = "ebpf_fork"
    /\ \/ Goto("ebpf_arm") /\ kid' = [kid EXCEPT !["ebpf"] = "forked"]
       \/ "fork" \in Faults /\ Goto("failed") /\ UNCHANGED kid
    /\ UNCHANGED <<cli, armed, todo, traced, ran, blind, killed>>

\* spawn up to the fork; the child blocks on the pipe.
EbpfFork ==
    /\ pc = "ebpf_fork"
    /\ \/ Goto("ebpf_arm") /\ kid' = [kid EXCEPT !["ebpf"] = "blocked"]
       \/ "fork" \in Faults /\ Goto("failed") /\ UNCHANGED kid
    /\ UNCHANGED <<cli, armed, todo, traced, ran, blind, killed>>

\* arm; a failure is looked at only after the child has been released.
EbpfArm ==
    /\ pc = "ebpf_arm"
    /\ Goto("ebpf_release")
    /\ \/ armed' = TRUE
       \/ "arm" \in Faults /\ armed' = FALSE
    /\ UNCHANGED <<cli, kid, todo, traced, ran, blind, killed>>

\* A slip: `armed?` before the write to the pipe.
EbpfRelease_Early ==
    /\ pc = "ebpf_release"
    /\ IF armed THEN Goto("output") /\ kid' = [kid EXCEPT !["ebpf"] = "forked"]
       ELSE FallBack /\ UNCHANGED kid
    /\ UNCHANGED <<cli, armed, todo, traced, ran, blind, killed>>

\* A slip: an error whether or not arm gave one.
EbpfRelease_Fails ==
    /\ pc = "ebpf_release"
    /\ kid' = [kid EXCEPT !["ebpf"] = "forked"]
    /\ FallBack
    /\ UNCHANGED <<cli, armed, todo, traced, ran, blind, killed>>

\* write(write_fd), then `armed?`.
EbpfRelease ==
    /\ pc = "ebpf_release"
    /\ kid' = [kid EXCEPT !["ebpf"] = "forked"]
    /\ IF armed THEN Goto("output") ELSE FallBack
    /\ UNCHANGED <<cli, armed, todo, traced, ran, blind, killed>>

EbpfAttach ==
    /\ pc = "ebpf_attach"
    /\ \/ armed' = TRUE /\ Goto("output")
       \/ "arm" \in Faults /\ FallBack /\ UNCHANGED armed
    /\ UNCHANGED <<cli, kid, todo, traced, ran, blind, killed>>

-----------------------------------------------------------------------------
(* PtraceTracer::new.                                                      *)

PtraceFork ==
    /\ pc = "ptrace" /\ cli.command
    /\ \/ Goto("ptrace_wait") /\ kid' = [kid EXCEPT !["ptrace"] = "forked"]
       \/ "fork" \in Faults /\ Goto("failed") /\ UNCHANGED kid
    /\ UNCHANGED <<cli, armed, todo, traced, ran, blind, killed>>

\* A slip: only the exec stop is waited for.
PtraceWait_StopOnly ==
    /\ pc = "ptrace_wait"
    /\ kid["ptrace"] = "stopped"
    /\ Goto("output")
    /\ kid' = [kid EXCEPT !["ptrace"] = "running"]
    /\ ran' = ran \cup {"ptrace"}
    /\ UNCHANGED <<cli, armed, todo, traced, killed, blind>>

\* waitpid(child): an exited child could not be run; a stopped one is
\* configured and resumed.  With its tracer gone a child that could not be
\* configured runs on, untraced.
PtraceWait ==
    /\ pc = "ptrace_wait"
    /\ \/ /\ kid["ptrace"] = "dead"
          /\ Goto("failed")
          /\ UNCHANGED <<kid, traced, ran, blind>>
       \/ /\ kid["ptrace"] = "stopped"
          /\ kid' = [kid EXCEPT !["ptrace"] = "running"]
          /\ ran' = ran \cup {"ptrace"}
          /\ \/ Goto("output") /\ UNCHANGED <<traced, blind>>
             \/ /\ "setoptions" \in Faults
                /\ Goto("failed")
                /\ traced' = traced \ {"ptrace"}
                /\ blind' = blind \cup {"ptrace"}
    /\ UNCHANGED <<cli, armed, todo, killed>>

\* One round of the attach loop: attach, waitpid, configure, resume, each with
\* `?`.  The pids attached to before are configured with EXITKILL.
PtraceAttach ==
    /\ pc = "ptrace" /\ ~cli.command
    /\ IF todo = {} THEN Goto("output") /\ UNCHANGED <<todo, traced, killed>>
       ELSE \E p \in todo :
              \/ /\ todo' = todo \ {p}
                 /\ traced' = traced \cup {p}
                 /\ UNCHANGED <<pc, killed>>
              \/ /\ Faults \cap {"attach", "setoptions"} # {}
                 /\ Goto("failed")
                 /\ killed' = traced
                 /\ traced' = {}
                 /\ UNCHANGED todo
    /\ UNCHANGED <<cli, kid, armed, ran, blind>>

-----------------------------------------------------------------------------
(* Back in run.                                                            *)

\* syren exits while it traces: PTRACE_O_EXITKILL.
TakeAlong ==
    /\ killed' = traced \cap Pids
    /\ kid' = [k \in Kids |-> IF k \in traced THEN "dead" ELSE kid[k]]
    /\ traced' = {}

\* Slip: -e is looked at when the output is opened.
OpenOutput_Filter ==
    /\ pc = "output"
    /\ \/ Goto("tracing") /\ UNCHANGED <<kid, traced, killed>>
       \/ "output" \in Faults /\ Goto("failed") /\ TakeAlong
       \/ "filter" \in Faults /\ Goto("refused") /\ TakeAlong
    /\ UNCHANGED <<cli, armed, todo, ran, blind>>

\* open_output: the file is created only now that the target is being traced.
OpenOutput ==
    /\ pc = "output"
    /\ \/ Goto("tracing") /\ UNCHANGED <<kid, traced, killed>>
       \/ "output" \in Faults /\ Goto("failed") /\ TakeAlong
    /\ UNCHANGED <<cli, armed, todo, ran, blind>>

-----------------------------------------------------------------------------
(* The children.                                                           *)

\* The forked child: traceme (ptrace only, its failure ignored) and execvp,
\* which stops a traced child before its first instruction.
ChildExec(k) ==
    /\ kid[k] = "forked"
    /\ \/ /\ k = "ptrace"
          /\ kid' = [kid EXCEPT ![k] = "stopped"]
          /\ traced' = traced \cup {k}
          /\ UNCHANGED <<ran, blind>>
       \/ /\ k = "ebpf" \/ "traceme" \in Faults
          /\ kid' = [kid EXCEPT ![k] = "running"]
          /\ ran' = ran \cup {k}
          /\ blind' = IF k = "ebpf" /\ armed THEN blind ELSE blind \cup {k}
          /\ UNCHANGED traced
       \/ /\ "exec" \in Faults
          /\ kid' = [kid EXCEPT ![k] = "dead"]
          /\ UNCHANGED <<traced, ran, blind>>
    /\ UNCHANGED <<cli, pc, armed, todo, killed>>

\* The program runs to its end.
ChildExit(k) ==
    /\ kid[k] = "running"
    /\ kid' = [kid EXCEPT ![k] = "dead"]
    /\ traced' = traced \ {k}
    /\ UNCHANGED <<cli, pc, armed, todo, ran, blind, killed>>

Parent ==
    \/ BuildTarget
    \/ BuildFilter
    \/ NewTracer
    \/ EbpfProbe
    \/ EbpfLoad
    \/ AttachTracepoint
    \/ ResolveProgram
    \/ EbpfFork
    \/ EbpfArm
    \/ EbpfRelease
    \/ EbpfAttach
    \/ PtraceFork
    \/ PtraceWait
    \/ PtraceAttach
    \/ OpenOutput

Children == \E k \in Kids : ChildExec(k) \/ ChildExit(k)

\* The start is over, or waitpid waits for the child.
Stutter == (Ended \/ pc = "ptrace_wait") /\ UNCHANGED vars

Next == Parent \/ Children \/ Stutter

\* Parent and children are processes the system schedules.  A forked child comes
\* to its execvp; the program it then runs need not end.
Fairness == WF_vars(Parent) /\ \A k \in Kids : WF_vars(ChildExec(k))

Spec == Init /\ [][Next]_vars /\ Fairness

-----------------------------------------------------------------------------
(* Properties.                                                             *)

\* The parent is at one of its calls and each child in one of its states: no
\* child that fork failed to create is ever handed on.
TypeOK ==
    /\ cli \in Cli
    /\ pc \in {"build", "filter", "tracer", "ebpf", "ebpf_load", "ebpf_programs",
               "ebpf_spawn", "ebpf_fork", "ebpf_arm", "ebpf_release", "ebpf_attach",
               "ptrace", "ptrace_wait", "output", "tracing", "failed", "refused"}
    /\ kid \in [Kids -> KidStates]
    /\ armed \in BOOLEAN
    /\ todo \subseteq Pids
    /\ traced \subseteq Pids \cup Kids
    /\ killed \subseteq Pids
    /\ ran \subseteq Kids
    /\ blind \subseteq Kids

\* The COMMAND is run at most once, whatever backend is asked for and whatever
\* falls back: "`--backend ebpf` is always safe to ask for".
RunsOnce == Cardinality(ran) <= 1

\* The same but for a child released although arming failed: no other failure and
\* no other fallback runs the command again.
RunsOnceIfArmed == Cardinality(ran) > 1 => ~armed

\* A child never stays behind blocked on the pipe, even if arming failed.
NoChildBlocked == Ended => kid["ebpf"] # "blocked"

\* Success means that the target is under the control of one backend, and a
\* spawned program from its first instruction on: with ptrace it was stopped at its
\* execve and is traced until it is dead, with eBPF it did not get there before its
\* tid was armed.  Of the two children of a fallback this is the second.
SuccessMeansTraced ==
    pc = "tracing" =>
        \/ cli.pids # {} /\ (armed \/ traced = cli.pids)
        \/ /\ kid["ptrace"] # "none"
           /\ "ptrace" \in ran \ blind
           /\ kid["ptrace"] = "dead" \/ "ptrace" \in traced
        \/ kid["ptrace"] = "none" /\ kid["ebpf"] # "none" /\ armed /\ "ebpf" \notin blind

\* Options that make no sense are turned down before anything has happened: no
\* command has run, no process was stopped, traced or killed.
BadOptionsHarmless ==
    pc = "refused" => ran = {} /\ traced = {} /\ killed = {} /\ kid["ebpf"] = "none"
                      /\ kid["ptrace"] = "none"

\* Starting up comes to an end: tracing, or an error.  The one exception is a
\* child whose traceme failed: waitpid then waits for the program to end, which it
\* need not.
Decides ==
    \/ <>Ended
    \/ <>[](pc = "ptrace_wait" /\ "ptrace" \in blind /\ kid["ptrace"] = "running")
=============================================================================
