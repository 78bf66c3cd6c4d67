---------------------------- MODULE StartupProofs ----------------------------
(***************************************************************************)
(* Proofs about Startup, for any set of pids and any faults.               *)
(***************************************************************************)
EXTENDS Startup, FiniteSetTheorems, TLAPS

Early == {"build", "filter", "tracer", "ebpf", "ebpf_load", "ebpf_programs",
          "ebpf_spawn", "ebpf_fork", "ebpf_attach"}

\* Before the first fork or attach nothing has happened to anyone.
Untouched ==
    /\ \A k \in Kids : kid[k] = "none"
    /\ ran = {} /\ blind = {} /\ traced = {} /\ killed = {}
    /\ armed = FALSE
    /\ todo = cli.pids
EarlyInv == pc \in Early \cup {"refused"} => Untouched

\* Past build_target there is a COMMAND or there are pids, and not both.
TargetInv ==
    /\ pc \notin {"build", "refused"} => cli.command = (cli.pids = {})
    /\ pc \in {"ebpf_spawn", "ebpf_fork"} => cli.command = TRUE
    /\ pc = "ebpf_attach" => cli.command = FALSE

\* Children are forked for a COMMAND only, that of ptrace after the fallback.
KidInv ==
    /\ ~cli.command => (kid["ebpf"] = "none" /\ kid["ptrace"] = "none")
    /\ kid["ebpf"] = "blocked" <=> pc \in {"ebpf_arm", "ebpf_release"}
    /\ kid["ptrace"] # "none" => pc \in {"ptrace_wait", "output", "tracing", "failed"}
    /\ kid["ebpf"] # "stopped"
    /\ \A k \in ran : kid[k] \in {"running", "dead"}

\* A child of ptrace that has stopped is traced; one that was let go on after its
\* stop has run the COMMAND, traced until it is dead.
PtraceInv ==
    /\ "ptrace" \in traced => kid["ptrace"] # "none"
    /\ kid["ptrace"] = "stopped" => "ptrace" \in traced
    /\ pc \in {"output", "tracing"} /\ kid["ptrace"] # "none"
       => /\ "ptrace" \in ran
          /\ kid["ptrace"] = "dead" \/ (kid["ptrace"] = "running" /\ "ptrace" \in traced)

\* Whoever is armed does not fall back.
ArmedInv ==
    armed = TRUE => /\ pc \in {"ebpf_release", "output", "tracing", "failed"}
                    /\ kid["ptrace"] = "none"

\* Without a COMMAND the pids are traced one by one.
AttachInv ==
    /\ ~cli.command => traced \subseteq cli.pids
    /\ ~cli.command /\ pc = "ptrace" => traced \cup todo = cli.pids
    /\ ~cli.command /\ pc \in {"output", "tracing"} => armed = TRUE \/ traced = cli.pids

\* With one, there is a child of one backend or of the other to trace.
SpawnInv ==
    cli.command /\ pc \in {"output", "tracing"} => armed = TRUE \/ kid["ptrace"] # "none"

\* A program that runs was armed or stopped at its execve, or else it began blind:
\* whoever waits for that one does not go on to trace it.
BlindInv ==
    /\ blind \subseteq ran
    /\ armed = TRUE => "ebpf" \notin blind
    /\ armed = TRUE /\ cli.command => kid["ebpf"] # "none"
    /\ pc \in {"output", "tracing"} => "ptrace" \notin blind

SInv ==
    /\ TypeOK
    /\ EarlyInv
    /\ TargetInv
    /\ KidInv
    /\ PtraceInv
    /\ ArmedInv
    /\ AttachInv
    /\ SpawnInv
    /\ BlindInv

-----------------------------------------------------------------------------
\* The types, spelt out for Booleans and records.
LEMMA Types ==
    ASSUME TypeOK
    PROVE  /\ cli.command \in BOOLEAN /\ cli.pids \subseteq Pids
           /\ cli.backend \in {"ebpf", "ptrace"}
           /\ kid \in [Kids -> KidStates]
BY DEF TypeOK, Cli

\* A child that changes its state is still a child, and the other one is as it was.
LEMMA KidChanges ==
    ASSUME NEW f \in [Kids -> KidStates], NEW k \in Kids, NEW s \in KidStates
    PROVE  /\ [f EXCEPT ![k] = s] \in [Kids -> KidStates]
           /\ [f EXCEPT ![k] = s][k] = s
           /\ \A j \in Kids \ {k} : [f EXCEPT ![k] = s][j] = f[j]
OBVIOUS

\* A step of the parent up to the first fork keeps everybody untouched.
LEMMA EarlyStep ==
    ASSUME SInv,
           BuildTarget \/ BuildFilter \/ NewTracer \/ EbpfProbe \/ EbpfLoad
           \/ AttachTracepoint \/ ResolveProgram
    PROVE  SInv'
<1>1. /\ UNCHANGED <<cli, kid, armed, todo, traced, ran, blind, killed>>
      /\ pc \in Early
      /\ pc' \in (Early \ {"build"}) \cup {"refused", "failed", "ptrace"}
      /\ pc' # "refused" => cli.command = (cli.pids = {})
      /\ pc' \in {"ebpf_spawn", "ebpf_fork"} => cli.command = TRUE
      /\ pc' = "ebpf_attach" => cli.command = FALSE
  <2>1. TypeOK /\ TargetInv
    BY DEF SInv
  <2>2. CASE BuildTarget
    BY <2>1, <2>2, Types DEF BuildTarget, Goto, Early
  <2>3. CASE BuildFilter
    BY <2>1, <2>3 DEF BuildFilter, Goto, Early, TargetInv
  <2>4. CASE NewTracer
    BY <2>1, <2>4, Types DEF NewTracer, FallBack, Goto, Early, TargetInv
  <2>5. CASE EbpfProbe \/ EbpfLoad \/ AttachTracepoint \/ ResolveProgram
    BY <2>1, <2>5 DEF EbpfProbe, EbpfLoad, AttachTracepoint, ResolveProgram, FallBack,
                      Goto, Early, TargetInv
  <2> QED
    BY <2>2, <2>3, <2>4, <2>5
<1>2. Untouched
  BY <1>1 DEF SInv, EarlyInv
<1>3. Untouched'
  BY <1>1, <1>2 DEF Untouched
<1>4. TypeOK'
  BY <1>1 DEF SInv, TypeOK, Early
<1>5. EarlyInv' /\ TargetInv'
  BY <1>1, <1>3 DEF EarlyInv, TargetInv
<1>6. KidInv' /\ PtraceInv' /\ ArmedInv' /\ AttachInv' /\ SpawnInv' /\ BlindInv'
  BY <1>1, <1>2 DEF Untouched, Kids, Early, KidInv, PtraceInv, ArmedInv, AttachInv, SpawnInv,
                    BlindInv
<1> QED
  BY <1>4, <1>5, <1>6 DEF SInv

\* EbpfTracer::new from its fork on.
LEMMA EbpfStep ==
    ASSUME SInv, EbpfFork \/ EbpfArm \/ EbpfRelease \/ EbpfAttach
    PROVE  SInv'
<1> USE Types, StartupAssumption DEF SInv, TypeOK, EarlyInv, TargetInv, KidInv, PtraceInv, ArmedInv, AttachInv,
            SpawnInv, BlindInv, Early, Untouched, Kids, KidStates, Goto, FallBack
<1>1. CASE EbpfFork
  <2>1. /\ pc = "ebpf_fork" /\ UNCHANGED <<cli, armed, todo, traced, ran, blind, killed>>
        /\ \/ pc' = "ebpf_arm" /\ kid' = [kid EXCEPT !["ebpf"] = "blocked"]
           \/ pc' = "failed" /\ kid' = kid
    BY <1>1 DEF EbpfFork
  <2>2. kid' = [kid EXCEPT !["ebpf"] = "blocked"] =>
          kid' \in [Kids -> KidStates] /\ kid'["ebpf"] = "blocked" /\ kid'["ptrace"] = "none"
    BY <2>1, KidChanges
  <2>3. cli.command
    BY <2>1
  <2> QED
    BY <2>1, <2>2, <2>3
<1>2. CASE EbpfArm
  BY <1>2 DEF EbpfArm
<1>3. CASE EbpfRelease
  BY <1>3 DEF EbpfRelease
<1>4. CASE EbpfAttach
  BY <1>4 DEF EbpfAttach
<1> QED
  BY <1>1, <1>2, <1>3, <1>4

\* PtraceTracer::new, and open_output.
LEMMA PtraceStep ==
    ASSUME SInv, PtraceFork \/ PtraceWait \/ PtraceAttach \/ OpenOutput
    PROVE  SInv'
<1> USE Types, StartupAssumption DEF SInv, TypeOK, EarlyInv, TargetInv, KidInv, PtraceInv, ArmedInv, AttachInv,
            SpawnInv, BlindInv, Early, Untouched, Kids, KidStates, Goto
<1>1. CASE PtraceFork
  <2>1. /\ pc = "ptrace" /\ cli.command
        /\ UNCHANGED <<cli, armed, todo, traced, ran, blind, killed>>
        /\ \/ pc' = "ptrace_wait" /\ kid' = [kid EXCEPT !["ptrace"] = "forked"]
           \/ pc' = "failed" /\ kid' = kid
    BY <1>1 DEF PtraceFork
  <2>2. kid' = [kid EXCEPT !["ptrace"] = "forked"] =>
          /\ kid' \in [Kids -> KidStates]
          /\ kid'["ptrace"] = "forked" /\ kid'["ebpf"] = kid["ebpf"]
    BY <2>1, KidChanges
  <2> QED
    BY <2>1, <2>2
<1>2. CASE PtraceWait
  <2>1. CASE kid["ptrace"] = "dead"
    BY <1>2, <2>1 DEF PtraceWait
  <2>2. CASE kid["ptrace"] = "stopped"
    <3>1. /\ pc = "ptrace_wait" /\ UNCHANGED <<cli, armed, todo, killed>>
          /\ kid' = [kid EXCEPT !["ptrace"] = "running"]
          /\ ran' = ran \cup {"ptrace"}
          /\ \/ pc' = "output" /\ traced' = traced
                /\ blind' = blind
             \/ pc' = "failed" /\ traced' = traced \ {"ptrace"}
                /\ blind' = blind \cup {"ptrace"}
      BY <1>2, <2>2 DEF PtraceWait
    <3>2. /\ kid' \in [Kids -> KidStates]
          /\ kid'["ptrace"] = "running" /\ kid'["ebpf"] = kid["ebpf"]
      BY <3>1, KidChanges
    <3> QED
      BY <2>2, <3>1, <3>2
  <2> QED
    BY <1>2, <2>1, <2>2 DEF PtraceWait
<1>3. CASE PtraceAttach
  BY <1>3 DEF PtraceAttach
<1>4. CASE OpenOutput
  <2>1. CASE pc' = "tracing"
    BY <1>4, <2>1 DEF OpenOutput
  <2>2. CASE pc' = "failed"
    <3>1. /\ pc = "output" /\ UNCHANGED <<cli, armed, todo, ran, blind>>
          /\ killed' = traced \cap Pids /\ traced' = {}
          /\ kid' = [k \in Kids |-> IF k \in traced THEN "dead" ELSE kid[k]]
      BY <1>4, <2>2 DEF OpenOutput, TakeAlong
    <3>2. /\ kid' \in [Kids -> KidStates]
          /\ \A k \in Kids : kid'[k] \in {"dead", kid[k]}
      BY <3>1
    <3>3. kid["ptrace"] \in {"none", "running", "dead"}
      BY <3>1
    <3>4. kid["ptrace"] = "none" => "ptrace" \notin traced
      BY <3>1 DEF PtraceInv
    <3> QED
      BY <2>2, <3>1, <3>2, <3>3, <3>4
  <2> QED
    BY <1>4, <2>1, <2>2 DEF OpenOutput
<1> QED
  BY <1>1, <1>2, <1>3, <1>4

\* What the children do.
LEMMA ChildStep ==
    ASSUME SInv, Children
    PROVE  SInv'
<1> USE Types, StartupAssumption DEF SInv, TypeOK, EarlyInv, TargetInv, KidInv, PtraceInv, ArmedInv, AttachInv,
            SpawnInv, BlindInv, Early, Untouched, Kids, KidStates
<1>1. ASSUME NEW k \in Kids, ChildExec(k)
      PROVE  SInv'
  <2>1. /\ kid[k] = "forked" /\ UNCHANGED <<cli, pc, armed, todo, killed>>
        /\ \/ /\ k = "ptrace" /\ kid' = [kid EXCEPT ![k] = "stopped"]
              /\ traced' = traced \cup {k} /\ ran' = ran /\ blind' = blind
           \/ /\ kid' = [kid EXCEPT ![k] = "running"]
              /\ traced' = traced /\ ran' = ran \cup {k}
              /\ blind' = IF k = "ebpf" /\ armed THEN blind ELSE blind \cup {k}
           \/ /\ kid' = [kid EXCEPT ![k] = "dead"]
              /\ traced' = traced /\ ran' = ran /\ blind' = blind
    BY <1>1 DEF ChildExec
  <2>2. /\ kid' \in [Kids -> KidStates]
        /\ \A j \in Kids \ {k} : kid'[j] = kid[j]
        /\ kid'[k] \in {"stopped", "running", "dead"}
        /\ ran' # ran => kid'[k] = "running"
        /\ kid'[k] = "stopped" => k = "ptrace" /\ k \in traced'
    <3>1. \A s \in KidStates : kid' = [kid EXCEPT ![k] = s] =>
            /\ kid' \in [Kids -> KidStates] /\ kid'[k] = s
            /\ \A j \in Kids \ {k} : kid'[j] = kid[j]
      BY KidChanges
    <3> QED
      BY <2>1, <3>1
  <2>3. /\ cli.command
        /\ pc \notin Early \cup {"refused", "ebpf_arm", "ebpf_release"} \/ k # "ptrace"
    BY <2>1
  <2>4. TypeOK' /\ EarlyInv' /\ TargetInv' /\ KidInv'
    BY <2>1, <2>2, <2>3
  <2>5. PtraceInv' /\ ArmedInv'
    <3>1. CASE k = "ebpf"
      BY <2>1, <2>2, <3>1
    <3>2. CASE k = "ptrace"
      <4>1. pc \in {"ptrace_wait", "failed"} /\ armed # TRUE
        BY <2>1, <3>2
      <4> QED
        BY <2>1, <2>2, <3>2, <4>1
    <3> QED
      BY <3>1, <3>2
  <2>6. AttachInv' /\ SpawnInv'
    BY <2>1, <2>2, <2>3
  <2>7. BlindInv'
    BY <2>1, <2>2, <2>3
  <2> QED
    BY <2>4, <2>5, <2>6, <2>7
<1>2. ASSUME NEW k \in Kids, ChildExit(k)
      PROVE  SInv'
  BY <1>2 DEF ChildExit
<1> QED
  BY <1>1, <1>2 DEF Children

\* The invariant holds in the beginning and is kept by every step.
THEOREM Invariance == Spec => []SInv
<1>1. Init => SInv
  BY DEF Init, SInv, TypeOK, Cli, EarlyInv, TargetInv, KidInv, PtraceInv, ArmedInv,
         AttachInv, SpawnInv, BlindInv, Untouched, Early, Kids, KidStates
<1>2. SInv /\ [Next]_vars => SInv'
  <2> SUFFICES ASSUME SInv, [Next]_vars PROVE SInv'
    OBVIOUS
  <2>1. CASE UNCHANGED vars
    BY <2>1 DEF vars, SInv, TypeOK, EarlyInv, TargetInv, KidInv, PtraceInv, ArmedInv,
                AttachInv, SpawnInv, BlindInv, Untouched
  <2>2. CASE Parent
    BY <2>2, EarlyStep, EbpfStep, PtraceStep DEF Parent
  <2>3. CASE Children
    BY <2>3, ChildStep
  <2> QED
    BY <2>1, <2>2, <2>3 DEF Next, Stutter
<1> QED
  BY <1>1, <1>2, PTL DEF Spec

\* Type correctness of the start-up: in particular `killed` holds pids only, and
\* no child is ever in a state that fork did not put it in.
THEOREM TypeCorrect == Spec => []TypeOK
BY Invariance, PTL DEF SInv

\* Whatever fails and falls back, the COMMAND runs a second time only if arming
\* failed.
THEOREM RunsOnceHolds == Spec => []RunsOnceIfArmed
<1>1. SInv => RunsOnceIfArmed
  <2> SUFFICES ASSUME SInv, Cardinality(ran) > 1, armed
               PROVE  FALSE
    BY DEF RunsOnceIfArmed
  <2>1. "ptrace" \notin ran
    BY DEF SInv, TypeOK, ArmedInv, KidInv
  <2>2. ran \subseteq {"ebpf"}
    BY <2>1 DEF SInv, TypeOK, Kids
  <2>3. Cardinality({"ebpf"}) = 1 /\ IsFiniteSet({"ebpf"})
    BY FS_Singleton
  <2>4. IsFiniteSet(ran) /\ Cardinality(ran) <= 1
    BY <2>2, <2>3, FS_Subset
  <2>5. Cardinality(ran) \in Nat
    BY <2>4, FS_CardinalityType
  <2> QED
    BY <2>4, <2>5
<1> QED
  BY <1>1, Invariance, PTL

\* No child is left behind blocked on its pipe.
THEOREM NoChildBlockedHolds == Spec => []NoChildBlocked
<1>1. SInv => NoChildBlocked
  BY DEF SInv, KidInv, NoChildBlocked, Ended
<1> QED
  BY <1>1, Invariance, PTL

\* When the loop begins, the target is under the control of one backend, and a
\* program that was spawned has been from its first instruction on.
THEOREM SuccessMeansTracedHolds == Spec => []SuccessMeansTraced
<1>1. SInv => SuccessMeansTraced
  BY Types DEF SInv, TypeOK, TargetInv, KidInv, PtraceInv, ArmedInv, AttachInv, SpawnInv,
               BlindInv, SuccessMeansTraced
<1> QED
  BY <1>1, Invariance, PTL

\* Options are refused before anything has happened to anyone.
THEOREM BadOptionsHarmlessHolds == Spec => []BadOptionsHarmless
<1>1. SInv => BadOptionsHarmless
  BY DEF SInv, EarlyInv, Untouched, Kids, BadOptionsHarmless
<1> QED
  BY <1>1, Invariance, PTL
=============================================================================
