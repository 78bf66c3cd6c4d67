-------------------------- MODULE EbpfTracerProofs --------------------------
(***************************************************************************)
(* Proofs about EbpfTracer, for any number of tasks and any sizes of the   *)
(* maps and of the ring with MaxTargets <= MaxEnters, tids reused or not;  *)
(* and that the backend implements TraceStream, the contract of Tracer.    *)
(***************************************************************************)
EXTENDS EbpfStream, FiniteSetTheorems, SequenceTheorems, TLAPS

\* Entries are made for targets only, and TARGETS never exceeds its size.
MapInv ==
    /\ EnterKeys \subseteq TARGETS
    /\ Cardinality(TARGETS) <= MaxTargets

-----------------------------------------------------------------------------
(* Types.                                                                  *)

\* The event of no call and the exit of the leader are events.
LEMMA EventTypes == NoEvent \in Event /\ ProcessExit \in Event
BY EbpfAssumption DEF NoEvent, ProcessExit, Event

\* A counter per tid that goes up by one stays one.
LEMMA CountType ==
    ASSUME NEW f \in [Task -> Nat], NEW t \in Task
    PROVE  [f EXCEPT ![t] = @ + 1] \in [Task -> Nat]
OBVIOUS

\* A map insert, done or refused, leaves ENTERS a map from tids to calls.
LEMMA EntersInsertType ==
    ASSUME TypeOK, NEW t \in Task, NEW k \in Nat
    PROVE  EntersInsert(t, k) \in [Task -> Nat]
BY DEF TypeOK, EntersInsert

\* A map insert, done or refused, leaves TARGETS a set of tids.
LEMMA TargetsInsertType ==
    ASSUME TypeOK, NEW u \in Task
    PROVE  TargetsInsert(u) \subseteq Task
BY DEF TypeOK, TargetsInsert

\* A tid that is handed on leaves `heir` a set of calls per tid.
LEMMA InheritsType ==
    ASSUME TypeOK, NEW t \in Task
    PROVE  Inherits(t) \in [Task -> SUBSET Nat]
<1>1. ncall[t] + 1 \in Nat /\ heir \in [Task -> SUBSET Nat]
  BY DEF TypeOK
<1>2. heir[t] \cup {ncall[t] + 1} \in SUBSET Nat
  BY <1>1
<1> QED
  BY <1>1, <1>2 DEF Inherits

\* What the tasks and the in-kernel programs do preserves the types.
LEMMA KernelStepType ==
    ASSUME TypeOK, KernelStep
    PROVE  TypeOK'
<1> USE DEF TypeOK, userVars, RunStates
<1>1. PICK t \in Task :
        \/ SysEnter(t)
        \/ SysExit(t)
        \/ Submit(t)
        \/ \E u \in Task, g \in Task : Fork(t, u, g)
        \/ Die(t)
        \/ ExecTakesOver(t)
        \/ TidReused(t)
  BY DEF KernelStep
<1>2. CASE SysEnter(t)
  <2>1. ncall[t] + 1 \in Nat
    OBVIOUS
  <2>2. ENTERS' \in [Task -> Nat]
    BY <1>2, <2>1, EntersInsertType DEF SysEnter, EnterKey
  <2> QED
    BY <1>2, <2>2 DEF SysEnter
<1>3. CASE SysExit(t)
  <2>1. CASE ENTERS[t] = 0
    BY <1>3, <2>1 DEF SysExit, EnterKey
  <2>2. CASE ENTERS[t] # 0
    <3> DEFINE r == [tid |-> t, call |-> ENTERS[t], ret |-> ncall[t], state |-> "busy"]
    <3>1. r \in Record
      BY DEF Record
    <3>2. Append(EVENTS, r) \in Seq(Record)
      BY <3>1
    <3>3. /\ ENTERS' = [ENTERS EXCEPT ![t] = 0]
          /\ done' = [done EXCEPT ![t] = @ + 1]
          /\ \/ /\ EVENTS' = Append(EVENTS, r)
                /\ run' = [run EXCEPT ![t] = "submit"]
                /\ lost' = lost
             \/ /\ EVENTS' = EVENTS
                /\ run' = [run EXCEPT ![t] = "user"]
                /\ lost' = [lost EXCEPT ![t] = @ + 1]
          /\ UNCHANGED <<grp, ncall, mine, heir, TARGETS, userVars>>
      BY <1>3, <2>2 DEF SysExit, EnterKey
    <3> HIDE DEF r
    <3>4. ENTERS' \in [Task -> Nat]
      BY <3>3
    <3>5. done' \in [Task -> Nat]
      BY <3>3, CountType
    <3>6. run' \in [Task -> RunStates]
      BY <3>3
    <3>7. lost' \in [Task -> Nat]
      <4>1. lost' = lost \/ lost' = [lost EXCEPT ![t] = @ + 1]
        BY <3>3
      <4>2. [lost EXCEPT ![t] = @ + 1] \in [Task -> Nat]
        BY CountType, Zenon
      <4> QED
        BY <4>1, <4>2, Zenon
    <3>8. EVENTS' \in Seq(Record)
      BY <3>2, <3>3
    <3> QED
      BY <3>3, <3>4, <3>5, <3>6, <3>7, <3>8
  <2> QED
    BY <2>1, <2>2
<1>4. CASE Submit(t)
  <2> DEFINE E == [i \in DOMAIN EVENTS |->
                     IF EVENTS[i].tid = t THEN [EVENTS[i] EXCEPT !.state = "ready"]
                     ELSE EVENTS[i]]
  <2>1. ASSUME NEW i \in DOMAIN EVENTS
        PROVE  E[i] \in Record
    <3>1. EVENTS[i] \in Record
      OBVIOUS
    <3>2. [EVENTS[i] EXCEPT !.state = "ready"] \in Record
      BY <3>1 DEF Record
    <3> QED
      BY <3>1, <3>2
  <2>2. E \in Seq(Record)
    <3>1. Len(EVENTS) \in Nat /\ DOMAIN EVENTS = 1..Len(EVENTS)
      OBVIOUS
    <3>2. E \in [1..Len(EVENTS) -> Record]
      BY <2>1, <3>1
    <3> QED
      BY <3>1, <3>2, SeqDef
  <2> QED
    BY <1>4, <2>2 DEF Submit
<1>5. CASE \E u \in Task, g \in Task : Fork(t, u, g)
  <2>1. PICK u \in Task, g \in Task : Fork(t, u, g)
    BY <1>5
  <2>2. TARGETS' \subseteq Task
    BY <2>1, TargetsInsertType DEF Fork, TryFork
  <2>3. run' \in [Task -> RunStates]
    BY <2>1 DEF Fork
  <2>4. ncall' \in [Task -> Nat]
    BY <2>1, CountType DEF Fork
  <2>5. grp' \in [Task -> Task] /\ mine' \subseteq Task
    BY <2>1 DEF Fork
  <2>6. heir' \in [Task -> SUBSET Nat]
    BY <2>1, InheritsType DEF Fork
  <2> QED
    BY <2>1, <2>2, <2>3, <2>4, <2>5, <2>6 DEF Fork
<1>6. CASE Die(t)
  BY <1>6 DEF Die
<1>7. CASE ExecTakesOver(t)
  <2>1. PICK l \in Task : l = grp[t]
    OBVIOUS
  <2>2. /\ run' = [run EXCEPT ![l] = "kernel", ![t] = "dead"]
        /\ ncall' = [ncall EXCEPT ![l] = @ + 1]
        /\ mine' \subseteq mine \cup {l} /\ heir' = Inherits(l)
        /\ UNCHANGED <<grp, TARGETS, ENTERS, EVENTS, done, lost, userVars>>
    BY <1>7, <2>1 DEF ExecTakesOver
  <2>3. run' \in [Task -> RunStates]
    BY <2>2
  <2>4. ncall' \in [Task -> Nat]
    BY <2>2, CountType
  <2>5. heir' \in [Task -> SUBSET Nat] /\ mine' \subseteq Task
    BY <2>2, InheritsType
  <2> QED
    BY <2>2, <2>3, <2>4, <2>5
<1>8. CASE TidReused(t)
  <2>1. heir' \in [Task -> SUBSET Nat]
    BY <1>8, InheritsType DEF TidReused
  <2>2. ncall' \in [Task -> Nat]
    BY <1>8, CountType DEF TidReused
  <2> QED
    BY <1>8, <2>1, <2>2 DEF TidReused
<1> QED
  BY <1>1, <1>2, <1>3, <1>4, <1>5, <1>6, <1>7, <1>8

\* What next_event and the functions it calls do preserves the types.
LEMMA UserStepType ==
    ASSUME TypeOK, UserStep
    PROVE  TypeOK'
<1> USE DEF TypeOK, kernelVars
<1>1. CASE NextEvent
  BY <1>1, EventTypes DEF NextEvent
<1>2. CASE Pop
  <2>1. queue # <<>> => Head(queue) \in Event /\ Tail(queue) \in Seq(Event)
    OBVIOUS
  <2>2. \A e \in Event : e.tid \in Task
    BY DEF Event
  <2>3. CASE queue # <<>>
    <3>1. /\ out' = Head(queue) /\ queue' = Tail(queue) /\ pc' = "idle"
          /\ got' \in {got, [got EXCEPT ![Head(queue).tid] = @ + 1]}
          /\ UNCHANGED <<kernelVars, watch, EVENTS, finished>>
      BY <1>2, <2>3 DEF Pop
    <3>2. PICK t \in Task : t = Head(queue).tid
      BY <2>1, <2>2, <2>3
    <3>3. got' = got \/ got' = [got EXCEPT ![t] = @ + 1]
      BY <3>1, <3>2
    <3>4. got' \in [Task -> Nat]
      <4>1. [got EXCEPT ![t] = @ + 1] \in [Task -> Nat]
        BY CountType, Zenon
      <4> QED
        BY <3>3, <4>1, Zenon
    <3> QED
      BY <2>1, <2>3, <3>1, <3>4
  <2>4. CASE queue = <<>>
    BY <1>2, <2>4 DEF Pop
  <2> QED
    BY <2>3, <2>4
<1>3. CASE DrainRing
  <2>1. Head(EVENTS) \in Record /\ Tail(EVENTS) \in Seq(Record)
    BY <1>3 DEF DrainRing, RingReady
  <2>2. RecordToEvent(Head(EVENTS)) \in Event
    BY <2>1 DEF RecordToEvent, Record, Event
  <2>3. Append(queue, RecordToEvent(Head(EVENTS))) \in Seq(Event)
    BY <2>2
  <2> QED
    BY <1>3, <2>1, <2>3 DEF DrainRing, PushBack
<1>4. CASE Drained
  BY <1>4 DEF Drained
<1>5. CASE CheckLiveness
  BY <1>5 DEF CheckLiveness
<1>6. CASE EnqueueExit
  <2>1. Append(queue, ProcessExit) \in Seq(Event)
    BY EventTypes
  <2> QED
    BY <1>6, <2>1 DEF EnqueueExit, PushBack
<1>7. CASE WaitRing
  BY <1>7 DEF WaitRing
<1> QED
  BY <1>1, <1>2, <1>3, <1>4, <1>5, <1>6, <1>7 DEF UserStep

\* The state that EbpfTracer::new leaves is well typed.
LEMMA InitType == Init => TypeOK
<1> SUFFICES ASSUME Init PROVE TypeOK
  OBVIOUS
<1>1. run \in [Task -> RunStates] /\ ncall \in [Task -> Nat]
  BY DEF Init, RunStates
<1>2. /\ watch \subseteq Task /\ mine \subseteq Task /\ TARGETS \subseteq Task
      /\ out \in Event
  BY EbpfAssumption, EventTypes DEF Init, Target
<1>3. EVENTS \in Seq(Record) /\ queue \in Seq(Event)
  BY DEF Init
<1>4. /\ grp \in [Task -> Task] /\ ENTERS \in [Task -> Nat]
      /\ done \in [Task -> Nat] /\ got \in [Task -> Nat] /\ lost \in [Task -> Nat]
  BY DEF Init
<1>5. finished \in BOOLEAN /\ pc = "idle" /\ heir \in [Task -> SUBSET Nat]
  BY DEF Init
<1> QED
  BY <1>1, <1>2, <1>3, <1>4, <1>5 DEF TypeOK

\* Every step preserves the types.
LEMMA NextType ==
    ASSUME TypeOK, [Next]_vars
    PROVE  TypeOK'
<1>1. CASE UNCHANGED vars
  BY <1>1 DEF vars, kernelVars, userVars, TypeOK
<1> QED
  BY <1>1, KernelStepType, UserStepType DEF Next, Stutter

\* What is in the ring, in the queue and in hand is about a task.
LEMMA ElementTypes ==
    ASSUME TypeOK
    PROVE  /\ \A i \in DOMAIN EVENTS : EVENTS[i] \in Record /\ EVENTS[i].tid \in Task
           /\ \A i \in DOMAIN queue : queue[i] \in Event /\ queue[i].tid \in Task
           /\ out.tid \in Task
<1>1. /\ \A i \in DOMAIN EVENTS : EVENTS[i] \in Record
      /\ \A i \in DOMAIN queue : queue[i] \in Event
      /\ out \in Event
  BY DEF TypeOK
<1>2. (\A r \in Record : r.tid \in Task) /\ (\A e \in Event : e.tid \in Task)
  BY DEF Record, Event
<1> QED
  BY <1>1, <1>2

\* Type correctness of the eBPF backend.
THEOREM TypeCorrect == Spec => []TypeOK
<1>1. TypeOK /\ [Next]_vars => TypeOK'
  BY NextType
<1> QED
  BY <1>1, InitType, PTL DEF Spec

-----------------------------------------------------------------------------
(* The maps.                                                               *)

\* An insert into TARGETS never takes it over max_entries.
LEMMA TargetsInsertBound ==
    ASSUME TypeOK, MapInv, NEW u \in Task
    PROVE  /\ TARGETS \subseteq TargetsInsert(u)
           /\ Cardinality(TargetsInsert(u)) <= MaxTargets
<1>1. IsFiniteSet(TARGETS)
  BY EbpfAssumption, FS_Subset DEF TypeOK
<1>2. Cardinality(TARGETS) \in Nat
  BY <1>1, FS_CardinalityType
<1>3. u \notin TARGETS => Cardinality(TARGETS \cup {u}) = Cardinality(TARGETS) + 1
  BY <1>1, FS_AddElement
<1>4. u \in TARGETS => TARGETS \cup {u} = TARGETS
  OBVIOUS
<1>5. MaxTargets \in Nat /\ Cardinality(TARGETS) <= MaxTargets
  BY EbpfAssumption DEF MapInv
<1>6. CASE u \in TARGETS
  BY <1>4, <1>5, <1>6 DEF TargetsInsert
<1>7. CASE u \notin TARGETS
  <2>1. CASE Cardinality(TARGETS) < MaxTargets
    BY <1>2, <1>3, <1>5, <1>7, <2>1 DEF TargetsInsert
  <2>2. CASE ~(Cardinality(TARGETS) < MaxTargets)
    BY <1>5, <1>7, <2>2 DEF TargetsInsert
  <2> QED
    BY <2>1, <2>2
<1> QED
  BY <1>6, <1>7

\* Every step keeps the entries among the targets and the targets bounded.
LEMMA MapStep ==
    ASSUME TypeOK, MapInv, [Next]_vars
    PROVE  MapInv'
<1> USE DEF MapInv, EnterKeys
<1>1. CASE UserStep
  BY <1>1 DEF UserStep, NextEvent, Pop, DrainRing, Drained, CheckLiveness,
              EnqueueExit, WaitRing, kernelVars
<1>2. CASE UNCHANGED vars
  BY <1>2 DEF vars, kernelVars
<1>3. ASSUME NEW t \in Task, SysEnter(t)
      PROVE  MapInv'
  BY <1>3 DEF SysEnter, EntersInsert, EnterKey, IsTarget, TypeOK
<1>4. ASSUME NEW t \in Task, SysExit(t)
      PROVE  MapInv'
  <2>1. TARGETS' = TARGETS /\ ENTERS' \in {ENTERS, [ENTERS EXCEPT ![t] = 0]}
    BY <1>4 DEF SysExit, EnterKey
  <2> QED
    BY <2>1 DEF TypeOK
<1>5. ASSUME NEW t \in Task, NEW u \in Task, NEW g \in Task, Fork(t, u, g)
      PROVE  MapInv'
  <2>1. ENTERS' = ENTERS /\ TARGETS' \in {TARGETS, TargetsInsert(u)}
    BY <1>5 DEF Fork, TryFork
  <2> QED
    BY <2>1, TargetsInsertBound
<1>6. ASSUME NEW t \in Task, Submit(t) \/ Die(t) \/ ExecTakesOver(t) \/ TidReused(t)
      PROVE  MapInv'
  BY <1>6 DEF Submit, Die, ExecTakesOver, TidReused
<1> QED
  BY <1>1, <1>2, <1>3, <1>4, <1>5, <1>6 DEF Next, KernelStep, Stutter

\* The tids of the target fit in TARGETS.
LEMMA InitMap == Init => MapInv
<1> SUFFICES ASSUME Init PROVE MapInv
  OBVIOUS
<1>1. TARGETS \in {{Leader}, Attached}
  BY DEF Init, Target, Spawned
<1>2. Cardinality({Leader}) <= Cardinality(Attached)
  BY EbpfAssumption, FS_Subset, FS_Singleton
<1>3. Cardinality({Leader}) = 1 /\ Cardinality(Attached) \in Nat
  BY EbpfAssumption, FS_Subset, FS_Singleton, FS_CardinalityType
<1>4. Cardinality(TARGETS) <= MaxTargets
  BY <1>1, <1>2, <1>3, EbpfAssumption
<1> QED
  BY <1>4 DEF Init, MapInv, EnterKeys

\* MapInv is inductive with the types.
LEMMA MapInvariance == Spec => [](TypeOK /\ MapInv)
<1>1. TypeOK /\ MapInv /\ [Next]_vars => MapInv'
  BY MapStep
<1> QED
  BY <1>1, InitMap, TypeCorrect, PTL DEF Spec

\* An entry can always be recorded: ENTERS never refuses a target.
THEOREM EntersNeverFull == Spec => []EntersHasRoom
<1>1. ASSUME TypeOK, MapInv
      PROVE  EntersHasRoom
  <2>1. IsFiniteSet(TARGETS) /\ Cardinality(TARGETS) \in Nat
    BY <1>1, EbpfAssumption, FS_Subset, FS_CardinalityType DEF TypeOK
  <2>2. EnterKeys \subseteq TARGETS
    BY <1>1 DEF MapInv
  <2>3. /\ IsFiniteSet(EnterKeys) /\ Cardinality(EnterKeys) \in Nat
        /\ Cardinality(EnterKeys) <= Cardinality(TARGETS)
        /\ Cardinality(EnterKeys) = Cardinality(TARGETS) => EnterKeys = TARGETS
    BY <2>1, <2>2, FS_Subset, FS_CardinalityType
  <2>4. ASSUME NEW t \in TARGETS, t \notin EnterKeys
        PROVE  Cardinality(EnterKeys) < MaxEnters
    BY <1>1, <2>1, <2>3, <2>4, EbpfAssumption DEF MapInv
  <2> QED
    BY <2>2, <2>4 DEF EntersHasRoom
<1> QED
  BY <1>1, MapInvariance, PTL

\* What a step does to TARGETS: nothing, or it inserts a new task.
LEMMA TargetsGrow ==
    ASSUME TypeOK, MapInv, [Next]_vars
    PROVE  /\ TARGETS \subseteq TARGETS'
           /\ Cardinality(TARGETS) = MaxTargets => Cardinality(TARGETS') = MaxTargets
<1>1. CASE TARGETS' = TARGETS
  BY <1>1
<1>2. ASSUME NEW u \in Task, TARGETS' = TargetsInsert(u)
      PROVE  /\ TARGETS \subseteq TARGETS'
             /\ Cardinality(TARGETS) = MaxTargets => TARGETS' = TARGETS
  BY <1>2, TargetsInsertBound, EbpfAssumption DEF TargetsInsert
<1>3. CASE UserStep
  BY <1>1, <1>3 DEF UserStep, NextEvent, Pop, DrainRing, Drained, CheckLiveness,
                    EnqueueExit, WaitRing, kernelVars
<1>4. CASE KernelStep
  BY <1>1, <1>2, <1>4
     DEF KernelStep, SysEnter, SysExit, Submit, Fork, TryFork, Die, ExecTakesOver, TidReused
<1> QED
  BY <1>1, <1>3, <1>4 DEF Next, Stutter, vars, kernelVars

-----------------------------------------------------------------------------
(* Thread groups.                                                          *)

\* A running task is in a group that is named by a tid that was handed out and
\* leads it; if it descends from the target, so does that leader.  The tids
\* traced from the start are taken, and lead their groups until they are reused.
GroupsInv ==
    /\ \A t \in Task : run[t] = "absent" => grp[t] = t
    /\ \A t \in Task : ~Dead(t) => grp[grp[t]] = grp[t] /\ run[grp[t]] # "absent"
    /\ \A t \in mine : ~Dead(t) => grp[t] \in mine
    /\ \A t \in Target : t \in Task /\ run[t] # "absent" /\ (Reuse = 0 => grp[t] = t)

\* What was asked for does not change.
LEMMA WatchKept ==
    ASSUME [Next]_vars
    PROVE  Target' = Target
<1>1. CASE UserStep \/ UNCHANGED vars
  BY <1>1 DEF UserStep, NextEvent, Pop, DrainRing, Drained, CheckLiveness,
              EnqueueExit, WaitRing, vars, userVars, Target, Spawned
<1>2. CASE KernelStep
  BY <1>2 DEF KernelStep, SysEnter, SysExit, Submit, Fork, Die, ExecTakesOver,
              TidReused, userVars, Target, Spawned
<1> QED
  BY <1>1, <1>2 DEF Next, Stutter

\* Without reuse, only a tid that nobody had is free.
LEMMA FreeIsNew ==
    ASSUME NEW u \in Task, Free(u), Reuse = 0
    PROVE  run[u] = "absent"
<1>1. Cardinality({t \in Task : heir[t] # {}}) \in Nat
  BY EbpfAssumption, FS_Subset, FS_CardinalityType
<1> QED
  BY <1>1 DEF Free, Dead

\* A step that changes neither the groups nor what descends from the target, and
\* brings nobody to life, keeps the groups.
LEMMA GroupsKept ==
    ASSUME TypeOK, GroupsInv, [Next]_vars, UNCHANGED <<grp, mine>>,
           \A t \in Task : /\ run'[t] = "absent" <=> run[t] = "absent"
                           /\ Dead(t) => Dead(t)'
    PROVE  GroupsInv'
<1>1. Target' = Target
  BY WatchKept
<1> QED
  BY <1>1 DEF GroupsInv, TypeOK

\* Every step keeps the thread groups in order.
LEMMA GroupsStep ==
    ASSUME TypeOK, GroupsInv, [Next]_vars
    PROVE  GroupsInv'
<1> USE DEF TypeOK
<1>0. run' \in [Task -> RunStates] /\ Target' = Target
  BY NextType, WatchKept
<1>1. CASE UserStep \/ UNCHANGED vars
  <2>1. UNCHANGED <<run, grp, mine>>
    BY <1>1 DEF UserStep, NextEvent, Pop, DrainRing, Drained, CheckLiveness,
                EnqueueExit, WaitRing, vars, kernelVars, userVars
  <2> QED
    BY <2>1, GroupsKept DEF Dead
<1>2. ASSUME NEW t \in Task, NEW s, run' = [run EXCEPT ![t] = s], s # "absent",
             ~Dead(t), UNCHANGED <<grp, mine>>
      PROVE  GroupsInv'
  BY <1>2, GroupsKept DEF Dead
<1>3. ASSUME NEW t \in Task, SysEnter(t) \/ SysExit(t) \/ Submit(t) \/ Die(t)
      PROVE  /\ ~Dead(t) /\ UNCHANGED <<grp, mine>>
             /\ \E s : run' = [run EXCEPT ![t] = s] /\ s # "absent"
  BY <1>3 DEF SysEnter, SysExit, Submit, Die, Dead
<1>4. ASSUME NEW u \in Task, NEW g \in Task, Free(u),
             run' = [run EXCEPT ![u] = "kernel"], grp' = [grp EXCEPT ![u] = g],
             g = u \/ (g # u /\ grp[g] = g /\ run[g] # "absent"),
             \/ mine' = mine \ {u}
             \/ mine' = mine \cup {u} /\ (g = u \/ g \in mine)
      PROVE  GroupsInv'
  <2>1. \A x \in Task : x # u /\ ~Dead(x) => grp[x] # u
    BY <1>4 DEF Free, GroupDead
  <2>2. \A x \in Task : Dead(x)' <=> (x # u /\ Dead(x))
    BY <1>4 DEF Dead
  <2>3. \A x \in Task : run'[x] = "absent" => grp'[x] = x
    BY <1>4 DEF GroupsInv
  <2>4. \A x \in Task : ~Dead(x)' => grp'[grp'[x]] = grp'[x] /\ run'[grp'[x]] # "absent"
    <3> SUFFICES ASSUME NEW x \in Task, ~Dead(x)'
                 PROVE  grp'[grp'[x]] = grp'[x] /\ run'[grp'[x]] # "absent"
      OBVIOUS
    <3>1. CASE x = u
      BY <1>4, <3>1
    <3>2. CASE x # u
      BY <1>4, <2>1, <2>2, <3>2 DEF GroupsInv
    <3> QED
      BY <3>1, <3>2
  <2>5. \A x \in mine' : ~Dead(x)' => grp'[x] \in mine'
    <3> SUFFICES ASSUME NEW x \in mine', ~Dead(x)'
                 PROVE  grp'[x] \in mine'
      OBVIOUS
    <3>1. CASE x = u
      BY <1>4, <3>1
    <3>2. CASE x # u
      BY <1>4, <2>1, <2>2, <3>2 DEF GroupsInv
    <3> QED
      BY <3>1, <3>2
  <2>6. \A x \in Target : x \in Task /\ run'[x] # "absent" /\ (Reuse = 0 => grp'[x] = x)
    BY <1>4, FreeIsNew DEF GroupsInv
  <2> QED
    BY <1>0, <2>3, <2>4, <2>5, <2>6 DEF GroupsInv
<1>5. ASSUME NEW t \in Task, NEW u \in Task, NEW g \in Task, Fork(t, u, g)
      PROVE  GroupsInv'
  <2>1. /\ run[t] = "kernel" /\ Free(u) /\ (g = u \/ g = grp[t])
        /\ run' = [run EXCEPT ![u] = "kernel"] /\ grp' = [grp EXCEPT ![u] = g]
        /\ mine' = IF t \in mine THEN mine \cup {u} ELSE mine \ {u}
    BY <1>5 DEF Fork
  <2>2. ~Dead(t)
    BY <2>1 DEF Dead
  <2>3. /\ g = u \/ (g # u /\ grp[g] = g /\ run[g] # "absent")
        /\ t \in mine => g = u \/ g \in mine
    BY <2>1, <2>2 DEF GroupsInv, Free, GroupDead
  <2> QED
    BY <1>4, <2>1, <2>3
<1>6. ASSUME NEW t \in Task, ExecTakesOver(t)
      PROVE  GroupsInv'
  <2>1. PICK l \in Task : l = grp[t]
    OBVIOUS
  <2>2. /\ run[t] = "kernel" /\ l # t
        /\ run' = [run EXCEPT ![l] = "kernel", ![t] = "dead"]
        /\ grp' = grp /\ mine' = IF t \in mine THEN mine \cup {l} ELSE mine
    BY <1>6, <2>1 DEF ExecTakesOver
  <2>3. ~Dead(t)
    BY <2>2 DEF Dead
  <2>4. run[l] # "absent" /\ grp[l] = l /\ mine' = mine
    BY <2>1, <2>2, <2>3 DEF GroupsInv
  <2>5. \A x \in Task : Dead(x)' <=> (x = t \/ (x # l /\ Dead(x)))
    BY <2>2 DEF Dead
  <2>6. \A x \in Task : run'[x] = "absent" <=> run[x] = "absent"
    BY <2>2, <2>4
  <2>7. \A x \in Task : ~Dead(x)' => grp[grp[x]] = grp[x] /\ run'[grp[x]] # "absent"
    BY <2>2, <2>4, <2>5, <2>6 DEF GroupsInv
  <2>8. \A x \in mine : ~Dead(x)' => grp[x] \in mine
    BY <2>4, <2>5 DEF GroupsInv
  <2>9. \A x \in Target : x \in Task /\ run'[x] # "absent" /\ (Reuse = 0 => grp[x] = x)
    BY <2>6 DEF GroupsInv
  <2>10. \A x \in Task : run'[x] = "absent" => grp[x] = x
    BY <2>6 DEF GroupsInv
  <2> QED
    BY <1>0, <2>2, <2>4, <2>7, <2>8, <2>9, <2>10 DEF GroupsInv
<1>7. ASSUME NEW t \in Task, TidReused(t)
      PROVE  GroupsInv'
  <2>1. /\ Free(t) /\ run' = [run EXCEPT ![t] = "kernel"]
        /\ grp' = [grp EXCEPT ![t] = t] /\ mine' = mine \ {t}
    BY <1>7 DEF TidReused
  <2> QED
    BY <1>4, <2>1
<1> QED
  BY <1>1, <1>2, <1>3, <1>5, <1>6, <1>7 DEF Next, KernelStep, Stutter

\* The thread groups are in order.
LEMMA GroupsInvariance == Spec => [](TypeOK /\ GroupsInv)
<1>1. ASSUME Init
      PROVE  GroupsInv
  <2>1. Target \subseteq Task /\ mine = Target /\ grp \in [Task -> Task]
    BY <1>1, InitType DEF Init, TypeOK
  <2>2. /\ \A t \in Task : t \in Target \/ run[t] = "absent" => grp[t] = t
        /\ \A t \in Task : run[t] # "absent" =>
                             grp[grp[t]] = grp[t] /\ run[grp[t]] # "absent"
    BY <1>1 DEF Init
  <2>3. \A t \in Target : run[t] # "absent"
    BY <1>1 DEF Init
  <2> QED
    BY <2>1, <2>2, <2>3 DEF GroupsInv, Dead
<1>2. TypeOK /\ GroupsInv /\ [Next]_vars => GroupsInv'
  BY GroupsStep
<1> QED
  BY <1>1, <1>2, TypeCorrect, PTL DEF Spec
-----------------------------------------------------------------------------
(* Following.                                                              *)

\* What a step does to `mine`: it takes a reused tid out, or a fork adds one.  A
\* thread that takes its leader's tid over adds nothing: the leader was there.
LEMMA MineGrows ==
    ASSUME TypeOK, GroupsInv, [Next]_vars
    PROVE  \/ mine' \subseteq mine
           \/ \E t \in mine, u \in Task :
                 /\ mine' = mine \cup {u}
                 /\ TARGETS' = IF Follow /\ t \in TARGETS THEN TargetsInsert(u)
                               ELSE TARGETS
<1>1. CASE UserStep
  BY <1>1 DEF UserStep, NextEvent, Pop, DrainRing, Drained, CheckLiveness,
              EnqueueExit, WaitRing, kernelVars
<1>2. ASSUME NEW t \in Task, ExecTakesOver(t)
      PROVE  mine' \subseteq mine
  BY <1>2 DEF ExecTakesOver, GroupsInv, Dead
<1>3. ASSUME NEW t \in Task, NEW u \in Task, NEW g \in Task, Fork(t, u, g)
      PROVE  \/ mine' \subseteq mine
             \/ /\ t \in mine /\ mine' = mine \cup {u}
                /\ TARGETS' = IF Follow /\ t \in TARGETS THEN TargetsInsert(u)
                              ELSE TARGETS
  BY <1>3 DEF Fork, TryFork, IsTarget
<1>4. ASSUME NEW t \in Task, SysEnter(t) \/ SysExit(t) \/ Submit(t) \/ Die(t) \/ TidReused(t)
      PROVE  mine' \subseteq mine
  BY <1>4 DEF SysEnter, SysExit, Submit, Die, TidReused
<1> QED
  BY <1>1, <1>2, <1>3, <1>4 DEF Next, KernelStep, Stutter, vars, kernelVars

\* With --follow what descends from the target is traced, or TARGETS is full.
THEOREM TracedUnlessFullHolds == Spec => []TracedUnlessFull
<1>1. Init => TracedUnlessFull
  BY DEF Init, TracedUnlessFull
<1>2. ASSUME TypeOK, MapInv, GroupsInv, TracedUnlessFull, [Next]_vars
      PROVE  TracedUnlessFull'
  <2> SUFFICES ASSUME Follow, NEW x \in mine'
               PROVE  x \in TARGETS' \/ Cardinality(TARGETS') = MaxTargets
    BY DEF TracedUnlessFull
  <2>1. CASE x \in mine
    BY <1>2, <2>1, TargetsGrow DEF TracedUnlessFull
  <2>2. CASE x \notin mine
    <3>1. PICK t \in mine : /\ x \in Task
                            /\ TARGETS' = IF t \in TARGETS THEN TargetsInsert(x)
                                          ELSE TARGETS
      BY <1>2, <2>2, MineGrows
    <3>2. CASE t \in TARGETS
      <4>1. x \in TargetsInsert(x) \/ ~(Cardinality(TARGETS) < MaxTargets)
        BY DEF TargetsInsert
      <4>2. Cardinality(TARGETS) \in Nat /\ MaxTargets \in Nat
        BY <1>2, EbpfAssumption, FS_Subset, FS_CardinalityType DEF TypeOK
      <4>3. x \in TARGETS' \/ Cardinality(TARGETS) = MaxTargets
        BY <1>2, <3>1, <3>2, <4>1, <4>2 DEF MapInv
      <4> QED
        BY <1>2, <4>3, TargetsGrow
    <3>3. CASE t \notin TARGETS
      BY <1>2, <3>1, <3>3 DEF TracedUnlessFull
    <3> QED
      BY <3>2, <3>3
  <2> QED
    BY <2>1, <2>2
<1> QED
  BY <1>1, <1>2, MapInvariance, GroupsInvariance, PTL DEF Spec
-----------------------------------------------------------------------------
(* Entries and exits.                                                      *)

\* Of a task in a call there is no entry, or that of the call, unless it has the
\* tid of another one and only returns; outside of a call there is none.  What is
\* made of an entry stays paired on its way through the ring and the queue.
PairInv ==
    /\ \A t \in Task : run[t] = "kernel" =>
          ENTERS[t] \in {0, ncall[t]} \/ ncall[t] \in heir[t]
    /\ \A t \in Task : run[t] \in {"absent", "user", "submit"} => ENTERS[t] = 0
    /\ \A i \in DOMAIN EVENTS : JoinsOneCall(EVENTS[i])
    /\ \A i \in DOMAIN queue : queue[i].kind = "syscall" => JoinsOneCall(queue[i])
    /\ out.kind = "syscall" => JoinsOneCall(out)

\* That a call only returned on its tid is never forgotten.
LEMMA HeirGrows ==
    ASSUME TypeOK, [Next]_vars
    PROVE  \A t \in Task : heir[t] \subseteq heir'[t]
<1> USE DEF TypeOK
<1>1. CASE heir' = heir
  BY <1>1
<1>2. ASSUME NEW t \in Task, heir' = Inherits(t)
      PROVE  \A x \in Task : heir[x] \subseteq heir'[x]
  BY <1>2 DEF Inherits
<1>3. CASE UserStep
  BY <1>1, <1>3 DEF UserStep, NextEvent, Pop, DrainRing, Drained, CheckLiveness,
                    EnqueueExit, WaitRing, kernelVars
<1>4. ASSUME NEW t \in Task, SysEnter(t) \/ SysExit(t) \/ Submit(t) \/ Die(t)
      PROVE  heir' = heir
  BY <1>4 DEF SysEnter, SysExit, Submit, Die
<1>5. ASSUME NEW t \in Task, NEW u \in Task, NEW g \in Task, Fork(t, u, g)
      PROVE  heir' = heir \/ heir' = Inherits(u)
  BY <1>5 DEF Fork
<1>6. ASSUME NEW t \in Task, ExecTakesOver(t)
      PROVE  grp[t] \in Task /\ heir' = Inherits(grp[t])
  BY <1>6 DEF ExecTakesOver
<1>7. ASSUME NEW t \in Task, TidReused(t)
      PROVE  heir' = Inherits(t)
  BY <1>7 DEF TidReused
<1>8. CASE UNCHANGED vars
  BY <1>1, <1>8 DEF vars, kernelVars
<1> QED
  BY <1>1, <1>2, <1>3, <1>4, <1>5, <1>6, <1>7, <1>8 DEF Next, KernelStep, Stutter

\* A paired record stays paired, whoever has its tid by then.
LEMMA PairKept ==
    ASSUME TypeOK, [Next]_vars, NEW e, e.tid \in Task, JoinsOneCall(e)
    PROVE  e.ret = e.call \/ e.ret \in heir'[e.tid]
BY HeirGrows DEF JoinsOneCall

\* The tasks and the in-kernel programs keep the pairing.
LEMMA PairKernel ==
    ASSUME TypeOK, MapInv, PairInv, [Next]_vars, KernelStep
    PROVE  PairInv'
<1> USE DEF TypeOK
<1>0. /\ \A i \in DOMAIN EVENTS : EVENTS[i].tid \in Task
      /\ \A i \in DOMAIN queue : queue[i].tid \in Task
      /\ out.tid \in Task
  BY ElementTypes
<1>1. UNCHANGED <<queue, out>>
  BY DEF KernelStep, SysEnter, SysExit, Submit, Fork, Die, ExecTakesOver, TidReused,
         userVars
<1>2. /\ \A i \in DOMAIN queue' : queue'[i].kind = "syscall" => JoinsOneCall(queue[i])'
      /\ out'.kind = "syscall" => JoinsOneCall(out)'
  BY <1>0, <1>1, PairKept DEF PairInv, JoinsOneCall
<1>3. ASSUME EVENTS' = EVENTS
      PROVE  \A i \in DOMAIN EVENTS' : JoinsOneCall(EVENTS[i])'
  BY <1>0, <1>3, PairKept DEF PairInv, JoinsOneCall
<1> DEFINE Entries == /\ \A t \in Task : run[t] = "kernel" =>
                            ENTERS[t] \in {0, ncall[t]} \/ ncall[t] \in heir[t]
                      /\ \A t \in Task : run[t] \in {"absent", "user", "submit"} =>
                            ENTERS[t] = 0
<1>4. Entries
  BY DEF PairInv
<1>5. SUFFICES Entries' /\ (\A i \in DOMAIN EVENTS' : JoinsOneCall(EVENTS[i])')
  BY <1>1, <1>2 DEF PairInv
<1>6. ASSUME NEW t \in Task, SysEnter(t)
      PROVE  Entries' /\ (\A i \in DOMAIN EVENTS' : JoinsOneCall(EVENTS[i])')
  <2>1. /\ run[t] = "user" /\ run' = [run EXCEPT ![t] = "kernel"]
        /\ ncall' = [ncall EXCEPT ![t] = @ + 1]
        /\ UNCHANGED <<heir, EVENTS>>
        /\ ENTERS' = ENTERS \/ ENTERS' = [ENTERS EXCEPT ![t] = ncall[t] + 1]
    BY <1>6 DEF SysEnter, EntersInsert, EnterKey
  <2>2. Entries'
    BY <1>4, <2>1
  <2> QED
    BY <1>3, <2>1, <2>2
<1>7. ASSUME NEW t \in Task, SysExit(t)
      PROVE  Entries' /\ (\A i \in DOMAIN EVENTS' : JoinsOneCall(EVENTS[i])')
  <2>1. CASE ENTERS[t] = 0
    <3>1. run' = [run EXCEPT ![t] = "user"] /\ UNCHANGED <<ncall, heir, ENTERS, EVENTS>>
      BY <1>7, <2>1 DEF SysExit, EnterKey
    <3> QED
      BY <1>3, <1>4, <2>1, <3>1
  <2>2. CASE ENTERS[t] # 0
    <3> DEFINE r == [tid |-> t, call |-> ENTERS[t], ret |-> ncall[t], state |-> "busy"]
    <3>1. /\ run[t] = "kernel" /\ ENTERS' = [ENTERS EXCEPT ![t] = 0]
          /\ run' \in {[run EXCEPT ![t] = "submit"], [run EXCEPT ![t] = "user"]}
          /\ EVENTS' \in {EVENTS, Append(EVENTS, r)}
          /\ UNCHANGED <<ncall, heir>>
      BY <1>7, <2>2 DEF SysExit, EnterKey
    <3>2. \A x \in Task : x # t => /\ run'[x] = run[x] /\ ENTERS'[x] = ENTERS[x]
                                    /\ ncall'[x] = ncall[x] /\ heir'[x] = heir[x]
      BY <3>1
    <3>5. ENTERS'[t] = 0
      BY <3>1
    <3>6. Entries'
      BY <1>4, <3>2, <3>5
    <3>3. CASE EVENTS' = Append(EVENTS, r)
      <4>1. r \in Record
        BY DEF Record
      <4>2. r.ret = r.call \/ r.ret \in heir'[r.tid]
        BY <1>4, <2>2, <3>1
      <4> HIDE DEF r
      <4>3. /\ DOMAIN EVENTS' = 1..Len(EVENTS) + 1 /\ DOMAIN EVENTS = 1..Len(EVENTS)
            /\ \A i \in DOMAIN EVENTS : EVENTS'[i] = EVENTS[i]
            /\ EVENTS'[Len(EVENTS) + 1] = r
        BY <3>3, <4>1, AppendProperties, LenProperties
      <4>4. ASSUME NEW i \in DOMAIN EVENTS
            PROVE  JoinsOneCall(EVENTS[i])'
        BY <1>0, <4>3, <4>4, PairKept DEF PairInv, JoinsOneCall
      <4>5. ASSUME NEW i \in DOMAIN EVENTS'
            PROVE  JoinsOneCall(EVENTS[i])'
        <5>1. i \in DOMAIN EVENTS \/ EVENTS'[i] = r
          BY <4>3, LenProperties
        <5> QED
          BY <4>2, <4>4, <5>1 DEF JoinsOneCall
      <4> QED
        BY <3>6, <4>5
    <3> QED
      BY <1>3, <3>1, <3>6, <3>3
  <2> QED
    BY <2>1, <2>2
<1>8. ASSUME NEW t \in Task, Submit(t)
      PROVE  Entries' /\ (\A i \in DOMAIN EVENTS' : JoinsOneCall(EVENTS[i])')
  <2>1. run[t] = "submit" /\ run' = [run EXCEPT ![t] = "user"]
        /\ UNCHANGED <<ncall, heir, ENTERS>>
    BY <1>8 DEF Submit
  <2>2. ASSUME NEW i \in DOMAIN EVENTS'
        PROVE  /\ i \in DOMAIN EVENTS
               /\ EVENTS'[i].tid = EVENTS[i].tid /\ EVENTS'[i].ret = EVENTS[i].ret
               /\ EVENTS'[i].call = EVENTS[i].call
    <3>1. i \in DOMAIN EVENTS
      BY <1>8, <2>2 DEF Submit
    <3>2. EVENTS[i] \in Record
      BY <3>1
    <3> QED
      BY <1>8, <3>1, <3>2 DEF Submit, Record
  <2>3. ASSUME NEW i \in DOMAIN EVENTS'
        PROVE  JoinsOneCall(EVENTS[i])'
    BY <1>0, <2>2, <2>3, PairKept DEF PairInv, JoinsOneCall
  <2> QED
    BY <1>4, <2>1, <2>3
<1>9. ASSUME NEW u \in Task, NEW s \in [Task -> RunStates],
             \A x \in Task : x # u => s[x] \in {run[x], "dead"},
             run' = [s EXCEPT ![u] = "kernel"], ncall' = [ncall EXCEPT ![u] = @ + 1],
             heir' = Inherits(u), UNCHANGED <<ENTERS, EVENTS>>
      PROVE  Entries' /\ (\A i \in DOMAIN EVENTS' : JoinsOneCall(EVENTS[i])')
  <2>1. ncall'[u] \in heir'[u]
    BY <1>9 DEF Inherits
  <2>2. \A x \in Task : x # u => heir'[x] = heir[x] /\ ncall'[x] = ncall[x]
    BY <1>9 DEF Inherits
  <2>3. Entries'
    BY <1>4, <1>9, <2>1, <2>2
  <2> QED
    BY <1>3, <1>9, <2>3
<1>10. ASSUME NEW t \in Task, NEW u \in Task, NEW g \in Task, Fork(t, u, g)
       PROVE  Entries' /\ (\A i \in DOMAIN EVENTS' : JoinsOneCall(EVENTS[i])')
  <2>1. CASE run[u] = "dead"
    BY <1>9, <1>10, <2>1 DEF Fork
  <2>2. CASE run[u] = "absent"
    BY <1>3, <1>4, <1>10, <2>2 DEF Fork
  <2> QED
    BY <1>10, <2>1, <2>2 DEF Fork, Free, Dead
<1>11. ASSUME NEW t \in Task, ExecTakesOver(t)
       PROVE  Entries' /\ (\A i \in DOMAIN EVENTS' : JoinsOneCall(EVENTS[i])')
  <2>1. PICK l \in Task : l = grp[t]
    OBVIOUS
  <2> DEFINE s == [run EXCEPT ![t] = "dead"]
  <2>2. /\ l # t /\ run' = [run EXCEPT ![l] = "kernel", ![t] = "dead"]
        /\ ncall' = [ncall EXCEPT ![l] = @ + 1] /\ heir' = Inherits(l)
        /\ UNCHANGED <<ENTERS, EVENTS>>
    BY <1>11, <2>1 DEF ExecTakesOver
  <2>3. s \in [Task -> RunStates] /\ (\A x \in Task : x # l => s[x] \in {run[x], "dead"})
    BY DEF RunStates
  <2>4. run' = [s EXCEPT ![l] = "kernel"]
    BY <2>2
  <2> HIDE DEF s
  <2> QED
    BY <1>9, <2>2, <2>3, <2>4
<1>12. ASSUME NEW t \in Task, TidReused(t)
       PROVE  Entries' /\ (\A i \in DOMAIN EVENTS' : JoinsOneCall(EVENTS[i])')
  BY <1>9, <1>12 DEF TidReused
<1>13. ASSUME NEW t \in Task, Die(t)
       PROVE  Entries' /\ (\A i \in DOMAIN EVENTS' : JoinsOneCall(EVENTS[i])')
  BY <1>3, <1>4, <1>13 DEF Die
<1> QED
  BY <1>6, <1>7, <1>8, <1>10, <1>11, <1>12, <1>13 DEF KernelStep

\* So does the way of a record through next_event.
LEMMA PairUser ==
    ASSUME TypeOK, PairInv, UserStep
    PROVE  PairInv'
<1> USE DEF TypeOK, kernelVars
<1>0. /\ \A i \in DOMAIN EVENTS : EVENTS[i] \in Record
      /\ DOMAIN EVENTS = 1..Len(EVENTS) /\ Len(EVENTS) \in Nat
      /\ DOMAIN queue = 1..Len(queue) /\ Len(queue) \in Nat
  BY ElementTypes
<1>1. UNCHANGED <<run, heir, ENTERS, ncall>>
  BY DEF UserStep, NextEvent, Pop, DrainRing, Drained, CheckLiveness, EnqueueExit,
         WaitRing
<1>2. SUFFICES /\ \A i \in DOMAIN EVENTS' : JoinsOneCall(EVENTS'[i])
               /\ \A i \in DOMAIN queue' : queue'[i].kind = "syscall" => JoinsOneCall(queue'[i])
               /\ out'.kind = "syscall" => JoinsOneCall(out')
  BY <1>1 DEF PairInv, JoinsOneCall
<1>3. CASE NextEvent
  BY <1>3 DEF NextEvent, NoEvent, PairInv
<1>4. CASE Pop
  <2>1. CASE queue # <<>>
    <3>1. out' = Head(queue) /\ queue' = Tail(queue) /\ EVENTS' = EVENTS
      BY <1>4, <2>1 DEF Pop
    <3>2. /\ Head(queue) = queue[1] /\ 1 \in DOMAIN queue
          /\ \A i \in DOMAIN queue' : i + 1 \in DOMAIN queue /\ queue'[i] = queue[i + 1]
      BY <1>0, <2>1, <3>1, HeadTailProperties
    <3> QED
      BY <3>1, <3>2 DEF PairInv
  <2>2. CASE queue = <<>>
    BY <1>4, <2>2 DEF Pop, PairInv
  <2> QED
    BY <2>1, <2>2
<1>5. CASE DrainRing
  <2> DEFINE e == RecordToEvent(Head(EVENTS))
  <2>1. EVENTS # <<>> /\ EVENTS' = Tail(EVENTS) /\ queue' = Append(queue, e) /\ out' = out
    BY <1>5 DEF DrainRing, RingReady, PushBack
  <2>2. /\ Head(EVENTS) = EVENTS[1] /\ 1 \in DOMAIN EVENTS
        /\ \A i \in DOMAIN EVENTS' : i + 1 \in DOMAIN EVENTS /\ EVENTS'[i] = EVENTS[i + 1]
    BY <1>0, <2>1, HeadTailProperties
  <2>3. e \in Event /\ JoinsOneCall(e)
    BY <1>0, <2>2 DEF RecordToEvent, Record, Event, PairInv, JoinsOneCall
  <2> HIDE DEF e
  <2>4. \A i \in DOMAIN queue' : queue'[i] = e \/ (i \in DOMAIN queue /\ queue'[i] = queue[i])
    BY <1>0, <2>1, <2>3, AppendProperties
  <2> QED
    BY <2>1, <2>2, <2>3, <2>4 DEF PairInv
<1>6. CASE EnqueueExit
  <2>1. queue' = Append(queue, ProcessExit) /\ UNCHANGED <<EVENTS, out>>
    BY <1>6 DEF EnqueueExit, PushBack
  <2>2. ProcessExit \in Event /\ ProcessExit.kind = "exit"
    BY EventTypes DEF ProcessExit
  <2>3. \A i \in DOMAIN queue' : \/ queue'[i].kind = "exit"
                                 \/ i \in DOMAIN queue /\ queue'[i] = queue[i]
    BY <1>0, <2>1, <2>2, AppendProperties
  <2> QED
    BY <2>1, <2>3 DEF PairInv
<1>7. CASE Drained \/ CheckLiveness \/ WaitRing
  BY <1>7 DEF Drained, CheckLiveness, WaitRing, PairInv
<1> QED
  BY <1>3, <1>4, <1>5, <1>6, <1>7 DEF UserStep

\* A record joins the two ends of one call, unless it was made by a return on a
\* tid that another task had before.
THEOREM PairedHolds == Spec => []Paired
<1>1. ASSUME Init
      PROVE  PairInv
  <2>1. DOMAIN EVENTS = {} /\ DOMAIN queue = {} /\ out.kind = "none"
    BY <1>1 DEF Init, NoEvent
  <2>2. \A t \in Task : ENTERS[t] = 0
    BY <1>1 DEF Init
  <2> QED
    BY <2>1, <2>2 DEF PairInv
<1>2. ASSUME TypeOK, MapInv, PairInv, [Next]_vars
      PROVE  PairInv'
  <2>1. CASE UNCHANGED vars
    BY <1>2, <2>1 DEF vars, kernelVars, userVars, PairInv, JoinsOneCall
  <2> QED
    BY <1>2, <2>1, PairKernel, PairUser DEF Next, Stutter
<1>3. PairInv => Paired
  BY DEF PairInv, Paired
<1> QED
  BY <1>1, <1>2, <1>3, MapInvariance, PTL DEF Spec
-----------------------------------------------------------------------------
(* Records on their way.                                                   *)

\* How many elements of a sequence are in T.
Places(s, T) == {i \in DOMAIN s : s[i] \in T}
Count(s, T) == Cardinality(Places(s, T))

\* A sequence has finitely many places.
LEMMA PlacesFinite ==
    ASSUME NEW S, NEW s \in Seq(S), NEW T
    PROVE  IsFiniteSet(Places(s, T)) /\ Count(s, T) \in Nat
<1>1. DOMAIN s = 1..Len(s) /\ Len(s) \in Nat
  BY LenProperties
<1>2. IsFiniteSet(1..Len(s))
  BY <1>1, FS_Interval
<1>3. Places(s, T) \in SUBSET (1..Len(s))
  BY <1>1 DEF Places
<1>4. IsFiniteSet(Places(s, T))
  BY <1>2, <1>3, FS_Subset
<1> QED
  BY <1>4, FS_CardinalityType DEF Count

\* push_back adds the element that it pushes.
LEMMA CountAppend ==
    ASSUME NEW S, NEW s \in Seq(S), NEW e \in S, NEW T
    PROVE  Count(Append(s, e), T) = Count(s, T) + (IF e \in T THEN 1 ELSE 0)
<1> DEFINE n == Len(s)
           a == Append(s, e)
<1>1. /\ n \in Nat /\ DOMAIN s = 1..n /\ DOMAIN a = 1..(n + 1)
      /\ \A i \in 1..n : a[i] = s[i]
      /\ a[n + 1] = e
  BY AppendProperties, LenProperties
<1> HIDE DEF n, a
<1>2. IsFiniteSet(Places(s, T)) /\ Count(s, T) \in Nat
  BY PlacesFinite
<1>3. n + 1 \notin Places(s, T)
  BY <1>1 DEF Places
<1>4. CASE e \in T
  <2>1. Places(a, T) = Places(s, T) \cup {n + 1}
    BY <1>1, <1>4 DEF Places
  <2>2. Cardinality(Places(s, T) \cup {n + 1}) = Cardinality(Places(s, T)) + 1
    BY <1>2, <1>3, FS_AddElement
  <2> QED
    BY <1>4, <2>1, <2>2 DEF Count, a
<1>5. CASE e \notin T
  <2>1. Places(a, T) = Places(s, T)
    BY <1>1, <1>5 DEF Places
  <2> QED
    BY <1>2, <1>5, <2>1 DEF Count, a
<1> QED
  BY <1>4, <1>5

\* Taking the first element out takes nothing else out.
LEMMA CountTail ==
    ASSUME NEW S, NEW s \in Seq(S), s # <<>>, NEW T
    PROVE  Count(s, T) = Count(Tail(s), T) + (IF Head(s) \in T THEN 1 ELSE 0)
<1> DEFINE n == Len(s)
           b == Tail(s)
           f == [i \in Places(b, T) |-> i + 1]
<1>1. /\ n \in Nat /\ n >= 1 /\ DOMAIN s = 1..n /\ DOMAIN b = 1..(n - 1)
      /\ b \in Seq(S) /\ Head(s) = s[1]
      /\ \A i \in 1..(n - 1) : b[i] = s[i + 1]
  BY HeadTailProperties, LenProperties
<1> HIDE DEF n, b
<1>2. /\ IsFiniteSet(Places(s, T)) /\ Count(s, T) \in Nat
      /\ IsFiniteSet(Places(b, T)) /\ Count(b, T) \in Nat
  BY <1>1, PlacesFinite
<1>3. f \in [Places(b, T) -> Places(s, T) \ {1}]
  BY <1>1 DEF Places
<1>4. \A i, j \in Places(b, T) : f[i] = f[j] => i = j
  BY <1>1 DEF Places
<1>5. \A j \in Places(s, T) \ {1} : \E i \in Places(b, T) : f[i] = j
  <2> SUFFICES ASSUME NEW j \in Places(s, T) \ {1}
               PROVE  \E i \in Places(b, T) : f[i] = j
    OBVIOUS
  <2>1. j - 1 \in Places(b, T)
    BY <1>1 DEF Places
  <2>2. f[j - 1] = j
    BY <1>1, <2>1 DEF Places
  <2> QED
    BY <2>1, <2>2
<1> HIDE DEF f
<1>6. ExistsBijection(Places(b, T), Places(s, T) \ {1})
  <2>1. f \in Injection(Places(b, T), Places(s, T) \ {1})
    BY <1>3, <1>4 DEF Injection, IsInjective
  <2>2. f \in Surjection(Places(b, T), Places(s, T) \ {1})
    BY <1>3, <1>5 DEF Surjection
  <2> QED
    BY <2>1, <2>2 DEF ExistsBijection, Bijection
<1>7. Cardinality(Places(s, T) \ {1}) = Count(b, T)
  BY <1>2, <1>6, FS_Bijection DEF Count
<1>8. Cardinality(Places(s, T) \ {1})
         = IF 1 \in Places(s, T) THEN Count(s, T) - 1 ELSE Count(s, T)
  BY <1>2, FS_RemoveElement DEF Count
<1>9. 1 \in Places(s, T) <=> Head(s) \in T
  BY <1>1 DEF Places
<1> QED
  BY <1>2, <1>7, <1>8, <1>9 DEF b

\* The records and the queued events of a task.
RecordsOf(t) == {r \in Record : r.tid = t}
CallsOf(t) == {e \in Event : e.kind = "syscall" /\ e.tid = t}

\* The calls of a task that are done are got, lost, queued or in the ring.
Accounted(t) ==
    done[t] = got[t] + lost[t] + Count(queue, CallsOf(t)) + Count(EVENTS, RecordsOf(t))

\* NothingVanishes, said with Count.
LEMMA AccountedFor ==
    ASSUME TypeOK
    PROVE  NothingVanishes <=> \A t \in Task : Accounted(t)
<1>1. ASSUME NEW t \in Task
      PROVE  /\ Places(queue, CallsOf(t))
                   = {i \in DOMAIN queue : queue[i].kind = "syscall" /\ queue[i].tid = t}
             /\ Places(EVENTS, RecordsOf(t)) = {i \in DOMAIN EVENTS : EVENTS[i].tid = t}
  BY ElementTypes DEF Places, CallsOf, RecordsOf
<1> QED
  BY <1>1 DEF NothingVanishes, Accounted, Count

\* The programs in the kernel account for every call that they complete.
LEMMA AccountKernel ==
    ASSUME TypeOK, KernelStep, NEW x \in Task, Accounted(x)
    PROVE  Accounted(x)'
<1> USE DEF TypeOK
<1>1. /\ Count(queue, CallsOf(x)) \in Nat /\ Count(EVENTS, RecordsOf(x)) \in Nat
      /\ done[x] \in Nat /\ got[x] \in Nat /\ lost[x] \in Nat
  BY PlacesFinite
<1>2. ASSUME UNCHANGED <<done, got, lost, queue, EVENTS>>
      PROVE  Accounted(x)'
  BY <1>2 DEF Accounted
<1>3. ASSUME NEW t \in Task, SysExit(t)
      PROVE  Accounted(x)'
  <2>0. UNCHANGED <<queue, got>>
    BY <1>3 DEF SysExit, userVars
  <2>1. CASE ENTERS[t] = 0
    BY <1>2, <1>3, <2>0, <2>1 DEF SysExit, EnterKey
  <2>2. CASE ENTERS[t] # 0 /\ Len(EVENTS) < RingSize
    <3> DEFINE r == [tid |-> t, call |-> ENTERS[t], ret |-> ncall[t], state |-> "busy"]
    <3>1. /\ EVENTS' = Append(EVENTS, r) /\ lost' = lost
          /\ done' = [done EXCEPT ![t] = @ + 1]
      BY <1>3, <2>2 DEF SysExit, EnterKey
    <3>2. r \in Record /\ (r \in RecordsOf(x) <=> t = x)
      BY DEF Record, RecordsOf
    <3> HIDE DEF r
    <3>3. Count(EVENTS', RecordsOf(x))
             = Count(EVENTS, RecordsOf(x)) + (IF t = x THEN 1 ELSE 0)
      BY <3>1, <3>2, CountAppend
    <3>4. done'[x] = done[x] + (IF t = x THEN 1 ELSE 0)
      BY <3>1
    <3>5. Count(queue', CallsOf(x)) = Count(queue, CallsOf(x))
          /\ got'[x] = got[x] /\ lost'[x] = lost[x]
      BY <2>0, <3>1
    <3> QED
      BY <1>1, <3>3, <3>4, <3>5 DEF Accounted
  <2>3. CASE ENTERS[t] # 0 /\ ~(Len(EVENTS) < RingSize)
    <3>1. /\ EVENTS' = EVENTS
          /\ done' = [done EXCEPT ![t] = @ + 1] /\ lost' = [lost EXCEPT ![t] = @ + 1]
      BY <1>3, <2>3 DEF SysExit, EnterKey
    <3>2. /\ done'[x] = done[x] + (IF t = x THEN 1 ELSE 0)
          /\ lost'[x] = lost[x] + (IF t = x THEN 1 ELSE 0)
      BY <3>1
    <3>3. /\ Count(queue', CallsOf(x)) = Count(queue, CallsOf(x))
          /\ Count(EVENTS', RecordsOf(x)) = Count(EVENTS, RecordsOf(x))
          /\ got'[x] = got[x]
      BY <2>0, <3>1
    <3>4. Accounted(x)
      OBVIOUS
    <3> HIDE DEF TypeOK
    <3>5. CASE t = x
      BY <1>1, <3>2, <3>3, <3>4, <3>5 DEF Accounted
    <3>6. CASE t # x
      BY <1>1, <3>2, <3>3, <3>4, <3>6 DEF Accounted
    <3> QED
      BY <3>5, <3>6
  <2> QED
    BY <2>1, <2>2, <2>3
<1>4. ASSUME NEW t \in Task, Submit(t)
      PROVE  Accounted(x)'
  <2>1. UNCHANGED <<done, got, lost, queue>>
    BY <1>4 DEF Submit, userVars
  <2>2. DOMAIN EVENTS' = DOMAIN EVENTS
    BY <1>4 DEF Submit
  <2>3. ASSUME NEW i \in DOMAIN EVENTS
        PROVE  EVENTS'[i] \in RecordsOf(x) <=> EVENTS[i] \in RecordsOf(x)
    <3>1. EVENTS[i] \in Record
      BY <2>3
    <3>2. EVENTS'[i] \in {EVENTS[i], [EVENTS[i] EXCEPT !.state = "ready"]}
      BY <1>4, <2>3 DEF Submit
    <3>3. \A r \in Record : LET s == [r EXCEPT !.state = "ready"]
                            IN  s \in Record /\ s.tid = r.tid
      BY DEF Record
    <3> QED
      BY <3>1, <3>2, <3>3 DEF RecordsOf
  <2>4. Places(EVENTS', RecordsOf(x)) = Places(EVENTS, RecordsOf(x))
    BY <2>2, <2>3 DEF Places
  <2> QED
    BY <2>1, <2>4 DEF Accounted, Count
<1> QED
  BY <1>2, <1>3, <1>4
     DEF KernelStep, SysEnter, Fork, Die, ExecTakesOver, TidReused, userVars

\* next_event moves what the ring holds to the queue and on to the caller.
LEMMA AccountUser ==
    ASSUME TypeOK, UserStep, NEW x \in Task, Accounted(x)
    PROVE  Accounted(x)'
<1> USE DEF TypeOK
<1>1. /\ Count(queue, CallsOf(x)) \in Nat /\ Count(EVENTS, RecordsOf(x)) \in Nat
      /\ done[x] \in Nat /\ got[x] \in Nat /\ lost[x] \in Nat
  BY PlacesFinite
<1>2. ASSUME UNCHANGED <<done, got, lost, queue, EVENTS>>
      PROVE  Accounted(x)'
  BY <1>2 DEF Accounted
<1>3. CASE Pop /\ queue # <<>>
  <2> DEFINE e == Head(queue)
  <2>1. /\ queue' = Tail(queue) /\ UNCHANGED <<done, lost, EVENTS>>
        /\ got' = IF e.kind = "syscall" THEN [got EXCEPT ![e.tid] = @ + 1] ELSE got
    BY <1>3 DEF Pop, kernelVars
  <2>2. e \in Event /\ e.tid \in Task
    <3>1. e \in Event
      BY <1>3
    <3> QED
      BY <3>1 DEF Event
  <2>3. e \in CallsOf(x) <=> e.kind = "syscall" /\ e.tid = x
    BY <2>2 DEF CallsOf
  <2>4. Count(queue, CallsOf(x))
           = Count(queue', CallsOf(x)) + (IF e \in CallsOf(x) THEN 1 ELSE 0)
    BY <1>3, <2>1, CountTail
  <2>5. Count(queue', CallsOf(x)) \in Nat
    <3>1. Tail(queue) \in Seq(Event)
      BY <1>3
    <3> QED
      BY <2>1, <3>1, PlacesFinite
  <2> HIDE DEF e
  <2>6. got'[x] = got[x] + (IF e \in CallsOf(x) THEN 1 ELSE 0)
    BY <2>1, <2>2, <2>3
  <2>7. /\ Count(EVENTS', RecordsOf(x)) = Count(EVENTS, RecordsOf(x))
        /\ done'[x] = done[x] /\ lost'[x] = lost[x]
    BY <2>1
  <2> QED
    BY <1>1, <2>4, <2>5, <2>6, <2>7 DEF Accounted
<1>4. CASE Pop /\ queue = <<>>
  BY <1>2, <1>4 DEF Pop, kernelVars
<1>5. CASE DrainRing
  <2> DEFINE r == Head(EVENTS)
             e == RecordToEvent(r)
  <2>1. /\ EVENTS # <<>> /\ EVENTS' = Tail(EVENTS) /\ queue' = Append(queue, e)
        /\ UNCHANGED <<done, got, lost>>
    BY <1>5 DEF DrainRing, RingReady, PushBack, kernelVars
  <2>2. r \in Record
    BY <2>1
  <2>3. e \in Event /\ (e \in CallsOf(x) <=> r \in RecordsOf(x))
    BY <2>2 DEF RecordToEvent, Record, Event, CallsOf, RecordsOf
  <2> HIDE DEF e
  <2>4. Count(EVENTS, RecordsOf(x))
           = Count(EVENTS', RecordsOf(x)) + (IF r \in RecordsOf(x) THEN 1 ELSE 0)
    BY <2>1, CountTail
  <2>5. Count(EVENTS', RecordsOf(x)) \in Nat
    <3>1. Tail(EVENTS) \in Seq(Record)
      BY <2>1
    <3> QED
      BY <2>1, <3>1, PlacesFinite
  <2>6. Count(queue', CallsOf(x))
           = Count(queue, CallsOf(x)) + (IF e \in CallsOf(x) THEN 1 ELSE 0)
    BY <2>1, <2>3, CountAppend
  <2> HIDE DEF r
  <2> QED
    BY <1>1, <2>1, <2>3, <2>4, <2>5, <2>6 DEF Accounted
<1>6. CASE EnqueueExit
  <2>1. queue' = Append(queue, ProcessExit) /\ UNCHANGED <<done, got, lost, EVENTS>>
    BY <1>6 DEF EnqueueExit, PushBack, kernelVars
  <2>2. ProcessExit \in Event /\ ProcessExit \notin CallsOf(x)
    BY EventTypes DEF ProcessExit, CallsOf
  <2>3. Count(queue', CallsOf(x)) = Count(queue, CallsOf(x)) + 0
    BY <2>1, <2>2, CountAppend
  <2> QED
    BY <1>1, <2>1, <2>3 DEF Accounted
<1> QED
  BY <1>2, <1>3, <1>4, <1>5, <1>6
     DEF UserStep, NextEvent, Drained, CheckLiveness, WaitRing, kernelVars

\* Every completed call of a traced task is with the caller, in the queue, in the
\* ring, or was lost to a full ring: exactly one of these.
THEOREM NothingVanishesHolds == Spec => []NothingVanishes
<1>1. ASSUME Init
      PROVE  \A t \in Task : Accounted(t)
  <2>1. ASSUME NEW T
        PROVE  Count(<<>>, T) = 0
    <3>1. Places(<<>>, T) = {}
      BY DEF Places
    <3> QED
      BY <3>1, FS_EmptySet DEF Count
  <2>2. queue = <<>> /\ EVENTS = <<>>
        /\ \A t \in Task : done[t] = 0 /\ got[t] = 0 /\ lost[t] = 0
    BY <1>1 DEF Init
  <2> QED
    BY <2>1, <2>2 DEF Accounted
<1>2. ASSUME TypeOK, NothingVanishes, [Next]_vars
      PROVE  NothingVanishes'
  <2>1. \A t \in Task : Accounted(t)
    BY <1>2, AccountedFor
  <2>2. CASE UNCHANGED vars
    BY <1>2, <2>2 DEF vars, kernelVars, userVars, NothingVanishes
  <2>3. CASE KernelStep \/ UserStep
    <3>1. \A t \in Task : Accounted(t)'
      BY <1>2, <2>1, <2>3, AccountKernel, AccountUser
    <3>2. TypeOK'
      BY <1>2, NextType
    <3>3. (TypeOK => (NothingVanishes <=> \A t \in Task : Accounted(t)))'
      BY AccountedFor, PTL
    <3> QED
      BY <3>1, <3>2, <3>3
  <2> QED
    BY <1>2, <2>2, <2>3 DEF Next, Stutter
<1>3. Init => NothingVanishes
  BY <1>1, InitType, AccountedFor
<1> QED
  BY <1>2, <1>3, TypeCorrect, PTL DEF Spec

-----------------------------------------------------------------------------
(* The end of the program.                                                 *)

\* Without --follow the targets stay the ones of the start, and once
\* liveness_done has said so, their processes are dead and, as long as no tid is
\* handed out again, stay dead.
EndInv ==
    ~Follow =>
    /\ TARGETS = Target
    /\ Reuse = 0 /\ (finished \/ pc = "drain_exit") =>
          \A t \in Task : grp[t] \in Target => Dead(t)
    /\ pc = "none" => finished

\* A group that liveness_done found dead stays dead, whatever the tasks do.
LEMMA DeadForGood ==
    ASSUME TypeOK, GroupsInv, [Next]_vars, KernelStep, Reuse = 0,
           \A t \in Task : grp[t] \in Target => Dead(t)
    PROVE  \A t \in Task : grp'[t] \in Target => Dead(t)'
<1> USE DEF TypeOK
<1>1. ASSUME NEW t \in Task, NEW s, run' = [run EXCEPT ![t] = s], ~Dead(t), grp' = grp
      PROVE  \A x \in Task : grp'[x] \in Target => Dead(x)'
  BY <1>1 DEF Dead
<1>2. ASSUME NEW t \in Task, SysEnter(t) \/ SysExit(t) \/ Submit(t) \/ Die(t)
      PROVE  /\ \E s : run' = [run EXCEPT ![t] = s]
             /\ ~Dead(t) /\ grp' = grp
  BY <1>2 DEF SysEnter, SysExit, Submit, Die, Dead
<1>3. ASSUME NEW t \in Task, NEW u \in Task, NEW g \in Task, Fork(t, u, g)
      PROVE  \A x \in Task : grp'[x] \in Target => Dead(x)'
  <2>1. /\ run[t] = "kernel" /\ Free(u) /\ (g = u \/ g = grp[t])
        /\ run' = [run EXCEPT ![u] = "kernel"] /\ grp' = [grp EXCEPT ![u] = g]
    BY <1>3 DEF Fork
  <2>2. grp[t] \notin Target /\ u \notin Target
    BY <2>1, FreeIsNew DEF GroupsInv, Dead
  <2> QED
    BY <2>1, <2>2 DEF Dead
<1>4. ASSUME NEW t \in Task, ExecTakesOver(t)
      PROVE  \A x \in Task : grp'[x] \in Target => Dead(x)'
  <2>1. PICK l \in Task : l = grp[t]
    OBVIOUS
  <2>2. /\ run[t] = "kernel" /\ l # t /\ grp' = grp
        /\ run' = [run EXCEPT ![l] = "kernel", ![t] = "dead"]
    BY <1>4, <2>1 DEF ExecTakesOver
  <2>3. ~Dead(t)
    BY <2>2 DEF Dead
  <2>4. l \notin Target /\ grp[l] = l
    BY <2>1, <2>3 DEF GroupsInv
  <2> QED
    BY <2>2, <2>4 DEF Dead
<1>5. ASSUME NEW t \in Task, TidReused(t)
      PROVE  \A x \in Task : grp'[x] \in Target => Dead(x)'
  BY <1>5, FreeIsNew DEF TidReused
<1> QED
  BY <1>1, <1>2, <1>3, <1>4, <1>5 DEF KernelStep

\* Every step keeps what next_event concluded from liveness_done true.
LEMMA EndStep ==
    ASSUME TypeOK, GroupsInv, EndInv, [Next]_vars
    PROVE  EndInv'
<1> SUFFICES ASSUME ~Follow PROVE EndInv'
  BY DEF EndInv
<1>1. /\ TARGETS = Target
      /\ Reuse = 0 /\ (finished \/ pc = "drain_exit") =>
            \A t \in Task : grp[t] \in Target => Dead(t)
      /\ pc = "none" => finished
  BY DEF EndInv
<1>2. CASE UNCHANGED vars
  BY <1>1, <1>2 DEF vars, kernelVars, userVars, EndInv, Target, Spawned, Dead
<1>3. CASE KernelStep
  <2>1. UNCHANGED <<TARGETS, watch, finished, pc>>
    BY <1>3 DEF KernelStep, SysEnter, SysExit, Submit, Fork, TryFork, Die,
                ExecTakesOver, TidReused, userVars
  <2>2. Target' = Target
    BY <2>1 DEF Target, Spawned
  <2> QED
    BY <1>1, <1>3, <2>1, <2>2, DeadForGood DEF EndInv
<1>4. CASE UserStep
  <2>1. UNCHANGED <<kernelVars, watch>> /\ Target' = Target
    BY <1>4 DEF UserStep, NextEvent, Pop, DrainRing, Drained, CheckLiveness,
                EnqueueExit, WaitRing, Target, Spawned
  <2>2. \A t \in Task : Dead(t)' <=> Dead(t)
    BY <2>1 DEF kernelVars, Dead
  <2>3. CASE CheckLiveness /\ LivenessDone
    <3>1. \A p \in Target : GroupDead(p)
      BY <2>3 DEF LivenessDone, Target, PidAlive
    <3>2. \A t \in Task : grp[t] \in Target => Dead(t)
      BY <3>1 DEF GroupDead, TypeOK
    <3>3. pc' = "drain_exit"
      BY <2>3 DEF CheckLiveness
    <3> QED
      BY <1>1, <2>1, <2>2, <3>2, <3>3 DEF EndInv, kernelVars, TypeOK
  <2>4. CASE ~(CheckLiveness /\ LivenessDone)
    <3>1. /\ finished' \/ pc' = "drain_exit" => finished \/ pc = "drain_exit"
          /\ pc' = "none" => finished'
      BY <1>1, <1>4, <2>4 DEF UserStep, NextEvent, Pop, DrainRing, Drained, CheckLiveness,
                         EnqueueExit, WaitRing
    <3> QED
      BY <1>1, <2>1, <2>2, <3>1 DEF EndInv, kernelVars, TypeOK
  <2> QED
    BY <2>3, <2>4
<1> QED
  BY <1>2, <1>3, <1>4 DEF Next, Stutter

\* What next_event knows of the end of the thread groups.
LEMMA EndInvariance == Spec => [](TypeOK /\ GroupsInv /\ EndInv)
<1>1. Init => EndInv
  BY DEF Init, EndInv
<1>2. TypeOK /\ GroupsInv /\ EndInv /\ [Next]_vars => EndInv'
  BY EndStep
<1> QED
  BY <1>1, <1>2, GroupsInvariance, PTL DEF Spec

\* Without --follow, and as long as no tid is handed out again, next_event says that
\* it is over only when every traced task has exited, also when the execve of a
\* thread brings a dead tid back.
THEOREM NoneMeansAllExitedHolds ==
    Spec => [](~Follow /\ Reuse = 0 => NoneMeansAllExited)
<1>1. GroupsInv /\ EndInv => (~Follow /\ Reuse = 0 => NoneMeansAllExited)
  BY DEF GroupsInv, EndInv, NoneMeansAllExited
<1> QED
  BY <1>1, EndInvariance, PTL
-----------------------------------------------------------------------------
(* The exit comes last.                                                    *)

\* A record is of a target, and the one who writes it is still at it.
RecordOK(r) == r.tid \in TARGETS /\ (r.state = "busy" => run[r.tid] = "submit")
RingInv == \A i \in DOMAIN EVENTS : RecordOK(EVENTS[i])

\* The ProcessExit is queued once, when the rest of the queue was there already,
\* and next_event drains the ring into a queue without it.
QueueInv ==
    /\ pc \in {"alive", "drain_exit", "poll"} => ~finished
    /\ pc # "idle" => out.kind = "none"
    /\ \A i \in DOMAIN queue : queue[i].kind = "exit" =>
          finished /\ pc # "drain" /\ i = Len(queue)
    /\ out.kind = "exit" => finished /\ queue = <<>>
    /\ pc = "none" => finished /\ queue = <<>>

\* Without --follow and without reuse of tids a single traced process leaves
\* nothing in the ring once it is finished.
LastInv ==
    Reuse = 0 /\ ~Follow /\ Target = {Leader} /\ finished => EVENTS = <<>>

\* The tasks and the in-kernel programs keep a busy record with its writer.
LEMMA RingKernel ==
    ASSUME TypeOK, MapInv, GroupsInv, RingInv, [Next]_vars, KernelStep
    PROVE  RingInv'
<1> USE DEF TypeOK
<1>0. /\ TARGETS \subseteq TARGETS'
      /\ \A i \in DOMAIN EVENTS : EVENTS[i] \in Record /\ EVENTS[i].tid \in Task
  BY TargetsGrow, ElementTypes
<1>1. ASSUME EVENTS' = EVENTS, \A x \in Task : run[x] = "submit" => run'[x] = "submit"
      PROVE  RingInv'
  BY <1>0, <1>1 DEF RingInv, RecordOK
<1>2. ASSUME NEW t \in Task, SysEnter(t) \/ Die(t) \/ TidReused(t)
      PROVE  RingInv'
  BY <1>1, <1>2 DEF SysEnter, Die, TidReused
<1>3. ASSUME NEW t \in Task, NEW u \in Task, NEW g \in Task, Fork(t, u, g)
      PROVE  RingInv'
  BY <1>1, <1>3 DEF Fork, Free, Dead
<1>4. ASSUME NEW t \in Task, ExecTakesOver(t)
      PROVE  RingInv'
  <2>1. PICK l \in Task : l = grp[t]
    OBVIOUS
  <2>2. /\ run[t] = "kernel" /\ l # t /\ (grp[l] = l => Dead(l))
        /\ run' = [run EXCEPT ![l] = "kernel", ![t] = "dead"] /\ EVENTS' = EVENTS
    BY <1>4, <2>1 DEF ExecTakesOver
  <2>3. Dead(l)
    BY <2>1, <2>2 DEF GroupsInv, Dead
  <2> QED
    BY <1>1, <2>2, <2>3 DEF Dead
<1>5. ASSUME NEW t \in Task, SysExit(t)
      PROVE  RingInv'
  <2>1. CASE EVENTS' = EVENTS
    BY <1>1, <1>5, <2>1 DEF SysExit
  <2>2. CASE EVENTS' # EVENTS
    <3> DEFINE r == [tid |-> t, call |-> ENTERS[t], ret |-> ncall[t], state |-> "busy"]
    <3>1. /\ run[t] = "kernel" /\ ENTERS[t] # 0 /\ EVENTS' = Append(EVENTS, r)
          /\ run' = [run EXCEPT ![t] = "submit"] /\ TARGETS' = TARGETS
      BY <1>5, <2>2 DEF SysExit, EnterKey
    <3>2. r \in Record /\ r.tid = t
      BY DEF Record
    <3> HIDE DEF r
    <3>3. t \in TARGETS
      BY <3>1 DEF MapInv, EnterKeys
    <3>4. \A i \in DOMAIN EVENTS' : EVENTS'[i] = r
                                    \/ (i \in DOMAIN EVENTS /\ EVENTS'[i] = EVENTS[i])
      BY <3>1, <3>2, AppendProperties
    <3> QED
      BY <1>0, <3>1, <3>2, <3>3, <3>4 DEF RingInv, RecordOK
  <2> QED
    BY <2>1, <2>2
<1>6. ASSUME NEW t \in Task, Submit(t)
      PROVE  RingInv'
  <2>1. run[t] = "submit" /\ run' = [run EXCEPT ![t] = "user"]
    BY <1>6 DEF Submit
  <2>2. ASSUME NEW i \in DOMAIN EVENTS'
        PROVE  /\ i \in DOMAIN EVENTS /\ EVENTS'[i].tid = EVENTS[i].tid
               /\ EVENTS'[i].state = IF EVENTS[i].tid = t THEN "ready" ELSE EVENTS[i].state
    <3>1. i \in DOMAIN EVENTS
      BY <1>6, <2>2 DEF Submit
    <3>2. EVENTS[i] \in Record
      BY <3>1
    <3> QED
      BY <1>6, <3>1, <3>2 DEF Submit, Record
  <2> QED
    BY <1>0, <2>1, <2>2 DEF RingInv, RecordOK
<1> QED
  BY <1>2, <1>3, <1>4, <1>5, <1>6 DEF KernelStep

\* Every step keeps the ring in order.
LEMMA RingStep ==
    ASSUME TypeOK, MapInv, GroupsInv, RingInv, [Next]_vars
    PROVE  RingInv'
<1>1. CASE UserStep \/ UNCHANGED vars
  <2>1. /\ UNCHANGED <<run, TARGETS>>
        /\ \/ EVENTS' = EVENTS
           \/ EVENTS # <<>> /\ EVENTS' = Tail(EVENTS)
    BY <1>1 DEF UserStep, NextEvent, Pop, DrainRing, RingReady, Drained, CheckLiveness,
                EnqueueExit, WaitRing, vars, kernelVars
  <2>2. CASE EVENTS' = EVENTS
    BY <2>1, <2>2 DEF RingInv, RecordOK
  <2>3. CASE EVENTS # <<>> /\ EVENTS' = Tail(EVENTS)
    <3>1. \A i \in DOMAIN EVENTS' : i + 1 \in DOMAIN EVENTS /\ EVENTS'[i] = EVENTS[i + 1]
      BY <2>3, HeadTailProperties, LenProperties DEF TypeOK
    <3> QED
      BY <2>1, <3>1 DEF RingInv, RecordOK
  <2> QED
    BY <2>1, <2>2, <2>3
<1> QED
  BY <1>1, RingKernel DEF Next, Stutter

\* Every step keeps the exit at the end of the queue.
LEMMA QueueStep ==
    ASSUME TypeOK, QueueInv, [Next]_vars
    PROVE  QueueInv'
<1>0. DOMAIN queue = 1..Len(queue) /\ Len(queue) \in Nat /\ queue \in Seq(Event)
  BY DEF TypeOK
<1>1. CASE KernelStep \/ UNCHANGED vars
  <2>1. UNCHANGED userVars
    BY <1>1 DEF KernelStep, SysEnter, SysExit, Submit, Fork, Die, ExecTakesOver,
                TidReused, vars
  <2> QED
    BY <2>1 DEF userVars, QueueInv
<1>2. CASE NextEvent
  BY <1>2 DEF NextEvent, NoEvent, QueueInv
<1>3. CASE Pop
  <2>1. CASE queue # <<>>
    <3>1. /\ out' = Head(queue) /\ queue' = Tail(queue) /\ pc' = "idle"
          /\ finished' = finished
      BY <1>3, <2>1 DEF Pop
    <3>2. Head(queue) = queue[1] /\ 1 \in DOMAIN queue
      BY <1>0, <2>1, HeadTailProperties
    <3>3. /\ Len(queue') = Len(queue) - 1 /\ queue' \in Seq(Event)
          /\ \A i \in DOMAIN queue' : i \in Nat /\ i + 1 \in DOMAIN queue
                                      /\ queue'[i] = queue[i + 1]
      BY <1>0, <2>1, <3>1, HeadTailProperties, LenProperties
    <3>4. queue[1].kind = "exit" => queue' = <<>> /\ finished
      <4>1. queue[1].kind = "exit" => Len(queue) = 1 /\ finished
        BY <3>2 DEF QueueInv
      <4>2. Len(queue) = 1 => queue' = <<>>
        BY <3>3, EmptySeq
      <4> QED
        BY <4>1, <4>2
    <3>5. ASSUME NEW i \in DOMAIN queue', queue'[i].kind = "exit"
          PROVE  finished /\ i = Len(queue')
      <4>1. queue[i + 1].kind = "exit" /\ i + 1 \in DOMAIN queue /\ i \in Nat
        BY <3>3, <3>5
      <4>2. finished /\ i + 1 = Len(queue)
        BY <4>1 DEF QueueInv
      <4> QED
        BY <1>0, <3>3, <4>1, <4>2
    <3> QED
      BY <3>1, <3>2, <3>4, <3>5 DEF QueueInv
  <2>2. CASE queue = <<>>
    <3>1. DOMAIN queue = {}
      BY <2>2
    <3> QED
      BY <1>3, <2>2, <3>1 DEF Pop, QueueInv
  <2> QED
    BY <2>1, <2>2
<1>4. CASE DrainRing
  <2> DEFINE e == RecordToEvent(Head(EVENTS))
  <2>1. /\ queue' = Append(queue, e) /\ UNCHANGED <<finished, pc, out>>
        /\ pc \in {"drain", "drain_exit"}
    BY <1>4 DEF DrainRing, PushBack
  <2>2. e \in Event /\ e.kind = "syscall"
    <3>1. Head(EVENTS) \in Record
      BY <1>4 DEF DrainRing, RingReady, TypeOK
    <3> QED
      BY <3>1 DEF RecordToEvent, Record, Event
  <2> HIDE DEF e
  <2>3. \A i \in DOMAIN queue' : queue'[i] = e \/ (i \in DOMAIN queue /\ queue'[i] = queue[i])
    BY <1>0, <2>1, <2>2, AppendProperties
  <2>4. \A i \in DOMAIN queue' : queue'[i].kind # "exit"
    BY <2>1, <2>2, <2>3 DEF QueueInv
  <2> QED
    BY <2>1, <2>4 DEF QueueInv
<1>5. CASE EnqueueExit
  <2>1. /\ queue' = Append(queue, ProcessExit) /\ finished' /\ pc' = "pop"
        /\ out' = out /\ pc = "drain_exit"
    BY <1>5 DEF EnqueueExit, PushBack
  <2>2. ProcessExit \in Event
    BY EventTypes
  <2>3. /\ \A i \in DOMAIN queue' : i = Len(queue') \/ (i \in DOMAIN queue /\ queue'[i] = queue[i])
    BY <1>0, <2>1, <2>2, AppendProperties
  <2> QED
    BY <2>1, <2>3 DEF QueueInv
<1>6. CASE Drained \/ CheckLiveness \/ WaitRing
  BY <1>6 DEF Drained, CheckLiveness, WaitRing, QueueInv
<1> QED
  BY <1>1, <1>2, <1>3, <1>4, <1>5, <1>6 DEF Next, UserStep, Stutter

\* When the single traced process is dead and the ring has nothing ready, the
\* ring is empty: nobody is left who would be writing to it.
LEMMA NothingBusy ==
    ASSUME TypeOK, RingInv, ~RingReady, TARGETS = {Leader}, Dead(Leader)
    PROVE  EVENTS = <<>>
<1> SUFFICES ASSUME EVENTS # <<>> PROVE FALSE
  OBVIOUS
<1>1. 1 \in DOMAIN EVENTS /\ Head(EVENTS) = EVENTS[1] /\ EVENTS[1] \in Record
  BY HeadTailProperties, LenProperties DEF TypeOK
<1>2. EVENTS[1].state = "busy"
  BY <1>1 DEF RingReady, Record
<1>3. EVENTS[1].tid = Leader /\ run[Leader] = "submit"
  BY <1>1, <1>2 DEF RingInv, RecordOK
<1> QED
  BY <1>3 DEF Dead

\* Every step keeps the ring of a finished process empty.
LEMMA LastStep ==
    ASSUME TypeOK, MapInv, GroupsInv, EndInv, RingInv, LastInv, [Next]_vars
    PROVE  LastInv'
<1>1. Target' = Target
  BY WatchKept
<1> SUFFICES ASSUME Reuse = 0, ~Follow, Target = {Leader}, finished' PROVE EVENTS' = <<>>
  BY <1>1 DEF LastInv
<1>2. /\ TARGETS = {Leader} /\ Leader \in Task /\ grp[Leader] = Leader
      /\ finished \/ pc = "drain_exit" => Dead(Leader)
  BY DEF LastInv, EndInv, GroupsInv
<1>3. CASE ~finished
  <2>1. EnqueueExit
    BY <1>3 DEF Next, UserStep, NextEvent, Pop, DrainRing, Drained, CheckLiveness,
                WaitRing, KernelStep, SysEnter, SysExit, Submit, Fork, Die,
                ExecTakesOver, TidReused, Stutter, vars, userVars
  <2> QED
    BY <1>2, <2>1, NothingBusy DEF EnqueueExit
<1>4. CASE finished
  <2>1. EVENTS = <<>> /\ Dead(Leader)
    BY <1>2, <1>4 DEF LastInv
  <2>2. CASE UserStep \/ UNCHANGED vars
    BY <2>1, <2>2 DEF UserStep, NextEvent, Pop, DrainRing, RingReady, Drained,
                      CheckLiveness, EnqueueExit, WaitRing, vars
  <2>3. ASSUME NEW t \in Task, SysExit(t)
        PROVE  EVENTS' = <<>>
    <3>1. t \notin TARGETS
      BY <1>2, <2>1, <2>3 DEF SysExit, Dead
    <3>2. ENTERS[t] = 0
      BY <3>1 DEF MapInv, EnterKeys
    <3> QED
      BY <2>1, <2>3, <3>2 DEF SysExit, EnterKey
  <2>4. ASSUME NEW t \in Task, Submit(t)
        PROVE  EVENTS' = <<>>
    <3>1. DOMAIN EVENTS' = {} /\ EVENTS' \in Seq(Record)
      BY <2>1, <2>4, NextType DEF Submit, TypeOK
    <3> QED
      BY <3>1, EmptySeq, LenProperties
  <2> QED
    BY <2>1, <2>2, <2>3, <2>4
       DEF Next, KernelStep, SysEnter, Fork, Die, ExecTakesOver, TidReused, Stutter
<1> QED
  BY <1>3, <1>4 DEF TypeOK

\* Without --follow (and without reuse of tids) the ProcessExit of a single traced
\* process comes after every record of its that the ring did not drop.
THEOREM ExitIsLastHolds == Spec => [](Reuse = 0 => ExitIsLast)
<1>1. ASSUME Init
      PROVE  RingInv /\ QueueInv /\ LastInv
  <2>1. DOMAIN EVENTS = {} /\ DOMAIN queue = {} /\ out.kind = "none"
    BY <1>1 DEF Init, NoEvent
  <2> QED
    BY <1>1, <2>1 DEF Init, RingInv, QueueInv, LastInv
<1>2. /\ TypeOK /\ MapInv /\ GroupsInv /\ EndInv
      /\ RingInv /\ QueueInv /\ LastInv /\ [Next]_vars
      => RingInv' /\ QueueInv' /\ LastInv'
  BY RingStep, QueueStep, LastStep
<1>3. ASSUME TypeOK, GroupsInv, QueueInv, LastInv, NothingVanishes
      PROVE  Reuse = 0 => ExitIsLast
  <2> SUFFICES ASSUME Reuse = 0, ~Follow, Target = {Leader},
                      out.kind = "exit" \/ pc = "none"
               PROVE  got[Leader] + lost[Leader] = done[Leader]
    BY DEF ExitIsLast
  <2>1. queue = <<>> /\ EVENTS = <<>> /\ Leader \in Task
    BY <1>3, EbpfAssumption DEF QueueInv, LastInv
  <2>2. /\ {i \in DOMAIN queue : queue[i].kind = "syscall" /\ queue[i].tid = Leader} = {}
        /\ {i \in DOMAIN EVENTS : EVENTS[i].tid = Leader} = {}
    BY <2>1
  <2>3. Cardinality({}) = 0
    BY FS_EmptySet
  <2>4. got[Leader] \in Nat /\ lost[Leader] \in Nat
    BY <1>3, <2>1 DEF TypeOK
  <2>5. done[Leader] = got[Leader] + lost[Leader] + 0 + 0
    BY <1>3, <2>1, <2>2, <2>3 DEF NothingVanishes
  <2> QED
    BY <2>4, <2>5
<1> QED
  BY <1>1, <1>2, <1>3, MapInvariance, EndInvariance, NothingVanishesHolds, PTL DEF Spec
-----------------------------------------------------------------------------
(* The contract of Tracer, with and without --follow, reuse of tids and    *)
(* the execve of a thread.  Pairing may fail (a record may join an entry   *)
(* with an exit that is not its own), but the calls that records name      *)
(* cannot come out of order: for each tid they increase from the last one  *)
(* reported through the queue, the ring and the entry in ENTERS to the     *)
(* number of calls made.                                                   *)

\* The call of a record, or of the event made of it, is later than the last one
\* of its tid that was reported and earlier than the one that is entered.
Between(e) ==
    /\ last[e.tid] < e.call
    /\ e.call <= ncall[e.tid]
    /\ ENTERS[e.tid] # 0 => e.call < ENTERS[e.tid]

TidOrder(t) ==
    /\ last[t] <= ncall[t]
    /\ ENTERS[t] <= ncall[t]
    /\ ENTERS[t] # 0 => last[t] < ENTERS[t]

\* Calls of one tid come in this order.
Precedes(a, b) == a.tid = b.tid => a.call < b.call

RingOrder ==
    /\ \A i \in DOMAIN EVENTS : Between(EVENTS[i])
    /\ \A i, j \in DOMAIN EVENTS : i < j => Precedes(EVENTS[i], EVENTS[j])

QueueOrder ==
    \A i \in DOMAIN queue : queue[i].kind = "syscall" =>
        /\ Between(queue[i])
        /\ \A j \in DOMAIN queue : i < j /\ queue[j].kind = "syscall"
                                       => Precedes(queue[i], queue[j])
        /\ \A j \in DOMAIN EVENTS : Precedes(queue[i], EVENTS[j])

OrderInv ==
    /\ last \in [Task -> Nat]
    /\ pc # "idle" => out.kind = "none"
    /\ \A t \in Task : TidOrder(t)
    /\ RingOrder
    /\ QueueOrder

\* The fields of records and events that the order is about.
LEMMA CallTypes ==
    ASSUME TypeOK
    PROVE  /\ \A i \in DOMAIN EVENTS : EVENTS[i].tid \in Task /\ EVENTS[i].call \in Nat
           /\ \A i \in DOMAIN queue : queue[i].tid \in Task /\ queue[i].call \in Nat
<1>1. /\ \A i \in DOMAIN EVENTS : EVENTS[i] \in Record
      /\ \A i \in DOMAIN queue : queue[i] \in Event
  BY DEF TypeOK
<1>2. /\ \A r \in Record : r.tid \in Task /\ r.call \in Nat
      /\ \A e \in Event : e.tid \in Task /\ e.call \in Nat
  BY DEF Record, Event
<1> QED
  BY <1>1, <1>2

\* No step takes back a system call.
LEMMA CallsGrow ==
    ASSUME TypeOK, KernelStep
    PROVE  \A x \in Task : ncall'[x] >= ncall[x]
<1> USE DEF TypeOK
<1>1. ASSUME NEW t \in Task, ncall' \in {ncall, [ncall EXCEPT ![t] = @ + 1]}
      PROVE  \A x \in Task : ncall'[x] >= ncall[x]
  <2>1. \A x \in Task : ncall[x] \in Nat /\ ncall'[x] \in {ncall[x], ncall[x] + 1}
    BY <1>1
  <2> HIDE DEF TypeOK
  <2> QED
    BY <2>1
<1>2. ASSUME NEW t \in Task,
             SysEnter(t) \/ SysExit(t) \/ Submit(t) \/ Die(t) \/ TidReused(t)
      PROVE  ncall' \in {ncall, [ncall EXCEPT ![t] = @ + 1]}
  BY <1>2 DEF SysEnter, SysExit, Submit, Die, TidReused
<1>3. ASSUME NEW t \in Task, NEW u \in Task, NEW g \in Task, Fork(t, u, g)
      PROVE  ncall' \in {ncall, [ncall EXCEPT ![u] = @ + 1]}
  BY <1>3 DEF Fork
<1>4. ASSUME NEW t \in Task, ExecTakesOver(t)
      PROVE  \E l \in Task : ncall' \in {ncall, [ncall EXCEPT ![l] = @ + 1]}
  BY <1>4 DEF ExecTakesOver
<1> QED
  BY <1>1, <1>2, <1>3, <1>4 DEF KernelStep

\* A step that leaves the entries alone, and of the ring at most the states of
\* the records, keeps the order.
LEMMA OrderKept ==
    ASSUME TypeOK, TypeOK', OrderInv, UNCHANGED <<last, queue, out, pc, ENTERS>>,
           \A x \in Task : ncall'[x] >= ncall[x],
           DOMAIN EVENTS' = DOMAIN EVENTS,
           \A i \in DOMAIN EVENTS : /\ EVENTS'[i].tid = EVENTS[i].tid
                                    /\ EVENTS'[i].call = EVENTS[i].call
    PROVE  OrderInv'
<1>1. ASSUME NEW e, e.tid \in Task, e.call \in Nat, Between(e)
      PROVE  /\ last'[e.tid] < e.call
             /\ e.call <= ncall'[e.tid]
             /\ ENTERS'[e.tid] # 0 => e.call < ENTERS'[e.tid]
  BY <1>1 DEF Between, TypeOK
<1>2. \A t \in Task : TidOrder(t)'
  BY DEF OrderInv, TidOrder, TypeOK
<1>3. RingOrder'
  BY <1>1, CallTypes DEF OrderInv, RingOrder, Between, Precedes
<1>4. QueueOrder'
  BY <1>1, CallTypes DEF OrderInv, QueueOrder, Between, Precedes
<1> QED
  BY <1>2, <1>3, <1>4 DEF OrderInv

\* sys_enter: the call that is entered is the latest of its tid.
LEMMA OrderEnter ==
    ASSUME TypeOK, TypeOK', OrderInv, NEW t \in Task, SysEnter(t), last' = last
    PROVE  OrderInv'
<1> USE DEF TypeOK
<1>1. /\ ncall' = [ncall EXCEPT ![t] = @ + 1]
      /\ UNCHANGED <<EVENTS, queue, out, pc>>
      /\ ENTERS' = ENTERS \/ ENTERS' = [ENTERS EXCEPT ![t] = ncall[t] + 1]
  BY DEF SysEnter, EntersInsert, EnterKey, userVars
<1>2. CASE ENTERS' = ENTERS
  <2>1. \A x \in Task : ncall'[x] >= ncall[x]
    BY CallsGrow DEF KernelStep
  <2> HIDE DEF TypeOK
  <2> QED
    BY <1>1, <1>2, <2>1, OrderKept
<1>3. CASE ENTERS' = [ENTERS EXCEPT ![t] = ncall[t] + 1]
  <2>1. ASSUME NEW e, e.tid \in Task, e.call \in Nat, Between(e)
        PROVE  /\ last'[e.tid] < e.call
               /\ e.call <= ncall'[e.tid]
               /\ ENTERS'[e.tid] # 0 => e.call < ENTERS'[e.tid]
    <3>1. ncall[e.tid] \in Nat /\ last[e.tid] < e.call /\ e.call <= ncall[e.tid]
      BY <2>1 DEF Between
    <3>2. CASE e.tid = t
      <4>1. ncall'[t] = ncall[t] + 1 /\ ENTERS'[t] = ncall[t] + 1
        BY <1>1, <1>3
      <4> HIDE DEF TypeOK
      <4> QED
        BY <2>1, <3>1, <3>2, <4>1
    <3>3. CASE e.tid # t
      <4>1. ncall'[e.tid] = ncall[e.tid] /\ ENTERS'[e.tid] = ENTERS[e.tid]
        BY <1>1, <1>3, <2>1, <3>3
      <4> HIDE DEF TypeOK
      <4> QED
        BY <2>1, <3>1, <4>1 DEF Between
    <3> QED
      BY <3>2, <3>3
  <2>2. \A x \in Task : TidOrder(x)'
    BY <1>1, <1>3 DEF OrderInv, TidOrder
  <2> HIDE DEF TypeOK
  <2>3. RingOrder'
    BY <1>1, <2>1, CallTypes DEF OrderInv, RingOrder, Between, Precedes
  <2>4. QueueOrder'
    BY <1>1, <2>1, CallTypes DEF OrderInv, QueueOrder, Between, Precedes
  <2> QED
    BY <1>1, <2>2, <2>3, <2>4 DEF OrderInv
<1> QED
  BY <1>1, <1>2, <1>3

\* sys_exit: the entry becomes the newest record of its tid, or is lost.
LEMMA OrderExit ==
    ASSUME TypeOK, TypeOK', OrderInv, NEW t \in Task, SysExit(t), last' = last
    PROVE  OrderInv'
<1> USE DEF TypeOK
<1>1. UNCHANGED <<ncall, queue, out, pc>>
  BY DEF SysExit, userVars
<1>2. CASE ENTERS[t] = 0
  <2>1. UNCHANGED <<ENTERS, EVENTS>>
    BY <1>2 DEF SysExit, EnterKey
  <2>2. \A x \in Task : ncall'[x] >= ncall[x]
    BY CallsGrow DEF KernelStep
  <2> HIDE DEF TypeOK
  <2> QED
    BY <1>1, <2>1, <2>2, OrderKept
<1>3. CASE ENTERS[t] # 0
  <2> DEFINE r == [tid |-> t, call |-> ENTERS[t], ret |-> ncall[t], state |-> "busy"]
  <2>1. /\ ENTERS' = [ENTERS EXCEPT ![t] = 0]
        /\ EVENTS' \in {EVENTS, Append(EVENTS, r)}
    BY <1>3 DEF SysExit, EnterKey
  <2>2. r \in Record /\ r.tid = t /\ r.call = ENTERS[t]
    BY DEF Record
  <2> HIDE DEF r
  <2>3. ASSUME NEW e, e.tid \in Task, e.call \in Nat, Between(e)
        PROVE  /\ last'[e.tid] < e.call
               /\ e.call <= ncall'[e.tid]
               /\ ENTERS'[e.tid] # 0 => e.call < ENTERS'[e.tid]
               /\ Precedes(e, r)
    BY <1>1, <1>3, <2>1, <2>2, <2>3 DEF Between, Precedes
  <2>4. /\ last'[r.tid] < r.call
        /\ r.call <= ncall'[r.tid]
        /\ ENTERS'[r.tid] = 0
    BY <1>1, <1>3, <2>1, <2>2 DEF OrderInv, TidOrder
  <2>5. \A x \in Task : TidOrder(x)'
    BY <1>1, <2>1 DEF OrderInv, TidOrder
  <2>6. \A i \in DOMAIN EVENTS' :
            \/ i \in DOMAIN EVENTS /\ EVENTS'[i] = EVENTS[i]
            \/ EVENTS'[i] = r /\ \A j \in DOMAIN EVENTS' : ~(i < j)
    <3>1. CASE EVENTS' = EVENTS
      BY <3>1
    <3>2. CASE EVENTS' = Append(EVENTS, r)
      <4>1. /\ Len(EVENTS) \in Nat /\ DOMAIN EVENTS = 1..Len(EVENTS)
            /\ DOMAIN EVENTS' = 1..(Len(EVENTS) + 1)
            /\ EVENTS'[Len(EVENTS) + 1] = r
            /\ \A i \in DOMAIN EVENTS : EVENTS'[i] = EVENTS[i]
        BY <2>2, <3>2, AppendProperties, LenProperties
      <4> HIDE DEF TypeOK
      <4> QED
        BY <4>1
    <3> QED
      BY <2>1, <3>1, <3>2
  <2> HIDE DEF TypeOK
  <2>7. \A i \in DOMAIN EVENTS' : Between(EVENTS[i])'
    BY <2>3, <2>4, <2>6, CallTypes DEF OrderInv, RingOrder, Between
  <2>8. ASSUME NEW i \in DOMAIN EVENTS', NEW j \in DOMAIN EVENTS', i < j
        PROVE  Precedes(EVENTS'[i], EVENTS'[j])
    <3>1. i \in DOMAIN EVENTS /\ EVENTS'[i] = EVENTS[i]
      BY <2>6, <2>8
    <3>2. CASE j \in DOMAIN EVENTS /\ EVENTS'[j] = EVENTS[j]
      BY <2>8, <3>1, <3>2 DEF OrderInv, RingOrder
    <3>3. CASE EVENTS'[j] = r
      BY <2>3, <3>1, <3>3, CallTypes DEF OrderInv, RingOrder
    <3> QED
      BY <2>6, <3>2, <3>3
  <2>9. ASSUME NEW i \in DOMAIN queue', queue'[i].kind = "syscall"
        PROVE  /\ Between(queue[i])'
               /\ \A j \in DOMAIN queue' : i < j /\ queue'[j].kind = "syscall"
                                               => Precedes(queue'[i], queue'[j])
               /\ \A j \in DOMAIN EVENTS' : Precedes(queue'[i], EVENTS'[j])
    <3>1. i \in DOMAIN queue /\ queue[i].kind = "syscall" /\ queue' = queue
      BY <1>1, <2>9
    <3>2. Between(queue[i]) /\ queue[i].tid \in Task /\ queue[i].call \in Nat
      BY <3>1, CallTypes DEF OrderInv, QueueOrder
    <3>3. ASSUME NEW j \in DOMAIN EVENTS'
          PROVE  Precedes(queue[i], EVENTS'[j])
      BY <2>3, <2>6, <3>1, <3>2 DEF OrderInv, QueueOrder
    <3>4. Between(queue[i])'
      BY <2>3, <3>1, <3>2 DEF Between
    <3> QED
      BY <3>1, <3>3, <3>4 DEF OrderInv, QueueOrder
  <2> QED
    BY <1>1, <2>5, <2>7, <2>8, <2>9 DEF OrderInv, RingOrder, QueueOrder, Precedes
<1> QED
  BY <1>2, <1>3

\* Whatever the tasks and the in-kernel programs do, the order stays.
LEMMA OrderKernel ==
    ASSUME TypeOK, TypeOK', OrderInv, KernelStep, last' = last
    PROVE  OrderInv'
<1>1. UNCHANGED <<queue, out, pc>> /\ \A x \in Task : ncall'[x] >= ncall[x]
  <2>1. UNCHANGED <<queue, out, pc>>
    BY DEF KernelStep, SysEnter, SysExit, Submit, Fork, Die, ExecTakesOver, TidReused,
           userVars
  <2> QED
    BY <2>1, CallsGrow
<1>2. ASSUME NEW t \in Task, Submit(t)
      PROVE  OrderInv'
  <2>1. ENTERS' = ENTERS /\ DOMAIN EVENTS' = DOMAIN EVENTS
    BY <1>2 DEF Submit
  <2>2. ASSUME NEW i \in DOMAIN EVENTS
        PROVE  EVENTS'[i].tid = EVENTS[i].tid /\ EVENTS'[i].call = EVENTS[i].call
    <3>1. EVENTS[i] \in Record
      BY ElementTypes
    <3> QED
      BY <1>2, <3>1 DEF Submit, Record
  <2> QED
    BY <1>1, <2>1, <2>2, OrderKept
<1>3. ASSUME UNCHANGED <<ENTERS, EVENTS>>
      PROVE  OrderInv'
  BY <1>1, <1>3, OrderKept
<1> QED
  BY <1>2, <1>3, OrderEnter, OrderExit
     DEF KernelStep, Fork, Die, ExecTakesOver, TidReused

\* Pop reports the oldest call of the queue.
LEMMA OrderPop ==
    ASSUME TypeOK, OrderInv, Pop, Told
    PROVE  OrderInv'
<1>0. /\ DOMAIN queue = 1..Len(queue) /\ Len(queue) \in Nat /\ queue \in Seq(Event)
      /\ UNCHANGED <<ncall, ENTERS, EVENTS>> /\ pc = "pop" /\ out.kind = "none"
  BY DEF TypeOK, Pop, kernelVars, OrderInv
<1>1. CASE queue = <<>>
  <2>1. UNCHANGED <<out, queue>>
    BY <1>1 DEF Pop
  <2>2. last' = last
    BY <2>1 DEF Told
  <2> QED
    BY <1>0, <2>1, <2>2 DEF OrderInv, TidOrder, RingOrder, QueueOrder, Between, Precedes
<1>2. CASE queue # <<>>
  <2> DEFINE e == queue[1]
  <2>1. out' = e /\ pc' = "idle" /\ 1 \in DOMAIN queue
    BY <1>0, <1>2, HeadTailProperties DEF Pop
  <2>2. \A i \in DOMAIN queue' : i + 1 \in DOMAIN queue /\ i \in Nat /\ i > 0
                                 /\ queue'[i] = queue[i + 1]
    <3>1. queue' = Tail(queue)
      BY <1>2 DEF Pop
    <3> QED
      BY <1>0, <1>2, <3>1, HeadTailProperties, LenProperties
  <2>3. e.tid \in Task /\ e.call \in Nat
    BY <2>1, CallTypes
  <2>4. ASSUME NEW x \in Task
        PROVE  last'[x] = IF e.kind = "syscall" /\ x = e.tid THEN e.call ELSE last[x]
    BY <1>0, <2>1, <2>3 DEF Told, OrderInv
  <2>5. last' \in [Task -> Nat]
    BY <1>0, <2>1, <2>3 DEF Told, OrderInv
  <2>6. e.kind = "syscall" => Between(e)
    BY <2>1 DEF OrderInv, QueueOrder
  <2>7. \A x \in Task : TidOrder(x)'
    BY <1>0, <2>3, <2>4, <2>6 DEF OrderInv, TidOrder, Between
  <2>8. ASSUME NEW f, f.tid \in Task, Between(f), e.kind = "syscall" => Precedes(e, f)
        PROVE  /\ last'[f.tid] < f.call
               /\ f.call <= ncall'[f.tid]
               /\ ENTERS'[f.tid] # 0 => f.call < ENTERS'[f.tid]
    BY <1>0, <2>4, <2>8 DEF Between, Precedes
  <2>9. RingOrder'
    <3>1. ASSUME NEW i \in DOMAIN EVENTS
          PROVE  Between(EVENTS[i])'
      <4>1. EVENTS[i].tid \in Task /\ Between(EVENTS[i])
            /\ (e.kind = "syscall" => Precedes(e, EVENTS[i]))
        BY <2>1, CallTypes DEF OrderInv, RingOrder, QueueOrder
      <4> QED
        BY <1>0, <2>8, <4>1 DEF Between
    <3> QED
      BY <1>0, <3>1 DEF OrderInv, RingOrder, Precedes
  <2>10. QueueOrder'
    <3>1. ASSUME NEW i \in DOMAIN queue', queue'[i].kind = "syscall"
          PROVE  /\ Between(queue[i])'
                 /\ \A j \in DOMAIN queue' : i < j /\ queue'[j].kind = "syscall"
                                                 => Precedes(queue'[i], queue'[j])
                 /\ \A j \in DOMAIN EVENTS' : Precedes(queue'[i], EVENTS'[j])
      <4> DEFINE f == queue[i + 1]
      <4>1. /\ queue'[i] = f /\ i + 1 \in DOMAIN queue /\ f.kind = "syscall"
            /\ i \in Nat /\ i > 0
        BY <2>2, <3>1
      <4>2. f.tid \in Task /\ Between(f) /\ (e.kind = "syscall" => Precedes(e, f))
        <5>1. 1 < i + 1
          BY <4>1
        <5> QED
          BY <2>1, <4>1, <5>1, CallTypes DEF OrderInv, QueueOrder
      <4>3. Between(queue[i])'
        BY <2>8, <4>1, <4>2 DEF Between
      <4>4. ASSUME NEW j \in DOMAIN queue', i < j, queue'[j].kind = "syscall"
            PROVE  Precedes(queue'[i], queue'[j])
        <5>1. queue'[j] = queue[j + 1] /\ j + 1 \in DOMAIN queue /\ i + 1 < j + 1
          BY <2>2, <4>1, <4>4
        <5> QED
          BY <4>1, <4>4, <5>1 DEF OrderInv, QueueOrder
      <4>5. \A j \in DOMAIN EVENTS' : Precedes(queue'[i], EVENTS'[j])
        BY <1>0, <4>1 DEF OrderInv, QueueOrder
      <4> QED
        BY <4>3, <4>4, <4>5
    <3> QED
      BY <3>1 DEF QueueOrder, Precedes
  <2> QED
    BY <2>1, <2>5, <2>7, <2>9, <2>10 DEF OrderInv
<1> QED
  BY <1>1, <1>2

\* drain_ring moves the oldest record behind the newest queued event.
LEMMA OrderDrain ==
    ASSUME TypeOK, OrderInv, DrainRing, last' = last
    PROVE  OrderInv'
<1> DEFINE r == EVENTS[1]
           e == RecordToEvent(r)
<1>1. /\ UNCHANGED <<ncall, ENTERS, out, pc>> /\ EVENTS # <<>>
      /\ EVENTS' = Tail(EVENTS) /\ queue' = Append(queue, RecordToEvent(Head(EVENTS)))
  BY DEF DrainRing, RingReady, PushBack, kernelVars
<1>2. /\ EVENTS \in Seq(Record) /\ DOMAIN EVENTS = 1..Len(EVENTS) /\ Len(EVENTS) \in Nat
      /\ queue \in Seq(Event) /\ DOMAIN queue = 1..Len(queue) /\ Len(queue) \in Nat
  BY DEF TypeOK
<1>3. /\ Head(EVENTS) = r /\ 1 \in DOMAIN EVENTS
      /\ \A i \in DOMAIN EVENTS' : i + 1 \in DOMAIN EVENTS /\ i \in Nat /\ i > 0
                                   /\ EVENTS'[i] = EVENTS[i + 1]
  BY <1>1, <1>2, HeadTailProperties, LenProperties
<1>4. r \in Record
  BY <1>2, <1>3
<1>5. e \in Event /\ e.kind = "syscall" /\ e.tid = r.tid /\ e.call = r.call
      /\ e.tid \in Task /\ e.call \in Nat
  BY <1>4 DEF RecordToEvent, Record, Event
<1> HIDE DEF e, r
<1>6. /\ DOMAIN queue' = 1..(Len(queue) + 1) /\ queue'[Len(queue) + 1] = e
      /\ \A i \in DOMAIN queue : queue'[i] = queue[i]
  BY <1>1, <1>2, <1>3, <1>5, AppendProperties DEF e
<1>7. \A i \in DOMAIN queue' : \/ i \in DOMAIN queue /\ queue'[i] = queue[i]
                               \/ queue'[i] = e /\ \A j \in DOMAIN queue' : ~(i < j)
  BY <1>2, <1>6
<1>8. /\ Between(e)
      /\ \A i \in DOMAIN EVENTS' : Precedes(e, EVENTS'[i])
  <2>1. Between(r)
    BY <1>3 DEF OrderInv, RingOrder, r
  <2>2. ASSUME NEW i \in DOMAIN EVENTS'
        PROVE  Precedes(e, EVENTS'[i])
    <3>1. 1 < i + 1 /\ i + 1 \in DOMAIN EVENTS /\ EVENTS'[i] = EVENTS[i + 1]
      BY <1>3
    <3>2. Precedes(r, EVENTS[i + 1])
      BY <1>3, <3>1 DEF OrderInv, RingOrder, r
    <3> QED
      BY <1>5, <3>1, <3>2 DEF Precedes
  <2> QED
    BY <1>5, <2>1, <2>2 DEF Between
<1>9. \A t \in Task : TidOrder(t)'
  BY <1>1 DEF OrderInv, TidOrder
<1>10. RingOrder'
  <2>1. \A i \in DOMAIN EVENTS' : Between(EVENTS[i])'
    BY <1>1, <1>3 DEF OrderInv, RingOrder, Between
  <2>2. ASSUME NEW i \in DOMAIN EVENTS', NEW j \in DOMAIN EVENTS', i < j
        PROVE  Precedes(EVENTS'[i], EVENTS'[j])
    <3>1. /\ i + 1 < j + 1 /\ i + 1 \in DOMAIN EVENTS /\ j + 1 \in DOMAIN EVENTS
          /\ EVENTS'[i] = EVENTS[i + 1] /\ EVENTS'[j] = EVENTS[j + 1]
      BY <1>3, <2>2
    <3> QED
      BY <3>1 DEF OrderInv, RingOrder
  <2> QED
    BY <2>1, <2>2 DEF RingOrder, Precedes
<1>11. QueueOrder'
  <2>1. ASSUME NEW i \in DOMAIN queue', queue'[i].kind = "syscall"
        PROVE  /\ Between(queue[i])'
               /\ \A j \in DOMAIN queue' : i < j /\ queue'[j].kind = "syscall"
                                               => Precedes(queue'[i], queue'[j])
               /\ \A j \in DOMAIN EVENTS' : Precedes(queue'[i], EVENTS'[j])
    <3>1. CASE queue'[i] = e /\ \A j \in DOMAIN queue' : ~(i < j)
      BY <1>1, <1>8, <3>1 DEF Between
    <3>2. CASE i \in DOMAIN queue /\ queue'[i] = queue[i]
      <4>1. /\ Between(queue[i])
            /\ \A j \in DOMAIN queue : i < j /\ queue[j].kind = "syscall"
                                           => Precedes(queue[i], queue[j])
            /\ \A j \in DOMAIN EVENTS : Precedes(queue[i], EVENTS[j])
        BY <2>1, <3>2 DEF OrderInv, QueueOrder
      <4>2. Between(queue[i])'
        BY <1>1, <3>2, <4>1 DEF Between
      <4>3. Precedes(queue[i], e)
        BY <1>3, <1>5, <4>1 DEF Precedes, r
      <4>4. \A j \in DOMAIN queue' : i < j /\ queue'[j].kind = "syscall"
                                         => Precedes(queue'[i], queue'[j])
        BY <1>7, <3>2, <4>1, <4>3
      <4>5. \A j \in DOMAIN EVENTS' : Precedes(queue'[i], EVENTS'[j])
        BY <1>3, <3>2, <4>1
      <4> QED
        BY <4>2, <4>4, <4>5
    <3> QED
      BY <1>7, <3>1, <3>2
  <2> QED
    BY <2>1 DEF QueueOrder, Precedes
<1> QED
  BY <1>1, <1>9, <1>10, <1>11 DEF OrderInv

\* Only Pop tells the caller of a call.
LEMMA ToldByPop ==
    ASSUME OrderInv, EbpfStreamNext, ~Pop
    PROVE  /\ last' = last
           /\ out' = out \/ NextEvent
<1>1. out' = out \/ NextEvent
  BY DEF EbpfStreamNext, Next, UserStep, DrainRing, Drained, CheckLiveness, EnqueueExit,
         WaitRing, KernelStep, SysEnter, SysExit, Submit, Fork, Die, ExecTakesOver,
         TidReused, Stutter, vars, userVars
<1>2. NextEvent => out'.kind = "none"
  BY DEF NextEvent, NoEvent
<1> QED
  BY <1>1, <1>2 DEF EbpfStreamNext, Told

\* Every step keeps the order of the calls.
LEMMA OrderStep ==
    ASSUME TypeOK, TypeOK', OrderInv, [EbpfStreamNext]_<<vars, last>>
    PROVE  OrderInv'
<1> USE DEF OrderInv, TidOrder, RingOrder, QueueOrder, Between, Precedes
<1>1. CASE UNCHANGED <<vars, last>>
  BY <1>1 DEF vars, kernelVars, userVars
<1>2. CASE EbpfStreamNext /\ Pop
  <2> HIDE DEF OrderInv
  <2> QED
    BY <1>2, OrderPop DEF EbpfStreamNext
<1>3. CASE EbpfStreamNext /\ ~Pop
  <2>1. last' = last
    BY <1>3, ToldByPop
  <2>2. CASE KernelStep
    BY <2>1, <2>2, OrderKernel
  <2>3. CASE DrainRing
    BY <2>1, <2>3, OrderDrain
  <2>4. CASE NextEvent
    BY <2>1, <2>4 DEF NextEvent, NoEvent, kernelVars
  <2>5. CASE EnqueueExit
    <3>1. /\ queue' = Append(queue, ProcessExit) /\ UNCHANGED <<ncall, ENTERS, EVENTS, out>>
          /\ pc' # "idle" /\ out.kind = "none"
      BY <2>5 DEF EnqueueExit, PushBack, kernelVars
    <3>2. ProcessExit \in Event /\ ProcessExit.kind = "exit"
      BY EventTypes DEF ProcessExit
    <3>3. \A i \in DOMAIN queue' : \/ queue'[i].kind = "exit"
                                   \/ i \in DOMAIN queue /\ queue'[i] = queue[i]
      <4> HIDE DEF OrderInv
      <4>1. queue \in Seq(Event) /\ Len(queue) \in Nat /\ DOMAIN queue = 1..Len(queue)
        BY DEF TypeOK
      <4> QED
        BY <3>1, <3>2, <4>1, AppendProperties
    <3> QED
      BY <2>1, <3>1, <3>3
  <2>6. CASE Drained \/ CheckLiveness \/ WaitRing
    BY <2>1, <2>6 DEF Drained, CheckLiveness, WaitRing, kernelVars
  <2>7. CASE Stutter
    BY <2>1, <2>7 DEF Stutter, vars, kernelVars, userVars
  <2> QED
    BY <1>3, <2>2, <2>3, <2>4, <2>5, <2>6, <2>7 DEF EbpfStreamNext, Next, UserStep
<1> QED
  BY <1>1, <1>2, <1>3

\* Every step of the eBPF backend is a step of the stream or none.
LEMMA StreamRefines ==
    ASSUME TypeOK, TypeOK', OrderInv, [EbpfStreamNext]_<<vars, last>>
    PROVE  [Stream!StreamNext]_Stream!streamVars
<1>1. ASSUME UNCHANGED <<ncall, last, out>>, pc' = "none" <=> pc = "none"
      PROVE  UNCHANGED Stream!streamVars
  BY <1>1 DEF Stream!streamVars
<1>2. CASE UNCHANGED <<vars, last>>
  BY <1>1, <1>2 DEF vars, kernelVars, userVars
<1>3. CASE EbpfStreamNext /\ Pop
  <2> DEFINE e == Head(queue)
  <2>1. pc = "pop" /\ pc' # "none" /\ ncall' = ncall /\ out.kind = "none"
    BY <1>3 DEF Pop, kernelVars, OrderInv
  <2>2. CASE queue = <<>>
    BY <1>1, <1>3, <2>1, <2>2 DEF Pop, EbpfStreamNext, Told
  <2>3. CASE queue # <<>>
    <3>1. out' = e
      BY <1>3, <2>3 DEF Pop
    <3>2. e = queue[1] /\ 1 \in DOMAIN queue /\ e \in Event
      BY <2>3, HeadTailProperties, LenProperties DEF TypeOK
    <3>3. e.kind \in {"none", "syscall", "exit"} /\ e.tid \in Task /\ e.call \in Nat
      BY <3>2 DEF Event
    <3> HIDE DEF e
    <3>4. CASE e.kind = "syscall"
      <4>1. last' = [last EXCEPT ![e.tid] = e.call]
        BY <1>3, <2>1, <3>1, <3>4 DEF EbpfStreamNext, Told
      <4>2. last[e.tid] < e.call /\ e.call <= ncall[e.tid]
        BY <3>2, <3>4 DEF OrderInv, QueueOrder, Between
      <4>3. last[e.tid] \in Nat /\ ncall[e.tid] \in Nat
        BY <3>3 DEF TypeOK, OrderInv
      <4>4. e.call \in (last[e.tid] + 1)..ncall[e.tid] /\ e.call > last[e.tid]
        BY <3>3, <4>2, <4>3
      <4>5. Stream!Tell(e.tid, e.call)
        BY <2>1, <3>1, <3>4, <4>1, <4>2, <4>4
           DEF Stream!Tell, Stream!Nothing, Stream!SyscallEvent
      <4> QED
        BY <3>3, <4>4, <4>5 DEF Stream!StreamNext
    <3>5. CASE e.kind = "exit"
      <4>1. last' = last
        BY <1>3, <3>1, <3>5 DEF EbpfStreamNext, Told
      <4>2. Stream!TellOther
        BY <2>1, <3>1, <3>5, <4>1 DEF Stream!TellOther, Stream!Nothing, Stream!OtherEvent
      <4> QED
        BY <4>2 DEF Stream!StreamNext
    <3>6. CASE e.kind = "none"
      <4>1. last' = last
        BY <1>3, <3>1, <3>6 DEF EbpfStreamNext, Told
      <4> QED
        BY <2>1, <3>1, <3>6, <4>1 DEF Stream!streamVars
    <3> QED
      BY <3>3, <3>4, <3>5, <3>6
  <2> QED
    BY <2>2, <2>3
<1>4. CASE EbpfStreamNext /\ ~Pop
  <2>1. last' = last
    BY <1>4, ToldByPop
  <2>2. CASE KernelStep
    <3>1. UNCHANGED <<out, pc>>
      BY <2>2 DEF KernelStep, SysEnter, SysExit, Submit, Fork, Die, ExecTakesOver,
                  TidReused, userVars
    <3>2. ncall' \in [Task -> Nat]
      BY DEF TypeOK
    <3>3. Stream!MakeCalls
      BY <2>1, <2>2, <3>1, <3>2, CallsGrow DEF Stream!MakeCalls
    <3> QED
      BY <3>3 DEF Stream!StreamNext
  <2>3. CASE NextEvent
    <3>1. pc = "idle" /\ pc' = "pop" /\ out'.kind = "none" /\ ncall' = ncall
      BY <2>3 DEF NextEvent, NoEvent, kernelVars
    <3>2. Stream!Ask
      BY <2>1, <3>1 DEF Stream!Ask, Stream!Nothing
    <3> QED
      BY <3>2 DEF Stream!StreamNext
  <2>4. CASE Drained
    <3>1. pc = "drain" /\ out.kind = "none" /\ UNCHANGED <<ncall, out>>
      BY <2>4 DEF Drained, kernelVars, OrderInv
    <3>2. CASE pc' = "none"
      <4>1. Stream!End
        BY <2>1, <3>1, <3>2 DEF Stream!End, Stream!Nothing
      <4> QED
        BY <4>1 DEF Stream!StreamNext
    <3>3. CASE pc' # "none"
      BY <1>1, <2>1, <3>1, <3>3
    <3> QED
      BY <3>2, <3>3
  <2>5. CASE DrainRing \/ CheckLiveness \/ EnqueueExit \/ WaitRing \/ Stutter
    <3>1. UNCHANGED <<ncall, out>> /\ (pc' = "none" <=> pc = "none")
      BY <2>5 DEF DrainRing, CheckLiveness, EnqueueExit, WaitRing, Stutter,
                  vars, kernelVars, userVars
    <3> QED
      BY <1>1, <2>1, <3>1
  <2> QED
    BY <1>4, <2>2, <2>3, <2>4, <2>5 DEF EbpfStreamNext, Next, UserStep
<1> QED
  BY <1>2, <1>3, <1>4

\* The state that new leaves is an initial one of the stream, and ordered.
LEMMA InitOrder ==
    ASSUME Init, last = [t \in Task |-> 0]
    PROVE  OrderInv /\ Stream!StreamInit
<1>1. /\ DOMAIN EVENTS = {} /\ DOMAIN queue = {} /\ out.kind = "none" /\ pc = "idle"
      /\ ncall \in [Task -> Nat] /\ \A t \in Task : ENTERS[t] = 0
  BY InitType DEF Init, NoEvent, TypeOK
<1>2. OrderInv
  BY <1>1 DEF OrderInv, TidOrder, RingOrder, QueueOrder
<1>3. Stream!StreamInit
  BY <1>1 DEF Stream!StreamInit, Stream!Nothing
<1> QED
  BY <1>2, <1>3

\* The eBPF backend keeps the contract of trait Tracer: it reports only calls that
\* were made, those of a tid in order and none twice, and nothing after its end,
\* whatever the ring drops and whoever has a tid by then.
THEOREM KeepsContractHolds == EbpfStreamSpec => KeepsContract
<1>1. [EbpfStreamNext]_<<vars, last>> => [Next]_vars
  BY DEF EbpfStreamNext, vars
<1>2. TypeOK /\ [Next]_vars => TypeOK'
  BY NextType
<1>3. TypeOK /\ TypeOK' /\ OrderInv /\ [EbpfStreamNext]_<<vars, last>> => OrderInv'
  BY OrderStep
<1>4. TypeOK /\ TypeOK' /\ OrderInv /\ [EbpfStreamNext]_<<vars, last>>
         => [Stream!StreamNext]_Stream!streamVars
  BY StreamRefines
<1>5. Init /\ last = [t \in Task |-> 0] => TypeOK /\ OrderInv /\ Stream!StreamInit
  BY InitType, InitOrder
<1> QED
  BY <1>1, <1>2, <1>3, <1>4, <1>5, PTL
     DEF EbpfStreamSpec, KeepsContract, Stream!StreamSpec
=============================================================================
