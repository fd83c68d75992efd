-------------------------- MODULE LifecycleProofs --------------------------
(* Container implements Lifecycle and Wiring, for any number of creates and *)
(* callers.                                                                 *)
EXTENDS StatusProofs

\* Phase and start of each create, the refinement mapping of Container.
phase == [s \in Shims |-> PhaseOf[child[s]]]
started == {s \in Shims : conns[s] > 0}

ChildStates == {"none", "setup", "blocked", "running", "zombie", "reaped"}

\* A step that leaves the children and the connections alone is a stutter.
LEMMA Stutter ==
    ASSUME UNCHANGED <<child, conns>>
    PROVE  UNCHANGED <<phase, started>>
BY DEF phase, started

\* A step of one child is a step of its phase, and of nothing else.
LEMMA PhaseStep ==
    ASSUME TypeOK, NEW s \in Shims, NEW st \in ChildStates,
           child' = [child EXCEPT ![s] = st], UNCHANGED conns
    PROVE  /\ phase' = [phase EXCEPT ![s] = PhaseOf[st]]
           /\ UNCHANGED started
<1>1. child'[s] = st /\ \A t \in Shims \ {s} : child'[t] = child[t]
  BY DEF TypeOK, ProcessesOK
<1>2. UNCHANGED started
  BY DEF started
<1>3. phase' = [phase EXCEPT ![s] = PhaseOf[st]]
  <2>1. phase' = [t \in Shims |-> IF t = s THEN PhaseOf[st] ELSE PhaseOf[child[t]]]
    BY <1>1 DEF phase
  <2> QED BY <2>1 DEF phase
<1> QED BY <1>2, <1>3

\* A step of create() is Hold when it clones, and a stutter otherwise.
LEMMA RefineShim ==
    ASSUME TypeOK, SandboxInv, NEW s \in Shims, ShimStep(s)
    PROVE  L!Hold(s) \/ UNCHANGED <<phase, started>>
<1> USE DEF childVars
<1>1. CASE Clone(s)
  <2>1. CASE CanClone(s)
    <3>1. child[s] = "none"
      BY <1>1 DEF Clone, Try, SandboxInv, SupervisorInv, BeforeClone
    <3>2. child' = [child EXCEPT ![s] = "setup"] /\ UNCHANGED conns
      BY <1>1, <2>1 DEF Clone
    <3>3. phase' = [phase EXCEPT ![s] = "held"] /\ UNCHANGED started
      BY <3>2, PhaseStep DEF ChildStates, PhaseOf
    <3>4. phase[s] = "none"
      BY <3>1 DEF phase, PhaseOf
    <3> QED BY <3>3, <3>4 DEF L!Hold, phase, started
  <2>2. CASE ~CanClone(s)
    <3>1. UNCHANGED <<child, conns>>
      BY <1>1, <2>2 DEF Clone, TypeOK, ProcessesOK
    <3> QED BY <3>1, Stutter
  <2> QED BY <2>1, <2>2
<1>2. CASE WaitPid(s)
  <2>1. child[s] = "zombie" /\ child' = [child EXCEPT ![s] = "reaped"] /\ UNCHANGED conns
    BY <1>2 DEF WaitPid
  <2>2. phase' = [phase EXCEPT ![s] = "ended"] /\ UNCHANGED started
    BY <2>1, PhaseStep DEF ChildStates, PhaseOf
  <2>3. phase[s] = "ended"
    BY <2>1 DEF phase, PhaseOf
  <2> QED BY <2>2, <2>3 DEF phase
<1>3. CASE ~Clone(s) /\ ~WaitPid(s)
  <2>1. UNCHANGED <<child, conns>>
    BY <1>3, ShimStep(s)
       DEF ShimStep, CheckExists, MakeBundle, SayCreating, SaveState, ShimRead, ShimOpen,
           ShimPut, CreateCgroup, CreateVeth, MoveVeth, ConfigureNet, SetLimits, SayCreated,
           BindSocket, Accept, UnfreezeChild, SayStopped, WriteLog, ReportFailure, SendEvent
  <2> QED BY <2>1, Stutter
<1> QED BY <1>1, <1>2, <1>3

\* A step of a child is Release or End; those of the kernel are stutters.
LEMMA RefineChild ==
    ASSUME TypeOK, SandboxInv, AtMostOneRunning', NEW s \in Shims,
           \/ StepFails(s) \/ PanicAtCut(s) \/ ShimCrash(s) \/ ChildSetup(s) \/ ChildExec(s)
           \/ ChildExit(s) \/ KillTakes(s) \/ VethGone(s) \/ InitReaps(s) \/ Spawn(s)
    PROVE  L!Release(s) \/ L!End(s) \/ UNCHANGED <<phase, started>>
<1> USE DEF childVars
<1>E. ASSUME child' = [child EXCEPT ![s] = "zombie"], UNCHANGED conns, Alive(s)
      PROVE  L!End(s)
  <2>1. phase' = [phase EXCEPT ![s] = "ended"] /\ UNCHANGED started
    BY <1>E, PhaseStep DEF ChildStates, PhaseOf
  <2>2. phase[s] \in {"held", "running"}
    BY <1>E DEF phase, PhaseOf, Alive
  <2> QED BY <2>1, <2>2 DEF L!End, phase, started
<1>1. CASE ChildSetup(s)
  <2>1. CASE child' = [child EXCEPT ![s] = "blocked"]
    <3>1. child[s] = "setup" /\ UNCHANGED conns
      BY <1>1 DEF ChildSetup
    <3>2. phase' = [phase EXCEPT ![s] = "held"] /\ UNCHANGED started
      BY <2>1, <3>1, PhaseStep DEF ChildStates, PhaseOf
    <3>3. phase[s] = "held"
      BY <3>1 DEF phase, PhaseOf
    <3> QED BY <3>2, <3>3 DEF phase
  <2>2. CASE child' = [child EXCEPT ![s] = "zombie"]
    BY <1>1, <2>2, <1>E DEF ChildSetup, Alive
  <2> QED BY <1>1, <2>1, <2>2 DEF ChildSetup, ChildEnds
<1>2. CASE ChildExec(s)
  <2>1. CASE child' = [child EXCEPT ![s] = "running"]
    <3>1. child[s] = "blocked" /\ UNCHANGED conns /\ pipe[s]
      BY <1>2 DEF ChildExec, CanRead
    <3>2. conns[s] > 0
      BY <3>1 DEF SandboxInv, SupervisorInv
    <3>3. phase' = [phase EXCEPT ![s] = "running"] /\ UNCHANGED started
      BY <2>1, <3>1, PhaseStep DEF ChildStates, PhaseOf
    <3>4. phase[s] = "held" /\ s \in started
      BY <3>1, <3>2 DEF phase, started, PhaseOf
    <3>5. ASSUME NEW d \in Shims, child[d] = "running" PROVE FALSE
      <4>1. d # s /\ child'[d] = "running" /\ child'[s] = "running"
        BY <2>1, <3>1, <3>5 DEF TypeOK, ProcessesOK
      <4> QED BY <4>1 DEF AtMostOneRunning, Running
    <3>6. \A d \in Shims : phase[d] # "running"
      BY <3>5 DEF phase, PhaseOf, TypeOK, ProcessesOK
    <3> QED BY <3>3, <3>4, <3>6 DEF L!Release, phase, started
  <2>2. CASE child' = [child EXCEPT ![s] = "zombie"]
    BY <1>2, <2>2, <1>E DEF ChildExec, Alive
  <2> QED BY <1>2, <2>1, <2>2 DEF ChildExec, ChildEnds
<1>3. CASE ChildExit(s) \/ KillTakes(s)
  BY <1>3, <1>E DEF ChildExit, KillTakes, ChildEnds, Alive
<1>4. CASE InitReaps(s)
  <2>1. child[s] = "zombie" /\ child' = [child EXCEPT ![s] = "reaped"] /\ UNCHANGED conns
    BY <1>4 DEF InitReaps
  <2>2. phase' = [phase EXCEPT ![s] = "ended"] /\ UNCHANGED started
    BY <2>1, PhaseStep DEF ChildStates, PhaseOf
  <2>3. phase[s] = "ended"
    BY <2>1 DEF phase, PhaseOf
  <2> QED BY <2>2, <2>3 DEF phase
<1>5. CASE StepFails(s) \/ PanicAtCut(s) \/ ShimCrash(s) \/ VethGone(s) \/ Spawn(s)
  BY <1>5, Stutter DEF StepFails, PanicAtCut, ShimCrash, VethGone, Spawn
<1> QED BY <1>1, <1>2, <1>3, <1>4, <1>5

\* A call is Start when it connects, else a stutter.
LEMMA RefineCall ==
    ASSUME TypeOK, SandboxInv, NEW c \in Callers,
           CallStep(c) \/ Return(c) \/ \E op \in Ops : Begin(c, op)
    PROVE  (\E s \in Shims : L!Start(s)) \/ UNCHANGED <<phase, started>>
<1> USE DEF childVars
<1>1. CASE StartConnect(c)
  <2> DEFINE listening == sock # NoPid /\ shim[sock] \in ListeningSteps
  <2>1. CASE listening
    <3>1. sock \in Shims /\ UNCHANGED child /\ conns' = [conns EXCEPT ![sock] = @ + 1]
      BY <1>1, <2>1 DEF StartConnect, TypeOK, FilesOK
    <3>2. child[sock] # "none"
      BY <2>1, <3>1 DEF SandboxInv, SupervisorInv, BeforeClone, ShimGone,
                         ListeningSteps
    <3>3. started' = started \cup {sock}
      BY <3>1 DEF started, TypeOK, ProcessesOK
    <3>4. phase[sock] # "none" /\ UNCHANGED phase
      BY <3>1, <3>2 DEF phase, PhaseOf, TypeOK, ProcessesOK
    <3> QED BY <3>1, <3>3, <3>4 DEF L!Start, phase, started
  <2>2. CASE ~listening
    BY <1>1, <2>2, Stutter DEF StartConnect
  <2> QED BY <2>1, <2>2
<1>2. CASE \/ CallRead(c) \/ KillSignal(c) \/ CgroupFreeze(c) \/ CallReread(c) \/ CallOpen(c)
           \/ CallPut(c) \/ RemoveCgroup(c) \/ RemoveBundle(c) \/ Return(c)
           \/ \E op \in Ops : Begin(c, op)
  BY <1>2, Stutter DEF CallRead, KillSignal, CgroupFreeze, CallReread, CallOpen, CallPut,
                       RemoveCgroup, RemoveBundle, Return, Begin
<1> QED BY <1>1, <1>2 DEF CallStep

\* Every step of Container is a step of Lifecycle, or leaves it alone.
LEMMA RefineNext ==
    TypeOK /\ SandboxInv /\ AtMostOneRunning' /\ [Next]_vars
        => [L!Next]_<<phase, started>>
<1> SUFFICES ASSUME TypeOK, SandboxInv, AtMostOneRunning', [Next]_vars
             PROVE  L!Next \/ UNCHANGED <<phase, started>>
  OBVIOUS
<1>1. CASE DaemonStops \/ DaemonListens
  BY <1>1, Stutter DEF DaemonStops, DaemonListens, childVars
<1>2. CASE UNCHANGED vars
  BY <1>2, Stutter DEF vars, childVars
<1>3. CASE ProcessStep
  BY <1>3, RefineShim, RefineChild, RefineCall DEF ProcessStep, L!Next
<1>4. ASSUME NEW s \in Shims, Spawn(s) PROVE L!Next \/ UNCHANGED <<phase, started>>
  BY <1>4, RefineChild DEF L!Next
<1>5. ASSUME NEW c \in Callers, Return(c) \/ \E op \in Ops : Begin(c, op)
      PROVE  L!Next \/ UNCHANGED <<phase, started>>
  BY <1>5, RefineCall DEF L!Next
<1> QED BY <1>1, <1>2, <1>3, <1>4, <1>5 DEF Next

\* The system of shims, children and unlocked calls implements Lifecycle: a
\* program is let go only after a start was delivered to its own supervisor,
\* only while no other program of the id runs, and only once.
THEOREM LifecycleImplemented == Spec => ImplementsLifecycle
<1>1. Init => L!Init
  BY DEF Init, L!Init, PhaseOf
<1>2. TypeOK /\ SandboxInv /\ AtMostOneRunning' /\ [Next]_vars
        => [L!Next]_<<phase, started>>
  BY RefineNext
<1>3. QED
  BY <1>1, <1>2, TypeCorrect, SandboxInvariant, OneRunning, PTL
     DEF Spec, ImplementsLifecycle, L!Spec, phase, started

-----------------------------------------------------------------------------
(* The veth pair.                                                          *)

\* The refinement mapping.
pairs == [s \in Shims |-> PairOf(s)]
stages == [s \in Shims |-> StageOf(s)]
living == {s \in Shims : child[s] \notin {"zombie", "reaped"}}

\* The owner of the pair has asked for it and has a child, and a shim that
\* configures the far end has it in the child's netns, whose descriptor it holds.
WireInv ==
    \A s \in Shims :
        /\ veth.owner = s => shim[s] \notin BeforeClone \cup {"veth"} /\ child[s] # "none"
        /\ shim[s] = "netcfg" => veth = [owner |-> s, moved |-> TRUE]

\* Nobody has a pair at first.
LEMMA WireInit == Init => WireInv
BY NoPidAssumption DEF Init, WireInv, NoVeth

\* A step of create() outside create_network() leaves the stage of its shim
\* alone or is a failure, and leaves the pair alone.
Aside(s) ==
    \E x \in ShimSteps :
        /\ shim' = [shim EXCEPT ![s] = x]
        /\ UNCHANGED <<veth, living>>
        /\ x \in {"fail"} \cup ShimGone \/ StageOf(s)' = StageOf(s)
        /\ x \in BeforeClone \cup {"veth"} => shim[s] \in BeforeClone
        /\ x # "netcfg"
        /\ \A t \in Shims : child[t] # "none" => child'[t] # "none"

\* The steps of a shim, as far as the pair is concerned.
LEMMA WireShim ==
    ASSUME TypeOK, SandboxInv, NEW s \in Shims, ShimStep(s)
    PROVE  \/ Aside(s)
           \/ CreateVeth(s) /\ Alive(s) /\ VethFree
           \/ MoveVeth(s)
           \/ ConfigureNet(s)
<1> USE DEF TypeOK, ProcessesOK, childVars, Try, Aside, living, StageOf, BeforeClone, NetSteps,
            ShimSteps, ListeningSteps, ShimOver, ShimGone
<1>1. CASE Clone(s)
  BY <1>1 DEF Clone, SandboxInv, SupervisorInv
<1>2. CASE WaitPid(s)
  BY <1>2 DEF WaitPid
<1>3. CASE SaveState(s)
  BY <1>3 DEF SaveState, ShimRead, ShimOpen, ShimPut
<1>4. CASE CheckExists(s) \/ MakeBundle(s) \/ SayCreating(s) \/ CreateCgroup(s)
  BY <1>4 DEF CheckExists, MakeBundle, SayCreating, CreateCgroup, SendEvent
<1>5. CASE CreateVeth(s) /\ ~(Alive(s) /\ VethFree)
  BY <1>5 DEF CreateVeth
<1>6. CASE SetLimits(s) \/ SayCreated(s) \/ BindSocket(s) \/ Accept(s)
  BY <1>6 DEF SetLimits, SayCreated, BindSocket, Accept, SendEvent
<1>7. CASE UnfreezeChild(s) \/ SayStopped(s) \/ WriteLog(s) \/ ReportFailure(s)
  BY <1>7 DEF UnfreezeChild, SayStopped, WriteLog, ReportFailure, SendEvent
<1> QED BY <1>1, <1>2, <1>3, <1>4, <1>5, <1>6, <1>7 DEF ShimStep

\* The steps of everybody else: children only end, and the kernel takes away
\* the pair of one that has.
LEMMA WireNext ==
    ASSUME TypeOK, SandboxInv, [Next]_vars
    PROVE  \/ /\ UNCHANGED <<shim, veth>>
              /\ \A t \in Shims : /\ child[t] # "none" => child'[t] # "none"
                                  /\ t \in living' => t \in living
           \/ \E s \in Shims : \/ Aside(s)
                               \/ CreateVeth(s) /\ Alive(s) /\ VethFree
                               \/ MoveVeth(s)
                               \/ ConfigureNet(s)
                               \/ VethGone(s)
<1> DEFINE Still == /\ UNCHANGED <<shim, veth>>
                    /\ \A t \in Shims : /\ child[t] # "none" => child'[t] # "none"
                                        /\ t \in living' => t \in living
<1>1. ASSUME NEW s \in Shims, ShimStep(s)
      PROVE  \/ Aside(s) \/ MoveVeth(s) \/ ConfigureNet(s)
             \/ (CreateVeth(s) /\ Alive(s) /\ VethFree)
  BY <1>1, WireShim
<1>2. ASSUME NEW s \in Shims, StepFails(s) \/ PanicAtCut(s) \/ ShimCrash(s) \/ Spawn(s)
      PROVE  Aside(s)
  BY <1>2 DEF StepFails, PanicAtCut, ShimCrash, Spawn, Aside, living, StageOf, BeforeClone,
              childVars,
              ShimSteps, ListeningSteps, ShimOver, ShimGone
<1>3. ASSUME NEW s \in Shims,
             ChildSetup(s) \/ ChildExec(s) \/ ChildExit(s) \/ KillTakes(s) \/ InitReaps(s)
      PROVE  Still
  <2>1. ASSUME NEW st, st # "none", child[s] # "none", UNCHANGED <<shim, veth>>,
               child[s] \in {"zombie", "reaped"} => st \in {"zombie", "reaped"},
               child' = [child EXCEPT ![s] = st]
        PROVE  Still
    BY <2>1 DEF living, TypeOK, ProcessesOK
  <2> QED BY <1>3, <2>1 DEF ChildSetup, ChildExec, ChildExit, KillTakes, ChildEnds, InitReaps,
                            Alive
<1>4. ASSUME NEW c \in Callers, CallStep(c) \/ Return(c) \/ \E op \in Ops : Begin(c, op)
      PROVE  Still
  BY <1>4 DEF CallStep, CallRead, KillSignal, CgroupFreeze, CallReread, CallOpen, CallPut,
              RemoveCgroup, RemoveBundle, StartConnect, Return, Begin, childVars, living
<1>5. CASE DaemonStops \/ DaemonListens \/ UNCHANGED vars
  BY <1>5 DEF DaemonStops, DaemonListens, vars, childVars, living
<1> HIDE DEF Still
<1>6. CASE Still
  BY <1>6 DEF Still
<1> QED BY <1>1, <1>2, <1>3, <1>4, <1>5, <1>6 DEF Next, ProcessStep

\* The inductive step of WireInv.
LEMMA WireInvNext ==
    ASSUME TypeOK, SandboxInv, WireInv, [Next]_vars
    PROVE  WireInv'
<1> USE DEF TypeOK, ProcessesOK
<1>1. CASE /\ UNCHANGED <<shim, veth>>
           /\ \A t \in Shims : child[t] # "none" => child'[t] # "none"
  BY <1>1 DEF WireInv
<1>2. ASSUME NEW s \in Shims, Aside(s) PROVE WireInv'
  BY <1>2 DEF Aside, WireInv
<1>3. ASSUME NEW s \in Shims, CreateVeth(s), Alive(s), VethFree PROVE WireInv'
  BY <1>3, NoPidAssumption DEF CreateVeth, Try, VethFree, NoVeth, Alive, WireInv, BeforeClone,
                               childVars
<1>4. ASSUME NEW s \in Shims, MoveVeth(s) PROVE WireInv'
  <2>1. veth = [owner |-> s, moved |-> FALSE] /\ child[s] # "none"
    BY <1>4 DEF MoveVeth, Try, SandboxInv, SupervisorInv, BeforeClone, ShimGone
  <2> QED BY <1>4, <2>1 DEF MoveVeth, Try, WireInv, BeforeClone, childVars
<1>5. ASSUME NEW s \in Shims, ConfigureNet(s) PROVE WireInv'
  BY <1>5 DEF ConfigureNet, Try, WireInv, BeforeClone, childVars
<1>6. ASSUME NEW s \in Shims, VethGone(s) PROVE WireInv'
  BY <1>6, NoPidAssumption DEF VethGone, NoVeth, WireInv, childVars
<1> QED BY <1>1, <1>2, <1>3, <1>4, <1>5, <1>6, WireNext

\* A step of one shim that leaves veth alone leaves the pairs and stages of the
\* other creates alone.
LEMMA OwnStage ==
    ASSUME TypeOK, NEW s \in Shims, NEW x, shim' = [shim EXCEPT ![s] = x]
    PROVE  /\ stages' = [stages EXCEPT ![s] = StageOf(s)']
           /\ \A t \in Shims \ {s} : StageOf(t)' = StageOf(t)
<1>1. \A t \in Shims \ {s} : StageOf(t)' = StageOf(t)
  BY DEF TypeOK, ProcessesOK, StageOf
<1>2. stages' = [t \in Shims |-> StageOf(t)']
  BY DEF stages
<1> QED BY <1>1, <1>2 DEF stages

\* The same for the pairs, when the pair is that of this create before and
\* after the step, or nobody's.
LEMMA OwnWire ==
    ASSUME NEW s \in Shims, \A t \in Shims \ {s} : PairOf(t)' = PairOf(t)
    PROVE  pairs' = [pairs EXCEPT ![s] = PairOf(s)']
<1>1. pairs' = [t \in Shims |-> PairOf(t)']
  BY DEF pairs
<1> QED BY <1>1 DEF pairs

\* A step aside from the network is a failure, or a stutter.
LEMMA RefineAside ==
    ASSUME TypeOK, NEW s \in Shims, Aside(s)
    PROVE  W!Fail(s) \/ UNCHANGED <<pairs, stages, living>>
<1>1. PICK x \in ShimSteps :
         /\ shim' = [shim EXCEPT ![s] = x]
         /\ UNCHANGED <<veth, living>>
         /\ x \in {"fail"} \cup ShimGone \/ StageOf(s)' = StageOf(s)
  BY DEF Aside
<1>2. stages' = [stages EXCEPT ![s] = StageOf(s)'] /\ shim'[s] = x
  BY <1>1, OwnStage DEF TypeOK, ProcessesOK
<1>3. pairs' = [pairs EXCEPT ![s] = PairOf(s)']
  <2>1. \A t \in Shims \ {s} : PairOf(t)' = PairOf(t)
    BY <1>1, OwnStage DEF PairOf
  <2> QED BY <2>1, OwnWire
<1>4. CASE StageOf(s)' = StageOf(s)
  <2>1. PairOf(s)' = PairOf(s)
    BY <1>1, <1>4 DEF PairOf
  <2> QED BY <1>1, <1>2, <1>3, <1>4, <2>1 DEF pairs, stages
<1>5. CASE StageOf(s)' # StageOf(s)
  <2>1. StageOf(s)' = "failed" /\ StageOf(s) # "failed"
    BY <1>1, <1>2, <1>5 DEF StageOf, ShimGone
  <2>2. PairOf(s)' = IF PairOf(s) = "none" THEN "gone" ELSE PairOf(s)
    BY <1>1, <2>1 DEF PairOf
  <2>3. pairs[s] = PairOf(s) /\ stages[s] = StageOf(s)
    BY DEF pairs, stages
  <2> QED BY <1>1, <1>2, <1>3, <2>1, <2>2, <2>3 DEF W!Fail, pairs, stages, living
<1> QED BY <1>4, <1>5

\* Each of the three steps of create_network(), and the end of a netns, is its
\* action of Wiring.
LEMMA RefineWire ==
    ASSUME TypeOK, SandboxInv, WireInv, NEW s \in Shims
    PROVE  /\ CreateVeth(s) /\ Alive(s) /\ VethFree => W!Make(s)
           /\ MoveVeth(s) => W!Join(s)
           /\ ConfigureNet(s) => W!Ready(s)
           /\ VethGone(s) => W!Lose(s)
<1> USE DEF TypeOK, ProcessesOK, childVars
<1>0. pairs[s] = PairOf(s) /\ stages[s] = StageOf(s)
  BY DEF pairs, stages
<1>1. ASSUME CreateVeth(s), Alive(s), VethFree PROVE W!Make(s)
  <2>1. /\ shim[s] = "veth" /\ shim' = [shim EXCEPT ![s] = "move"]
        /\ veth = NoVeth /\ veth' = [owner |-> s, moved |-> FALSE] /\ UNCHANGED child
    BY <1>1 DEF CreateVeth, Try, VethFree
  <2>2. StageOf(s) = "work" /\ StageOf(s)' = "work" /\ PairOf(s) = "none" /\ PairOf(s)' = "made"
    BY <2>1, NoPidAssumption DEF StageOf, PairOf, NoVeth, NetSteps, BeforeClone,
                               ShimGone
  <2>3. \A t \in Shims \ {s} : PairOf(t)' = PairOf(t)
    BY <2>1, OwnStage, NoPidAssumption DEF PairOf, NoVeth
  <2>4. pairs' = [pairs EXCEPT ![s] = "made"] /\ UNCHANGED stages
    <3>1. pairs' = [pairs EXCEPT ![s] = PairOf(s)']
      BY <2>3, OwnWire
    <3>2. stages' = [stages EXCEPT ![s] = StageOf(s)']
      BY <2>1, OwnStage
    <3>3. [stages EXCEPT ![s] = "work"] = stages
      BY <2>2 DEF stages
    <3> QED BY <2>2, <3>1, <3>2, <3>3
  <2>5. \A t \in Shims : pairs[t] \notin {"made", "joined"}
    BY <2>1, NoPidAssumption DEF pairs, PairOf, NoVeth
  <2>6. UNCHANGED living
    BY <2>1 DEF living
  <2> QED BY <1>0, <2>2, <2>4, <2>5, <2>6 DEF W!Make, W!Exists, pairs, stages, living
<1>2. ASSUME MoveVeth(s) PROVE W!Join(s)
  <2>1. /\ shim[s] = "move" /\ shim' = [shim EXCEPT ![s] = "netcfg"] /\ UNCHANGED child
        /\ veth = [owner |-> s, moved |-> FALSE] /\ veth' = [owner |-> s, moved |-> TRUE]
    BY <1>2 DEF MoveVeth, Try, SandboxInv, SupervisorInv
  <2>2. StageOf(s) = "work" /\ StageOf(s)' = "work" /\ PairOf(s) = "made" /\ PairOf(s)' = "joined"
    BY <2>1 DEF StageOf, PairOf, NetSteps, BeforeClone, ShimGone
  <2>3. \A t \in Shims \ {s} : PairOf(t)' = PairOf(t)
    BY <2>1, OwnStage DEF PairOf
  <2>4. pairs' = [pairs EXCEPT ![s] = "joined"] /\ UNCHANGED stages
    <3>1. pairs' = [pairs EXCEPT ![s] = PairOf(s)']
      BY <2>3, OwnWire
    <3>2. stages' = [stages EXCEPT ![s] = StageOf(s)']
      BY <2>1, OwnStage
    <3>3. [stages EXCEPT ![s] = "work"] = stages
      BY <2>2 DEF stages
    <3> QED BY <2>2, <3>1, <3>2, <3>3
  <2>5. UNCHANGED living
    BY <2>1 DEF living
  <2> QED BY <1>0, <2>2, <2>4, <2>5 DEF W!Join, pairs, stages, living
<1>3. ASSUME ConfigureNet(s) PROVE W!Ready(s)
  <2>1. /\ shim[s] = "netcfg" /\ shim' = [shim EXCEPT ![s] = "limits"] /\ UNCHANGED child
        /\ veth = [owner |-> s, moved |-> TRUE] /\ UNCHANGED veth
    BY <1>3 DEF ConfigureNet, Try, WireInv
  <2>2. /\ StageOf(s) = "work" /\ StageOf(s)' = "ready"
        /\ PairOf(s) = "joined" /\ PairOf(s)' = "joined"
    BY <2>1 DEF StageOf, PairOf, NetSteps, BeforeClone, ShimGone
  <2>3. \A t \in Shims \ {s} : PairOf(t)' = PairOf(t)
    BY <2>1, OwnStage DEF PairOf
  <2>4. stages' = [stages EXCEPT ![s] = "ready"] /\ UNCHANGED pairs
    <3>1. pairs' = [pairs EXCEPT ![s] = PairOf(s)']
      BY <2>3, OwnWire
    <3>2. stages' = [stages EXCEPT ![s] = StageOf(s)']
      BY <2>1, OwnStage
    <3>3. [pairs EXCEPT ![s] = "joined"] = pairs
      BY <2>2 DEF pairs
    <3> QED BY <2>2, <3>1, <3>2, <3>3
  <2>5. UNCHANGED living
    BY <2>1 DEF living
  <2> QED BY <1>0, <2>2, <2>4, <2>5 DEF W!Ready, pairs, stages, living
<1>4. ASSUME VethGone(s) PROVE W!Lose(s)
  <2>1. /\ veth = [owner |-> s, moved |-> TRUE] /\ veth' = NoVeth /\ UNCHANGED <<shim, child>>
        /\ shim[s] \notin BeforeClone \cup {"veth", "netcfg"} /\ child[s] # "none" /\ ~Alive(s)
    BY <1>4 DEF VethGone, WireInv
  <2>2. shim[s] # "move"
    BY <2>1 DEF SandboxInv, SupervisorInv
  <2>3. StageOf(s) # "work" /\ \A t \in Shims : StageOf(t)' = StageOf(t)
    BY <2>1, <2>2 DEF StageOf, NetSteps
  <2>4. PairOf(s) = "joined" /\ PairOf(s)' = "gone"
    BY <2>1, <2>3, NoPidAssumption DEF PairOf, NoVeth
  <2>5. \A t \in Shims \ {s} : PairOf(t)' = PairOf(t)
    BY <2>1, <2>3, NoPidAssumption DEF PairOf, NoVeth
  <2>6. pairs' = [pairs EXCEPT ![s] = "gone"] /\ UNCHANGED <<stages, living>>
    BY <2>1, <2>3, <2>4, <2>5, OwnWire DEF stages, living
  <2>7. s \notin living
    BY <2>1 DEF living, Alive
  <2> QED BY <1>0, <2>3, <2>4, <2>6, <2>7 DEF W!Lose, pairs, stages, living
<1> QED BY <1>1, <1>2, <1>3, <1>4

\* Every step of Container is a step of Wiring, or leaves it alone.
LEMMA RefineWiring ==
    TypeOK /\ SandboxInv /\ WireInv /\ [Next]_vars => [W!Next]_<<pairs, stages, living>>
<1> SUFFICES ASSUME TypeOK, SandboxInv, WireInv, [Next]_vars
             PROVE  W!Next \/ UNCHANGED <<pairs, stages, living>>
  OBVIOUS
<1>1. ASSUME UNCHANGED <<shim, veth>>, \A t \in Shims : t \in living' => t \in living
      PROVE  W!End
  <2>1. UNCHANGED <<pairs, stages>>
    BY <1>1 DEF pairs, stages, PairOf, StageOf
  <2>2. living' \in SUBSET living
    BY <1>1 DEF living
  <2> QED BY <2>1, <2>2 DEF W!End, pairs, stages, living
<1>2. ASSUME NEW s \in Shims, Aside(s) PROVE W!Next \/ UNCHANGED <<pairs, stages, living>>
  BY <1>2, RefineAside DEF W!Next
<1>3. ASSUME NEW s \in Shims,
             \/ CreateVeth(s) /\ Alive(s) /\ VethFree
             \/ MoveVeth(s) \/ ConfigureNet(s) \/ VethGone(s)
      PROVE  W!Next
  BY <1>3, RefineWire DEF W!Next
<1> QED BY <1>1, <1>2, <1>3, WireNext DEF W!Next

\* The three network steps of create() keep the promise of Wiring through every
\* race of creates, calls, failures and crashes: the pair of the id has one
\* owner, its child has it before create() goes on, and it goes only when that
\* child has ended.
THEOREM WiringImplemented == Spec => ImplementsWiring
<1>1. Init => W!Init /\ WireInv
  BY WireInit, NoPidAssumption
     DEF Init, W!Init, PairOf, StageOf, NoVeth, BeforeClone, ShimGone
<1>2. TypeOK /\ SandboxInv /\ WireInv /\ [Next]_vars => WireInv'
  BY WireInvNext
<1>3. TypeOK /\ SandboxInv /\ WireInv /\ [Next]_vars => [W!Next]_<<pairs, stages, living>>
  BY RefineWiring
<1>4. QED
  BY <1>1, <1>2, <1>3, TypeCorrect, SandboxInvariant, PTL
     DEF Spec, ImplementsWiring, W!Spec, pairs, stages, living
=============================================================================
