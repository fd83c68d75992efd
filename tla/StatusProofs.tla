---------------------------- MODULE StatusProofs ----------------------------
(* Proofs about what state.json says, for any number of shims, callers and *)
(* pids: a status is backed by what happened to the container.             *)
EXTENDS ContainerProofs

-----------------------------------------------------------------------------
(* What no step takes back.                                                *)

\* A shim that was spawned stays spawned, a connection stays made, a child that
\* ended stays ended, and a SIGKILL is lost only with the child.
LEMMA StepMonotone ==
    ASSUME TypeOK, SandboxInv, Next, NEW t \in Shims
    PROVE  /\ shim'[t] = "off" => shim[t] = "off"
           /\ conns[t] > 0 => conns'[t] > 0
           /\ Ended(t) => Ended(t)'
           /\ Doomed(t) => Doomed(t)'
<1> USE DEF TypeOK, ProcessesOK, childVars, Ended, Doomed
<1>1. ASSUME NEW s \in Shims, ShimStep(s)
      PROVE  /\ shim'[t] = "off" => shim[t] = "off"
             /\ conns[t] > 0 => conns'[t] > 0
             /\ Ended(t) => Ended(t)'
             /\ Doomed(t) => Doomed(t)'
  <2> USE DEF Try
  <2>1. CASE Clone(s)
    BY <2>1 DEF Clone, SandboxInv, SupervisorInv, BeforeClone
  <2>2. CASE WaitPid(s)
    BY <2>2 DEF WaitPid
  <2>3. CASE SaveState(s)
    BY <2>3 DEF SaveState, ShimRead, ShimOpen, ShimPut
  <2>4. CASE \/ CheckExists(s) \/ MakeBundle(s) \/ SayCreating(s) \/ CreateCgroup(s)
             \/ CreateVeth(s) \/ MoveVeth(s) \/ ConfigureNet(s) \/ SetLimits(s)
             \/ SayCreated(s) \/ BindSocket(s) \/ Accept(s) \/ UnfreezeChild(s)
             \/ SayStopped(s) \/ WriteLog(s) \/ ReportFailure(s)
    BY <2>4 DEF CheckExists, MakeBundle, SayCreating, CreateCgroup, CreateVeth, MoveVeth,
                ConfigureNet, SetLimits, SayCreated, BindSocket, Accept, UnfreezeChild,
                SayStopped, WriteLog, ReportFailure, SendEvent
  <2> QED BY <1>1, <2>1, <2>2, <2>3, <2>4 DEF ShimStep
<1>2. ASSUME NEW s \in Shims,
             \/ StepFails(s) \/ PanicAtCut(s) \/ ShimCrash(s) \/ ChildSetup(s) \/ ChildExec(s)
             \/ ChildExit(s) \/ KillTakes(s) \/ VethGone(s) \/ InitReaps(s) \/ Spawn(s)
      PROVE  /\ shim'[t] = "off" => shim[t] = "off"
             /\ conns[t] > 0 => conns'[t] > 0
             /\ Ended(t) => Ended(t)'
             /\ Doomed(t) => Doomed(t)'
  BY <1>2 DEF StepFails, PanicAtCut, ShimCrash, ChildSetup, ChildExec, ChildExit, KillTakes,
              ChildEnds, VethGone,
              InitReaps, Spawn
<1>3. ASSUME NEW c \in Callers,
             CallStep(c) \/ Return(c) \/ \E op \in Ops : Begin(c, op)
      PROVE  /\ shim'[t] = "off" => shim[t] = "off"
             /\ conns[t] > 0 => conns'[t] > 0
             /\ Ended(t) => Ended(t)'
             /\ Doomed(t) => Doomed(t)'
  <2>1. CASE StartConnect(c)
    BY <2>1 DEF StartConnect, FilesOK
  <2>2. CASE KillSignal(c)
    BY <2>2 DEF KillSignal, Alive
  <2>3. CASE \/ CallRead(c) \/ CgroupFreeze(c) \/ CallReread(c) \/ CallOpen(c)
             \/ CallPut(c) \/ RemoveCgroup(c) \/ RemoveBundle(c) \/ Return(c)
             \/ \E op \in Ops : Begin(c, op)
    BY <2>3 DEF CallRead, CgroupFreeze, CallReread, CallOpen, CallPut, RemoveCgroup,
                RemoveBundle, Return, Begin
  <2> QED BY <1>3, <2>1, <2>2, <2>3 DEF CallStep
<1>4. CASE DaemonStops \/ DaemonListens
  BY <1>4 DEF DaemonStops, DaemonListens
<1>5. QED
  BY <1>1, <1>2, <1>3, <1>4 DEF Next, ProcessStep

\* An id that is created once after a step was created once before it.
LEMMA OneCreateBefore ==
    ASSUME TypeOK, SandboxInv, Next, NEW s \in Shims, OneCreate(s)'
    PROVE  OneCreate(s)
BY StepMonotone DEF OneCreate

\* A pid found in a call is that of the only container of the id.
LEMMA OnlyPid ==
    ASSUME SandboxInv, NEW s \in Shims, OneCreate(s), NEW p \in Shims, Known(p)
    PROVE  p = s
<1>1. child[p] # "none"
  BY DEF SandboxInv, PublishedPid, Known, Configured
<1>2. shim[p] # "off"
  BY <1>1 DEF SandboxInv, SupervisorInv, BeforeClone
<1>3. QED
  BY <1>2 DEF OneCreate

\* The second half of fs::write leaves the status that was there, no status,
\* or the one it writes.
LEMMA StatusWritten ==
    ASSUME NEW p, NEW st, NEW q, WriteData(p, Doc(st, q))
    PROVE  file'.status \in {file.status, "garbled", st}
BY DEF WriteData, Doc, Garbled

\* Only the callers' own steps change what they are doing.
LEMMA OnlyCallersCall ==
    ASSUME NEW s \in Shims,
           \/ ShimStep(s) \/ StepFails(s) \/ PanicAtCut(s) \/ ShimCrash(s) \/ ChildSetup(s)
           \/ ChildExec(s) \/ ChildExit(s) \/ KillTakes(s) \/ VethGone(s)
           \/ InitReaps(s) \/ Spawn(s)
    PROVE  call' = call
BY DEF ShimStep, CheckExists, MakeBundle, SayCreating, SaveState, ShimRead, ShimOpen,
       ShimPut, CreateCgroup, Clone, CreateVeth, MoveVeth, ConfigureNet, SetLimits,
       SayCreated, BindSocket, Accept, UnfreezeChild, WaitPid, SayStopped, WriteLog,
       ReportFailure, SendEvent, StepFails, PanicAtCut, ShimCrash, ChildSetup, ChildExec,
       ChildExit, KillTakes, ChildEnds, VethGone, InitReaps, Spawn

-----------------------------------------------------------------------------
(* The inductive step, one part of StatusInv at a time.                    *)

\* The step a call is at is one that its operation has.
LEMMA CallFormNext ==
    ASSUME TypeOK, StatusInv, Next, NEW d \in Callers
    PROVE  CallForm(call[d])'
<1>0. CallForm(call[d])
  BY DEF StatusInv
<1> USE DEF TypeOK, CallsOK, CallType, CallForm
<1>1. CASE call' = call
  BY <1>0, <1>1
<1>2. ASSUME NEW c \in Callers, CallStep(c) PROVE CallForm(call[d])'
  <2>1. CASE CallRead(c)
    BY <2>1, <1>0 DEF CallRead, Permitted, Needs, Effect
  <2>2. CASE CallReread(c)
    BY <2>2, <1>0 DEF CallReread
  <2>3. CASE StartConnect(c)
    BY <2>3, <1>0 DEF StartConnect, Proceed
  <2>4. CASE KillSignal(c) \/ CallOpen(c) \/ CallPut(c) \/ RemoveCgroup(c) \/ RemoveBundle(c)
    BY <2>4, <1>0 DEF KillSignal, CallOpen, CallPut, RemoveCgroup, RemoveBundle, Proceed
  <2>5. CASE CgroupFreeze(c)
    BY <2>5, <1>0 DEF CgroupFreeze, Proceed
  <2> QED BY <1>2, <2>1, <2>2, <2>3, <2>4, <2>5 DEF CallStep
<1>3. ASSUME NEW c \in Callers, Return(c) \/ \E op \in Ops : Begin(c, op)
      PROVE  CallForm(call[d])'
  BY <1>3, <1>0 DEF Return, Begin, Idle
<1>4. ASSUME NEW s \in Shims,
             \/ ShimStep(s) \/ StepFails(s) \/ PanicAtCut(s) \/ ShimCrash(s) \/ ChildSetup(s)
             \/ ChildExec(s) \/ ChildExit(s) \/ KillTakes(s) \/ VethGone(s)
             \/ InitReaps(s) \/ Spawn(s)
      PROVE  call' = call
  BY <1>4, OnlyCallersCall
<1>5. CASE DaemonStops \/ DaemonListens
  BY <1>5, <1>1 DEF DaemonStops, DaemonListens
<1>6. QED
  BY <1>1, <1>2, <1>3, <1>4, <1>5 DEF Next, ProcessStep

\* A call about to write a status goes on having what the status needs.
LEMMA CallBackedNext ==
    ASSUME TypeOK, SandboxInv, StatusInv, Next,
           NEW s \in Shims, OneCreate(s), NEW d \in Callers
    PROVE  CallBacked(call[d], s)'
<1>0. CallForm(call[d]) /\ CallBacked(call[d], s)
  BY DEF StatusInv
<1>T. /\ file.status \in {"running", "paused"} => conns[s] > 0
      /\ file.status = "stopped" => Doomed(s)
  BY DEF StatusInv, StatusTruthful
<1>M. (conns[s] > 0 => conns'[s] > 0) /\ (Doomed(s) => Doomed(s)')
  BY StepMonotone
<1>1. CASE call'[d] = call[d]
  BY <1>0, <1>1, <1>M DEF CallBacked
<1>2. ASSUME CallStep(d) PROVE CallBacked(call[d], s)'
  <2> USE DEF TypeOK, CallsOK, CallType
  <2>1. CASE CallRead(d)
    BY <2>1, <1>M, <1>T DEF CallRead, Permitted, Needs, Effect, CallBacked
  <2>2. CASE CallReread(d)
    BY <2>2, <1>0, <1>M DEF CallReread, CallBacked, CallForm
  <2>3. CASE StartConnect(d)
    <3>1. CASE sock # NoPid /\ shim[sock] \in ListeningSteps
      <4>1. sock = s
        BY <3>1 DEF FilesOK, OneCreate, ListeningSteps
      <4>2. conns'[s] > 0
        BY <2>3, <3>1, <4>1 DEF StartConnect, ProcessesOK
      <4> QED BY <2>3, <4>2, <1>0 DEF StartConnect, Proceed, CallBacked, CallForm
    <3>2. CASE ~(sock # NoPid /\ shim[sock] \in ListeningSteps)
      BY <2>3, <3>2 DEF StartConnect, Proceed, CallBacked
    <3> QED BY <3>1, <3>2
  <2>4. CASE KillSignal(d)
    <3>1. call[d].pid \in Shims /\ call[d].op = "kill"
      BY <2>4, <1>0 DEF KillSignal, Proceed, CallForm
    <3>2. call[d].pid = s
      BY <3>1, OnlyPid DEF Known
    <3>3. child[s] # "none"
      BY <3>2 DEF SandboxInv, PublishedPid, Configured
    <3>4. Doomed(s)'
      BY <2>4, <3>2, <3>3 DEF KillSignal, Doomed, Ended, Alive, ProcessesOK
    <3> QED BY <2>4, <3>1, <3>4 DEF KillSignal, Proceed, CallBacked
  <2>5. CASE CgroupFreeze(d)
    BY <2>5, <1>0, <1>M DEF CgroupFreeze, Proceed, CallBacked, CallForm
  <2>6. CASE CallOpen(d)
    BY <2>6, <1>0, <1>M DEF CallOpen, Proceed, CallBacked
  <2>7. CASE CallPut(d)
    BY <2>7, <1>0, <1>M DEF CallPut, Proceed, CallBacked
  <2>8. CASE RemoveCgroup(d) \/ RemoveBundle(d)
    BY <2>8, <1>0 DEF RemoveCgroup, RemoveBundle, Proceed, CallBacked, CallForm
  <2> QED BY <1>2, <2>1, <2>2, <2>3, <2>4, <2>5, <2>6, <2>7, <2>8 DEF CallStep
<1>3. ASSUME Return(d) \/ \E op \in Ops : Begin(d, op)
      PROVE  CallBacked(call[d], s)'
  BY <1>3 DEF Return, Begin, Idle, CallBacked, TypeOK, CallsOK, CallType
<1>4. ASSUME NEW c \in Callers, c # d,
             CallStep(c) \/ Return(c) \/ \E op \in Ops : Begin(c, op)
      PROVE  call'[d] = call[d]
  BY <1>4 DEF CallStep, CallRead, StartConnect, KillSignal, CgroupFreeze, CallReread, CallOpen,
              CallPut, RemoveCgroup, RemoveBundle, Return, Begin, Proceed,
              TypeOK, CallsOK, CallType
<1>5. ASSUME NEW t \in Shims,
             \/ ShimStep(t) \/ StepFails(t) \/ PanicAtCut(t) \/ ShimCrash(t) \/ ChildSetup(t)
             \/ ChildExec(t) \/ ChildExit(t) \/ KillTakes(t) \/ VethGone(t)
             \/ InitReaps(t) \/ Spawn(t)
      PROVE  call' = call
  BY <1>5, OnlyCallersCall
<1>6. CASE DaemonStops \/ DaemonListens
  BY <1>6, <1>1 DEF DaemonStops, DaemonListens
<1>7. QED
  BY <1>1, <1>2, <1>3, <1>4, <1>5, <1>6 DEF Next, ProcessStep

\* create() writes stopped only once waitpid() has returned.
LEMMA StoppedNext ==
    ASSUME TypeOK, SandboxInv, StatusInv, Next,
           NEW s \in Shims, OneCreate(s), shim'[s] \in StoppedSteps
    PROVE  Ended(s)'
<1>0. shim[s] \in StoppedSteps => Ended(s)'
  BY StepMonotone DEF StatusInv
<1> USE DEF TypeOK, ProcessesOK, StoppedSteps
<1>1. ASSUME NEW t \in Shims, ShimStep(t) PROVE Ended(s)'
  <2> USE DEF Try
  <2>1. CASE WaitPid(t)
    BY <2>1, <1>0 DEF WaitPid, Ended
  <2>2. CASE SaveState(t)
    BY <2>2, <1>0 DEF SaveState, ShimRead, ShimOpen, ShimPut
  <2>3. CASE \/ CheckExists(t) \/ MakeBundle(t) \/ SayCreating(t) \/ CreateCgroup(t)
             \/ Clone(t) \/ CreateVeth(t) \/ MoveVeth(t) \/ ConfigureNet(t)
             \/ SetLimits(t) \/ SayCreated(t) \/ BindSocket(t) \/ Accept(t)
             \/ UnfreezeChild(t) \/ SayStopped(t) \/ WriteLog(t) \/ ReportFailure(t)
    BY <2>3, <1>0 DEF CheckExists, MakeBundle, SayCreating, CreateCgroup, Clone, CreateVeth,
                MoveVeth, ConfigureNet, SetLimits, SayCreated, BindSocket, Accept,
                UnfreezeChild, SayStopped, WriteLog, ReportFailure, SendEvent
  <2> QED BY <1>1, <2>1, <2>2, <2>3 DEF ShimStep
<1>2. ASSUME NEW t \in Shims,
             \/ StepFails(t) \/ PanicAtCut(t) \/ ShimCrash(t) \/ ChildSetup(t) \/ ChildExec(t)
             \/ ChildExit(t) \/ KillTakes(t) \/ VethGone(t) \/ InitReaps(t) \/ Spawn(t)
      PROVE  Ended(s)'
  BY <1>2, <1>0 DEF StepFails, PanicAtCut, ShimCrash, ChildSetup, ChildExec, ChildExit, KillTakes,
                    ChildEnds, VethGone,
                    InitReaps, Spawn
<1>3. ASSUME NEW c \in Callers,
             CallStep(c) \/ Return(c) \/ \E op \in Ops : Begin(c, op)
      PROVE  Ended(s)'
  BY <1>3, <1>0 DEF CallStep, CallRead, StartConnect, KillSignal, CgroupFreeze, CallReread,
              CallOpen, CallPut, RemoveCgroup, RemoveBundle, Return, Begin
<1>4. CASE DaemonStops \/ DaemonListens
  BY <1>4, <1>0 DEF DaemonStops, DaemonListens
<1>5. QED
  BY <1>1, <1>2, <1>3, <1>4 DEF Next, ProcessStep

\* What a write of state.json puts there is true when it gets there.
LEMMA TruthfulNext ==
    ASSUME TypeOK, SandboxInv, StatusInv, Next, NEW s \in Shims, OneCreate(s)
    PROVE  /\ file'.status \in {"running", "paused"} => conns'[s] > 0
           /\ file'.status = "stopped" => Doomed(s)'
<1> DEFINE Truth(st) == /\ st \in {"running", "paused"} => conns'[s] > 0
                        /\ st = "stopped" => Doomed(s)'
<1> SUFFICES Truth(file'.status)
  OBVIOUS
<1>M. (conns[s] > 0 => conns'[s] > 0) /\ (Doomed(s) => Doomed(s)')
  BY StepMonotone
<1>0. Truth(file.status)
  BY <1>M DEF StatusInv, StatusTruthful
<1>N. Truth("garbled") /\ Truth("empty") /\ Truth("absent")
      /\ Truth("creating") /\ Truth("created")
  OBVIOUS
<1>W. ASSUME NEW p, NEW st, NEW q, WriteData(p, Doc(st, q)), Truth(st)
      PROVE  Truth(file'.status)
  BY <1>W, <1>0, <1>N, StatusWritten
<1>O. ASSUME NEW p, OpenTruncate(p) PROVE Truth(file'.status)
  BY <1>O, <1>N DEF OpenTruncate, Empty
<1>U. ASSUME file' = file PROVE Truth(file'.status)
  BY <1>U, <1>0
<1> HIDE DEF Truth
<1>1. ASSUME NEW t \in Shims, ShimStep(t) PROVE Truth(file'.status)
  <2>1. CASE ShimPut(t, "putStopped", Doc("stopped", NoPid), "log")
    <3>1. t = s
      BY <2>1 DEF ShimPut, Try, OneCreate
    <3>2. Truth("stopped")
      BY <2>1, <3>1, <1>M DEF ShimPut, Try, StatusInv, StoppedSteps, Truth, Doomed
    <3> QED BY <2>1, <3>2, <1>W DEF ShimPut
  <2>2. CASE \/ ShimPut(t, "putCreating", Doc("creating", NoPid), "cgroup")
             \/ ShimPut(t, "putCreated", Doc("created", t), "bind")
    BY <2>2, <1>N, <1>W DEF ShimPut
  <2>3. CASE \/ ShimOpen(t, "openCreating", "putCreating")
             \/ ShimOpen(t, "openCreated", "putCreated")
             \/ ShimOpen(t, "openStopped", "putStopped")
    BY <2>3, <1>O, <1>U DEF ShimOpen
  <2>4. CASE \/ ShimRead(t, "readCreated", "openCreated")
             \/ ShimRead(t, "readStopped", "openStopped")
    BY <2>4, <1>U DEF ShimRead, fsVars
  <2>5. CASE ~SaveState(t)
    BY <1>1, <2>5, <1>U
       DEF ShimStep, CheckExists, MakeBundle, SayCreating, CreateCgroup, Clone,
           CreateVeth, MoveVeth, ConfigureNet, SetLimits, SayCreated, BindSocket, Accept,
           UnfreezeChild, WaitPid, SayStopped, WriteLog, ReportFailure, SendEvent, fsVars
  <2> QED BY <1>1, <2>1, <2>2, <2>3, <2>4, <2>5 DEF SaveState
<1>2. ASSUME NEW t \in Shims,
             \/ StepFails(t) \/ PanicAtCut(t) \/ ShimCrash(t) \/ ChildSetup(t) \/ ChildExec(t)
             \/ ChildExit(t) \/ KillTakes(t) \/ VethGone(t) \/ InitReaps(t) \/ Spawn(t)
      PROVE  Truth(file'.status)
  BY <1>2, <1>U DEF StepFails, PanicAtCut, ShimCrash, ChildSetup, ChildExec, ChildExit, KillTakes,
                    ChildEnds, VethGone,
                    InitReaps, Spawn, fsVars
<1>3. ASSUME NEW c \in Callers,
             CallStep(c) \/ Return(c) \/ \E op \in Ops : Begin(c, op)
      PROVE  Truth(file'.status)
  <2>1. CASE CallPut(c)
    <3>1. call[c].op \in DOMAIN Result /\ call[c].pc = "put"
      BY <2>1 DEF CallPut, Proceed, TypeOK, CallsOK, UpdateSteps
    <3>2. CallBacked(call[c], s)
      BY DEF StatusInv
    <3>3. Truth(Result[call[c].op])
      BY <3>1, <3>2, <1>M DEF CallBacked, Result, Truth
    <3> QED BY <2>1, <3>3, <1>W DEF CallPut
  <2>2. CASE CallOpen(c)
    BY <2>2, <1>O, <1>U DEF CallOpen
  <2>3. CASE RemoveBundle(c)
    BY <2>3, <1>N DEF RemoveBundle, Absent
  <2>4. CASE \/ CallRead(c) \/ StartConnect(c) \/ KillSignal(c) \/ CgroupFreeze(c)
             \/ CallReread(c) \/ RemoveCgroup(c) \/ Return(c)
             \/ \E op \in Ops : Begin(c, op)
    BY <2>4, <1>U DEF CallRead, StartConnect, KillSignal, CgroupFreeze, CallReread,
                      RemoveCgroup, Return, Begin, fsVars
  <2> QED BY <1>3, <2>1, <2>2, <2>3, <2>4 DEF CallStep
<1>4. CASE DaemonStops \/ DaemonListens
  BY <1>4, <1>U DEF DaemonStops, DaemonListens, fsVars
<1>5. QED
  BY <1>1, <1>2, <1>3, <1>4 DEF Next, ProcessStep

\* Nothing is claimed before the first create().
LEMMA StatusInit == Init => StatusInv
BY DEF Init, StatusInv, StatusTruthful, CallForm, CallBacked, StoppedSteps, Absent, Idle

\* The inductive step of StatusInv.
LEMMA StatusNext == TypeOK /\ SandboxInv /\ StatusInv /\ [Next]_vars => StatusInv'
<1> SUFFICES ASSUME TypeOK, SandboxInv, StatusInv, [Next]_vars PROVE StatusInv'
  OBVIOUS
<1>1. CASE UNCHANGED vars
  BY <1>1 DEF vars, childVars, fsVars, StatusInv, StatusTruthful, CallForm, CallBacked,
              Doomed, Ended, OneCreate
<1>2. CASE Next
  <2>1. \A d \in Callers : CallForm(call[d])'
    BY <1>2, CallFormNext
  <2>2. ASSUME NEW s \in Shims, OneCreate(s)'
        PROVE  /\ \A d \in Callers : CallBacked(call[d], s)'
               /\ shim'[s] \in StoppedSteps => Ended(s)'
               /\ file'.status \in {"running", "paused"} => conns'[s] > 0
               /\ file'.status = "stopped" => Doomed(s)'
    <3>1. OneCreate(s)
      BY <1>2, <2>2, OneCreateBefore
    <3> QED BY <1>2, <3>1, CallBackedNext, StoppedNext, TruthfulNext
  <2> QED BY <2>1, <2>2 DEF StatusInv, StatusTruthful
<1> QED BY <1>1, <1>2

\* A call is always at a step of its operation, with what it is going to write
\* already true.
THEOREM StatusInvariant == Spec => []StatusInv
<1>1. Init => StatusInv
  BY StatusInit
<1>2. TypeOK /\ SandboxInv /\ StatusInv /\ [Next]_vars => StatusInv'
  BY StatusNext
<1>3. QED
  BY <1>1, <1>2, TypeCorrect, SandboxInvariant, PTL DEF Spec

\* For any number of calls racing with create(), with each other and with a
\* crash or a panic of the supervisor, state.json says running or paused only after a
\* start was delivered, and stopped only of a child that has ended or has a
\* SIGKILL pending.
THEOREM StatusAlwaysTruthful == Spec => []StatusTruthful
<1>1. StatusInv => StatusTruthful
  BY DEF StatusInv
<1>2. QED
  BY <1>1, StatusInvariant, PTL

-----------------------------------------------------------------------------
(* The freezer.                                                            *)

\* Only a pause that found the status running freezes.
LEMMA FrozenNext ==
    ASSUME TypeOK, SandboxInv, StatusInv, FrozenAfterStart, Next,
           NEW s \in Shims, OneCreate(s), frozen'
    PROVE  conns'[s] > 0
<1>0. (frozen => conns[s] > 0) /\ (conns[s] > 0 => conns'[s] > 0)
  BY StepMonotone DEF FrozenAfterStart
<1> SUFFICES ASSUME ~frozen PROVE conns[s] > 0
  BY <1>0
<1> USE DEF cgVars
<1>1. ASSUME NEW t \in Shims, ShimStep(t) PROVE FALSE
  BY <1>1 DEF ShimStep, CheckExists, MakeBundle, SayCreating, SaveState, ShimRead,
              ShimOpen, ShimPut, CreateCgroup, Clone, CreateVeth, MoveVeth, ConfigureNet,
              SetLimits, SayCreated, BindSocket, Accept, UnfreezeChild, WaitPid, SayStopped,
              WriteLog, ReportFailure, SendEvent
<1>2. ASSUME NEW t \in Shims,
             \/ StepFails(t) \/ PanicAtCut(t) \/ ShimCrash(t) \/ ChildSetup(t) \/ ChildExec(t)
             \/ ChildExit(t) \/ KillTakes(t) \/ VethGone(t) \/ InitReaps(t) \/ Spawn(t)
      PROVE  FALSE
  BY <1>2 DEF StepFails, PanicAtCut, ShimCrash, ChildSetup, ChildExec, ChildExit, KillTakes,
              VethGone, InitReaps, Spawn
<1>3. ASSUME NEW c \in Callers,
             CallStep(c) \/ Return(c) \/ \E op \in Ops : Begin(c, op)
      PROVE  conns[s] > 0
  <2>1. CASE CgroupFreeze(c)
    <3>1. call[c].pc = "freeze" /\ call[c].op = "pause"
      BY <2>1 DEF CgroupFreeze, Proceed
    <3> QED BY <3>1 DEF StatusInv, CallBacked
  <2>2. CASE ~CgroupFreeze(c)
    BY <1>3, <2>2
       DEF CallStep, CallRead, StartConnect, KillSignal, CallReread, CallOpen,
           CallPut, RemoveCgroup, RemoveBundle, Return, Begin
  <2> QED BY <2>1, <2>2
<1>4. CASE DaemonStops \/ DaemonListens
  BY <1>4 DEF DaemonStops, DaemonListens
<1>5. QED
  BY <1>1, <1>2, <1>3, <1>4 DEF Next, ProcessStep

\* For any number of overlapping calls, a pause that read the status long ago
\* included, the cgroup of an id that was created once is never frozen before a
\* start has reached the supervisor.
THEOREM FrozenOnlyAfterStart == Spec => []FrozenAfterStart
<1>1. Init => FrozenAfterStart
  BY DEF Init, FrozenAfterStart
<1>2. TypeOK /\ SandboxInv /\ StatusInv /\ FrozenAfterStart /\ [Next]_vars
        => FrozenAfterStart'
  <2> SUFFICES ASSUME TypeOK, SandboxInv, StatusInv, FrozenAfterStart, [Next]_vars
               PROVE  FrozenAfterStart'
    OBVIOUS
  <2>1. CASE UNCHANGED vars
    BY <2>1 DEF vars, cgVars, FrozenAfterStart, OneCreate
  <2>2. CASE Next
    BY <2>2, OneCreateBefore, FrozenNext DEF FrozenAfterStart
  <2> QED BY <2>1, <2>2
<1>3. QED
  BY <1>1, <1>2, TypeCorrect, SandboxInvariant, StatusInvariant, PTL DEF Spec

-----------------------------------------------------------------------------
(* The pid in state.json.                                                  *)

\* While an id has been created once, a state.json without a pid is that of a
\* create() still on its way to set_created, or of a child that has ended or
\* has a SIGKILL pending; and so is what a call has read to write it back.  A
\* supervisor somebody connected to is past set_created.
PastBind == ListeningSteps \cup {"done", "fail"} \cup ShimGone
PastCreated == ListeningSteps \cup {"putCreated", "bind", "done"}

PidInv ==
    /\ \A s \in Shims : conns[s] > 0 => shim[s] \in PastBind
    /\ \A s \in Shims : OneCreate(s) =>
          /\ file.status = "creating" => ~(conns[s] > 0) /\ shim[s] \notin PastCreated
          /\ Readable /\ file.pid = NoPid => file.status = "creating" \/ Doomed(s)
          /\ \A c \in Callers :
                call[c].pc \in {"open", "put"} /\ call[c].pid = NoPid => Doomed(s)

\* A connection is made to a supervisor that has come to listen.
LEMMA ConnectedNext ==
    ASSUME TypeOK, PidInv, Next, NEW t \in Shims, conns'[t] > 0
    PROVE  shim'[t] \in PastBind
<1>0. conns[t] > 0 => shim[t] \in PastBind
  BY DEF PidInv
<1> USE DEF TypeOK, ProcessesOK, ListeningSteps, PastBind, ShimGone
<1>1. ASSUME NEW s \in Shims, ShimStep(s) PROVE shim'[t] \in PastBind
  <2> USE DEF Try
  <2>1. CASE SaveState(s)
    BY <2>1, <1>0 DEF SaveState, ShimRead, ShimOpen, ShimPut
  <2>2. CASE \/ CheckExists(s) \/ MakeBundle(s) \/ SayCreating(s) \/ CreateCgroup(s)
             \/ Clone(s) \/ CreateVeth(s) \/ MoveVeth(s) \/ ConfigureNet(s)
    BY <2>2, <1>0 DEF CheckExists, MakeBundle, SayCreating, CreateCgroup, Clone,
                      CreateVeth, MoveVeth, ConfigureNet, SendEvent
  <2>3. CASE \/ SetLimits(s) \/ SayCreated(s) \/ BindSocket(s) \/ Accept(s)
             \/ UnfreezeChild(s) \/ WaitPid(s) \/ SayStopped(s) \/ WriteLog(s)
             \/ ReportFailure(s)
    BY <2>3, <1>0 DEF SetLimits, SayCreated, BindSocket, Accept, UnfreezeChild, WaitPid,
                      SayStopped, WriteLog, ReportFailure, SendEvent
  <2> QED BY <1>1, <2>1, <2>2, <2>3 DEF ShimStep
<1>2. ASSUME NEW s \in Shims,
             \/ StepFails(s) \/ PanicAtCut(s) \/ ShimCrash(s) \/ ChildSetup(s) \/ ChildExec(s)
             \/ ChildExit(s) \/ KillTakes(s) \/ VethGone(s) \/ InitReaps(s) \/ Spawn(s)
      PROVE  shim'[t] \in PastBind
  BY <1>0, <1>2 DEF StepFails, PanicAtCut, ShimCrash, ChildSetup, ChildExec, ChildExit,
                    KillTakes, VethGone, InitReaps, Spawn
<1>3. ASSUME NEW c \in Callers,
             CallStep(c) \/ Return(c) \/ \E op \in Ops : Begin(c, op)
      PROVE  shim'[t] \in PastBind
  <2>1. CASE StartConnect(c)
    BY <2>1, <1>0 DEF StartConnect, FilesOK
  <2>2. CASE ~StartConnect(c)
    BY <1>0, <1>3, <2>2
       DEF CallStep, CallRead, KillSignal, CgroupFreeze, CallReread, CallOpen,
           CallPut, RemoveCgroup, RemoveBundle, Return, Begin
  <2> QED BY <2>1, <2>2
<1>4. CASE DaemonStops \/ DaemonListens
  BY <1>0, <1>4 DEF DaemonStops, DaemonListens
<1>5. QED
  BY <1>1, <1>2, <1>3, <1>4 DEF Next, ProcessStep

Unread == {"absent", "empty", "garbled"}

\* The second half of fs::write leaves what was there, nothing that parses, or
\* what it writes.
LEMMA FileWritten ==
    ASSUME NEW p, NEW st, NEW q, WriteData(p, Doc(st, q))
    PROVE  file' = file \/ file'.status \in Unread \/ (file'.status = st /\ file'.pid = q)
BY DEF WriteData, Doc, Garbled, Unread

\* So does every step: create() writes creating, created and stopped, the calls
\* what their operation writes.
LEMMA FileNext ==
    ASSUME TypeOK, Next
    PROVE  \/ file' = file
           \/ file'.status \in Unread
           \/ \E s \in Shims :
                 \/ shim[s] = "putCreating" /\ shim'[s] = "cgroup" /\ UNCHANGED conns
                      /\ file'.status = "creating" /\ file'.pid = NoPid
                 \/ file'.status = "created" /\ file'.pid = s
                 \/ shim[s] = "putStopped" /\ file'.status = "stopped" /\ file'.pid = NoPid
           \/ \E c \in Callers :
                 /\ call[c].pc = "put" /\ call[c].op \in DOMAIN Result
                 /\ file'.status = Result[call[c].op]
                 /\ file'.pid = IF call[c].op = "kill" THEN NoPid ELSE call[c].pid
<1> USE DEF fsVars
<1>O. ASSUME NEW p, OpenTruncate(p) PROVE file'.status \in Unread
  BY <1>O DEF OpenTruncate, Empty, Unread
<1>1. ASSUME NEW s \in Shims, ShimStep(s)
      PROVE  \/ file' = file \/ file'.status \in Unread
             \/ shim[s] = "putCreating" /\ shim'[s] = "cgroup" /\ UNCHANGED conns
                  /\ file'.status = "creating" /\ file'.pid = NoPid
             \/ file'.status = "created" /\ file'.pid = s
             \/ shim[s] = "putStopped" /\ file'.status = "stopped" /\ file'.pid = NoPid
  <2>1. CASE ShimPut(s, "putCreating", Doc("creating", NoPid), "cgroup")
    BY <2>1, FileWritten DEF ShimPut, Try, TypeOK, ProcessesOK
  <2>2. CASE ShimPut(s, "putCreated", Doc("created", s), "bind")
    BY <2>2, FileWritten DEF ShimPut
  <2>3. CASE ShimPut(s, "putStopped", Doc("stopped", NoPid), "log")
    BY <2>3, FileWritten DEF ShimPut, Try
  <2>4. CASE \/ ShimOpen(s, "openCreating", "putCreating")
             \/ ShimOpen(s, "openCreated", "putCreated")
             \/ ShimOpen(s, "openStopped", "putStopped")
    BY <2>4, <1>O DEF ShimOpen
  <2>5. CASE \/ ShimRead(s, "readCreated", "openCreated")
             \/ ShimRead(s, "readStopped", "openStopped")
    BY <2>5 DEF ShimRead
  <2>6. CASE ~SaveState(s)
    BY <1>1, <2>6
       DEF ShimStep, CheckExists, MakeBundle, SayCreating, CreateCgroup, Clone,
           CreateVeth, MoveVeth, ConfigureNet, SetLimits, SayCreated, BindSocket, Accept,
           UnfreezeChild, WaitPid, SayStopped, WriteLog, ReportFailure, SendEvent
  <2> QED BY <2>1, <2>2, <2>3, <2>4, <2>5, <2>6 DEF SaveState
<1>2. ASSUME NEW s \in Shims,
             \/ StepFails(s) \/ PanicAtCut(s) \/ ShimCrash(s) \/ ChildSetup(s) \/ ChildExec(s)
             \/ ChildExit(s) \/ KillTakes(s) \/ VethGone(s) \/ InitReaps(s) \/ Spawn(s)
      PROVE  file' = file
  BY <1>2 DEF StepFails, PanicAtCut, ShimCrash, ChildSetup, ChildExec, ChildExit, KillTakes,
              VethGone, InitReaps, Spawn
<1>3. ASSUME NEW c \in Callers,
             CallStep(c) \/ Return(c) \/ \E op \in Ops : Begin(c, op)
      PROVE  \/ file' = file \/ file'.status \in Unread
             \/ /\ call[c].pc = "put" /\ call[c].op \in DOMAIN Result
                /\ file'.status = Result[call[c].op]
                /\ file'.pid = IF call[c].op = "kill" THEN NoPid ELSE call[c].pid
  <2>1. CASE CallPut(c)
    <3>1. call[c].pc = "put" /\ call[c].op \in DOMAIN Result
      BY <2>1 DEF CallPut, Proceed, TypeOK, CallsOK, UpdateSteps
    <3> QED BY <2>1, <3>1, FileWritten DEF CallPut
  <2>2. CASE CallOpen(c)
    BY <2>2, <1>O DEF CallOpen
  <2>3. CASE RemoveBundle(c)
    BY <2>3 DEF RemoveBundle, Absent, Unread
  <2>4. CASE \/ CallRead(c) \/ StartConnect(c) \/ KillSignal(c) \/ CgroupFreeze(c)
             \/ CallReread(c) \/ RemoveCgroup(c) \/ Return(c)
             \/ \E op \in Ops : Begin(c, op)
    BY <2>4 DEF CallRead, StartConnect, KillSignal, CgroupFreeze, CallReread,
                RemoveCgroup, Return, Begin
  <2> QED BY <1>3, <2>1, <2>2, <2>3, <2>4 DEF CallStep
<1>4. CASE DaemonStops \/ DaemonListens
  BY <1>4 DEF DaemonStops, DaemonListens
<1>5. QED
  BY <1>1, <1>2, <1>3, <1>4 DEF Next, ProcessStep

\* create() comes past the truncation for set_created with an empty file.
LEMMA EntersCreated ==
    ASSUME TypeOK, Next, NEW s \in Shims, shim[s] \notin PastCreated, shim'[s] \in PastCreated
    PROVE  file' = Empty
<1> USE DEF TypeOK, ProcessesOK, PastCreated, ListeningSteps
<1>1. ASSUME NEW t \in Shims, ShimStep(t) PROVE file' = Empty
  <2> USE DEF Try
  <2>1. CASE SaveState(t)
    <3>1. CASE ShimOpen(t, "openCreated", "putCreated")
      BY <3>1 DEF ShimOpen, OpenTruncate
    <3>2. CASE ~ShimOpen(t, "openCreated", "putCreated")
      BY <2>1, <3>2 DEF SaveState, ShimRead, ShimOpen, ShimPut
    <3> QED BY <3>1, <3>2
  <2>2. CASE \/ CheckExists(t) \/ MakeBundle(t) \/ SayCreating(t) \/ CreateCgroup(t)
             \/ Clone(t) \/ CreateVeth(t) \/ MoveVeth(t) \/ ConfigureNet(t)
    BY <2>2 DEF CheckExists, MakeBundle, SayCreating, CreateCgroup, Clone,
                CreateVeth, MoveVeth, ConfigureNet, SendEvent
  <2>3. CASE \/ SetLimits(t) \/ SayCreated(t) \/ BindSocket(t) \/ Accept(t)
             \/ UnfreezeChild(t) \/ WaitPid(t) \/ SayStopped(t) \/ WriteLog(t)
             \/ ReportFailure(t)
    BY <2>3 DEF SetLimits, SayCreated, BindSocket, Accept, UnfreezeChild, WaitPid,
                SayStopped, WriteLog, ReportFailure, SendEvent
  <2> QED BY <1>1, <2>1, <2>2, <2>3 DEF ShimStep
<1>2. ASSUME NEW t \in Shims,
             \/ StepFails(t) \/ PanicAtCut(t) \/ ShimCrash(t) \/ ChildSetup(t) \/ ChildExec(t)
             \/ ChildExit(t) \/ KillTakes(t) \/ VethGone(t) \/ InitReaps(t) \/ Spawn(t)
      PROVE  FALSE
  BY <1>2 DEF StepFails, PanicAtCut, ShimCrash, ChildSetup, ChildExec, ChildExit, KillTakes,
              VethGone, InitReaps, Spawn
<1>3. ASSUME NEW c \in Callers,
             CallStep(c) \/ Return(c) \/ \E op \in Ops : Begin(c, op)
      PROVE  FALSE
  BY <1>3 DEF CallStep, CallRead, StartConnect, KillSignal, CgroupFreeze, CallReread,
              CallOpen, CallPut, RemoveCgroup, RemoveBundle, Return, Begin
<1>4. CASE DaemonStops \/ DaemonListens
  BY <1>4 DEF DaemonStops, DaemonListens
<1>5. QED
  BY <1>1, <1>2, <1>3, <1>4 DEF Next, ProcessStep

\* The first connection is made while the supervisor listens.
LEMMA FirstConnection ==
    ASSUME TypeOK, Next, NEW s \in Shims, ~(conns[s] > 0), conns'[s] > 0
    PROVE  shim[s] \in ListeningSteps
<1> USE DEF TypeOK, ProcessesOK
<1>1. ASSUME NEW t \in Shims, ShimStep(t) PROVE FALSE
  BY <1>1 DEF ShimStep, CheckExists, MakeBundle, SayCreating, SaveState, ShimRead,
              ShimOpen, ShimPut, CreateCgroup, Clone, CreateVeth, MoveVeth, ConfigureNet,
              SetLimits, SayCreated, BindSocket, Accept, UnfreezeChild, WaitPid, SayStopped,
              WriteLog, ReportFailure, SendEvent
<1>2. ASSUME NEW t \in Shims,
             \/ StepFails(t) \/ PanicAtCut(t) \/ ShimCrash(t) \/ ChildSetup(t) \/ ChildExec(t)
             \/ ChildExit(t) \/ KillTakes(t) \/ VethGone(t) \/ InitReaps(t) \/ Spawn(t)
      PROVE  FALSE
  BY <1>2 DEF StepFails, PanicAtCut, ShimCrash, ChildSetup, ChildExec, ChildExit, KillTakes,
              VethGone, InitReaps, Spawn
<1>3. ASSUME NEW c \in Callers,
             CallStep(c) \/ Return(c) \/ \E op \in Ops : Begin(c, op)
      PROVE  shim[s] \in ListeningSteps
  <2>1. CASE StartConnect(c)
    BY <2>1 DEF StartConnect, FilesOK
  <2>2. CASE ~StartConnect(c)
    BY <1>3, <2>2
       DEF CallStep, CallRead, KillSignal, CgroupFreeze, CallReread, CallOpen,
           CallPut, RemoveCgroup, RemoveBundle, Return, Begin
  <2> QED BY <2>1, <2>2
<1>4. CASE DaemonStops \/ DaemonListens
  BY <1>4 DEF DaemonStops, DaemonListens
<1>5. QED
  BY <1>1, <1>2, <1>3, <1>4 DEF Next, ProcessStep

\* Once set_created has begun the file does not say creating any more.
LEMMA CreatingNext ==
    ASSUME TypeOK, PidInv, Next, NEW s \in Shims, OneCreate(s), file'.status = "creating"
    PROVE  ~(conns'[s] > 0) /\ shim'[s] \notin PastCreated
<1>1. CASE file' = file
  <2>1. ~(conns[s] > 0) /\ shim[s] \notin PastCreated
    BY <1>1 DEF PidInv
  <2>2. ~(conns'[s] > 0)
    BY <2>1, FirstConnection DEF PastCreated
  <2>3. shim'[s] \notin PastCreated
    BY <2>1, EntersCreated DEF Empty
  <2> QED BY <2>2, <2>3
<1>2. ASSUME NEW t \in Shims, shim[t] = "putCreating", shim'[t] = "cgroup", UNCHANGED conns
      PROVE  ~(conns'[s] > 0) /\ shim'[s] \notin PastCreated
  <2>1. t = s
    BY <1>2 DEF OneCreate
  <2> QED BY <1>2, <2>1 DEF PidInv, PastBind, PastCreated, ListeningSteps, ShimGone
<1>3. QED
  BY <1>1, <1>2, FileNext DEF Unread, Result

\* A status is written without a pid of a child that is doomed only.
LEMMA NoPidNext ==
    ASSUME TypeOK, SandboxInv, StatusInv, PidInv, Next,
           NEW s \in Shims, OneCreate(s), Readable', file'.pid = NoPid
    PROVE  file'.status = "creating" \/ Doomed(s)'
<1>M. Doomed(s) => Doomed(s)'
  BY StepMonotone
<1>1. CASE file' = file
  BY <1>1, <1>M DEF PidInv, Readable
<1>2. CASE file'.status \in Unread
  BY <1>2 DEF Readable, Status, Unread
<1>3. ASSUME NEW t \in Shims, shim[t] = "putStopped" PROVE Doomed(s)'
  <2>1. t = s
    BY <1>3 DEF OneCreate
  <2> QED BY <1>3, <2>1, <1>M DEF StatusInv, StoppedSteps, Doomed
<1>4. ASSUME NEW c \in Callers, call[c].pc = "put",
             file'.pid = IF call[c].op = "kill" THEN NoPid ELSE call[c].pid
      PROVE  Doomed(s)'
  <2>1. CASE call[c].op = "kill"
    BY <1>4, <2>1, <1>M DEF StatusInv, CallBacked
  <2>2. CASE call[c].op # "kill"
    BY <1>4, <2>2, <1>M DEF PidInv
  <2> QED BY <2>1, <2>2
<1>5. QED
  BY <1>1, <1>2, <1>3, <1>4, FileNext, NoPidAssumption

\* A call that is to write a status without a pid has read it so.
LEMMA CallPidNext ==
    ASSUME TypeOK, SandboxInv, StatusInv, PidInv, Next,
           NEW s \in Shims, OneCreate(s), NEW d \in Callers,
           call'[d].pc \in {"open", "put"}, call'[d].pid = NoPid
    PROVE  Doomed(s)'
<1>M. Doomed(s) => Doomed(s)'
  BY StepMonotone
<1>0. CallBacked(call[d], s)' /\ CallBacked(call[d], s) /\ CallForm(call[d])
  BY CallBackedNext DEF StatusInv
<1> USE DEF TypeOK, CallsOK, CallType
<1>1. CASE call'[d] = call[d]
  BY <1>1, <1>M DEF PidInv
<1>2. ASSUME CallStep(d) PROVE Doomed(s)'
  <2>1. CASE CallRead(d)
    BY <2>1 DEF CallRead, Effect, Needs
  <2>2. CASE CallReread(d)
    <3>1. Readable /\ file.pid = NoPid /\ call[d].op \in DOMAIN Result \ {"kill"}
      BY <2>2, <1>0 DEF CallReread, CallForm, UpdateSteps
    <3>2. conns[s] > 0
      BY <2>2, <3>1, <1>0 DEF CallReread, CallBacked, Result
    <3> QED BY <3>1, <3>2, <1>M DEF PidInv
  <2>3. CASE KillSignal(d)
    BY <2>3, <1>0 DEF KillSignal, Proceed, CallBacked, CallForm
  <2>4. CASE CallOpen(d)
    BY <2>4, <1>M DEF CallOpen, Proceed, PidInv
  <2>5. CASE StartConnect(d) \/ CgroupFreeze(d) \/ CallPut(d)
    BY <2>5 DEF StartConnect, CgroupFreeze, CallPut, Proceed
  <2>6. CASE RemoveCgroup(d) \/ RemoveBundle(d)
    BY <2>6 DEF RemoveCgroup, RemoveBundle, Proceed
  <2> QED BY <1>2, <2>1, <2>2, <2>3, <2>4, <2>5, <2>6 DEF CallStep
<1>3. ASSUME Return(d) \/ \E op \in Ops : Begin(d, op)
      PROVE  Doomed(s)'
  BY <1>3 DEF Return, Begin, Idle
<1>4. ASSUME NEW c \in Callers, c # d,
             CallStep(c) \/ Return(c) \/ \E op \in Ops : Begin(c, op)
      PROVE  call'[d] = call[d]
  BY <1>4 DEF CallStep, CallRead, StartConnect, KillSignal, CgroupFreeze, CallReread, CallOpen,
              CallPut, RemoveCgroup, RemoveBundle, Return, Begin, Proceed
<1>5. ASSUME NEW t \in Shims,
             \/ ShimStep(t) \/ StepFails(t) \/ PanicAtCut(t) \/ ShimCrash(t) \/ ChildSetup(t)
             \/ ChildExec(t) \/ ChildExit(t) \/ KillTakes(t) \/ VethGone(t) \/ InitReaps(t)
             \/ Spawn(t)
      PROVE  call' = call
  BY <1>5, OnlyCallersCall
<1>6. CASE DaemonStops \/ DaemonListens
  BY <1>6, <1>1 DEF DaemonStops, DaemonListens
<1>7. QED
  BY <1>1, <1>2, <1>3, <1>4, <1>5, <1>6 DEF Next, ProcessStep

\* There is no pid and no connection in the initial state.
LEMMA PidInit == Init => PidInv
BY DEF Init, PidInv, Absent, Readable, Status, Idle

\* The inductive step of PidInv.
LEMMA PidNext ==
    ASSUME TypeOK, SandboxInv, StatusInv, PidInv, [Next]_vars
    PROVE  PidInv'
<1>1. CASE UNCHANGED vars
  BY <1>1 DEF vars, childVars, fsVars, PidInv, OneCreate, Readable, Doomed, Ended
<1>2. CASE Next
  <2>1. ASSUME NEW s \in Shims PROVE (conns[s] > 0 => shim[s] \in PastBind)'
    BY <1>2, ConnectedNext
  <2>2. ASSUME NEW s \in Shims, OneCreate(s)' PROVE OneCreate(s)
    BY <1>2, <2>2, OneCreateBefore
  <2> QED BY <1>2, <2>1, <2>2, CreatingNext, NoPidNext, CallPidNext DEF PidInv
<1>3. QED
  BY <1>1, <1>2
=============================================================================
