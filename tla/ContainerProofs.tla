-------------------------- MODULE ContainerProofs --------------------------
(* Proofs about Container, for any number of shims, callers and pids.      *)
EXTENDS Container, TLAPS

-----------------------------------------------------------------------------
(* Types.                                                                  *)

\* A document written to state.json is a value of the type of file.
LEMMA DocType ==
    ASSUME NEW st \in Status, NEW p \in Shims \cup {NoPid}
    PROVE  Doc(st, p) \in FileType
<1>1. StatusLen[st] \in Nat
  BY DEF Status, StatusLen
<1>2. QED
  BY <1>1, BoundsAssumption DEF Doc, FileType

\* What the two halves of fs::write leave is again of the type of file.
LEMMA WriteType ==
    ASSUME FilesOK, NEW p \in Procs, NEW st \in Status,
           NEW q \in Shims \cup {NoPid}, WriteData(p, Doc(st, q)),
           UNCHANGED <<bundle, sock>>
    PROVE  FilesOK'
<1>1. Doc(st, q) \in FileType
  BY DocType
<1>2. file' \in FileType
  <2> DEFINE d == Doc(st, q)
  <2> HIDE DEF d
  <2> QED BY <1>1 DEF WriteData, FilesOK, FileType, Garbled, d
<1>3. QED
  BY <1>2 DEF WriteData, FilesOK

\* The truncation alone keeps the type as well.
LEMMA OpenType ==
    ASSUME FilesOK, NEW p \in Procs, OpenTruncate(p), UNCHANGED <<bundle, sock>>
    PROVE  FilesOK'
BY DEF OpenTruncate, Empty, FilesOK, FileType

\* A step of create() leaves a program counter of create().
LEMMA TryType ==
    ASSUME ProcessesOK, NEW s \in Shims, NEW from, NEW ok, NEW to \in ShimSteps,
           Try(s, from, ok, to)
    PROVE  shim' \in [Shims -> ShimSteps]
BY DEF ProcessesOK, Try, ShimSteps, ListeningSteps, ShimOver, ShimGone

\* Before the first create() every variable has its type.
LEMMA TypeInit == Init => TypeOK
<1> SUFFICES ASSUME Init PROVE TypeOK
  OBVIOUS
<1>1. ProcessesOK
  <2>1. pipe \in [Shims -> BOOLEAN]
    BY Zenon DEF Init
  <2>2. QED
    BY <2>1 DEF Init, ProcessesOK, ShimSteps, ShimOver, ShimGone
<1>2. FilesOK
  BY DEF Init, FilesOK, FileType, Absent
<1>3. KernelOK
  BY DEF Init, KernelOK, NoVeth
<1>4. EventsOK
  BY DEF Init, EventsOK
<1>5. CallsOK
  BY DEF Init, CallsOK, CallType, Idle, CallSteps, UpdateSteps
<1>6. QED
  BY <1>1, <1>2, <1>3, <1>4, <1>5 DEF TypeOK

\* A step of create() keeps the types.
LEMMA TypeShim ==
    ASSUME TypeOK, NEW s \in Shims, ShimStep(s)
    PROVE  TypeOK'
<1>S. {"mkdir", "sayCreating", "openCreating", "putCreating", "cgroup", "clone",
       "veth", "move", "netcfg", "limits", "sayCreated", "readCreated",
       "openCreated", "putCreated", "bind", "accept", "unfreeze", "wait",
       "sayStopped", "readStopped", "openStopped", "putStopped", "log", "done",
       "fail", "dead"} \subseteq ShimSteps
  BY DEF ShimSteps, ListeningSteps, ShimOver, ShimGone
<1> USE DEF TypeOK, childVars, fsVars, cgVars, evVars
<1>1. CASE CheckExists(s)
  <2>1. shim' \in [Shims -> ShimSteps]
    BY <1>1, <1>S, TryType DEF CheckExists
  <2> QED BY <1>1, <2>1 DEF CheckExists, ProcessesOK, FilesOK, KernelOK, EventsOK, CallsOK
<1>2. CASE MakeBundle(s)
  <2>1. shim' \in [Shims -> ShimSteps]
    BY <1>2, <1>S, TryType DEF MakeBundle
  <2> QED BY <1>2, <2>1 DEF MakeBundle, ProcessesOK, FilesOK, KernelOK, EventsOK, CallsOK
<1>3. CASE SayCreating(s)
  <2>1. shim' \in [Shims -> ShimSteps]
    BY <1>3, <1>S, TryType DEF SayCreating, SendEvent
  <2>2. Event(s, "creating", 0) \in EventType
    BY DEF Event, EventType, Status
  <2> QED BY <1>3, <2>1, <2>2 DEF SayCreating, SendEvent, ProcessesOK, FilesOK, KernelOK,
                                  EventsOK, CallsOK
<1>4. CASE SayCreated(s)
  <2>1. shim' \in [Shims -> ShimSteps]
    BY <1>4, <1>S, TryType DEF SayCreated, SendEvent
  <2>2. Event(s, "created", 0) \in EventType
    BY DEF Event, EventType, Status
  <2> QED BY <1>4, <2>1, <2>2 DEF SayCreated, SendEvent, ProcessesOK, FilesOK, KernelOK, EventsOK,
                                  CallsOK
<1>5. CASE SayStopped(s)
  <2>1. shim' \in [Shims -> ShimSteps]
    BY <1>5, <1>S, TryType DEF SayStopped, SendEvent
  <2>2. Event(s, "stopped", ReportedCode(s)) \in EventType
    BY DEF Event, EventType, Status, ReportedCode, Signaled, ProcessesOK
  <2> QED BY <1>5, <2>1, <2>2 DEF SayStopped, SendEvent, ProcessesOK, FilesOK, KernelOK, EventsOK,
                                  CallsOK
<1>6. CASE SaveState(s)
  <2>1. ASSUME NEW from, NEW to \in ShimSteps, ShimRead(s, from, to)
        PROVE  TypeOK'
    <3>1. shim' \in [Shims -> ShimSteps]
      BY <2>1, TryType DEF ShimRead
    <3> QED BY <2>1, <3>1 DEF ShimRead, ProcessesOK, FilesOK, KernelOK, EventsOK, CallsOK
  <2>2. ASSUME NEW from, NEW to \in ShimSteps, ShimOpen(s, from, to)
        PROVE  TypeOK'
    <3>1. shim' \in [Shims -> ShimSteps]
      BY <2>2, TryType DEF ShimOpen
    <3>2. FilesOK'
      <4>1. CASE bundle
        BY <2>2, <4>1, OpenType DEF ShimOpen, Procs
      <4>2. CASE ~bundle
        BY <2>2, <4>2 DEF ShimOpen, FilesOK
      <4> QED BY <4>1, <4>2
    <3> QED BY <2>2, <3>1, <3>2 DEF ShimOpen, ProcessesOK, KernelOK, EventsOK, CallsOK
  <2>3. ASSUME NEW from, NEW to \in ShimSteps, NEW st \in Status,
               NEW p \in Shims \cup {NoPid}, ShimPut(s, from, Doc(st, p), to)
        PROVE  TypeOK'
    <3>1. shim' \in [Shims -> ShimSteps]
      BY <2>3, TryType DEF ShimPut
    <3>2. FilesOK'
      BY <2>3, WriteType DEF ShimPut, Procs
    <3> QED BY <2>3, <3>1, <3>2 DEF ShimPut, ProcessesOK, KernelOK, EventsOK, CallsOK
  <2>4. {"creating", "created", "stopped"} \subseteq Status
    BY DEF Status
  <2> QED BY <1>6, <1>S, <2>1, <2>2, <2>3, <2>4 DEF SaveState
<1>7. CASE CreateCgroup(s)
  <2>1. shim' \in [Shims -> ShimSteps]
    BY <1>7, <1>S, TryType DEF CreateCgroup
  <2> QED BY <1>7, <2>1 DEF CreateCgroup, ProcessesOK, FilesOK, KernelOK, EventsOK, CallsOK
<1>8. CASE Clone(s)
  <2>1. shim' \in [Shims -> ShimSteps]
    BY <1>8, <1>S, TryType DEF Clone
  <2> QED BY <1>8, <2>1 DEF Clone, ProcessesOK, FilesOK, KernelOK, EventsOK, CallsOK
<1>9. CASE CreateVeth(s)
  <2>1. shim' \in [Shims -> ShimSteps]
    BY <1>9, <1>S, TryType DEF CreateVeth
  <2> QED BY <1>9, <2>1 DEF CreateVeth, ProcessesOK, FilesOK, KernelOK, EventsOK, CallsOK
<1>10. CASE MoveVeth(s)
  <2>1. shim' \in [Shims -> ShimSteps]
    BY <1>10, <1>S, TryType DEF MoveVeth
  <2> QED BY <1>10, <2>1 DEF MoveVeth, ProcessesOK, FilesOK, KernelOK, EventsOK, CallsOK
<1>11. CASE ConfigureNet(s)
  <2>1. shim' \in [Shims -> ShimSteps]
    BY <1>11, <1>S, TryType DEF ConfigureNet
  <2> QED BY <1>11, <2>1 DEF ConfigureNet, ProcessesOK, FilesOK, KernelOK, EventsOK, CallsOK
<1>12. CASE SetLimits(s)
  <2>1. shim' \in [Shims -> ShimSteps]
    BY <1>12, <1>S, TryType DEF SetLimits
  <2> QED BY <1>12, <2>1 DEF SetLimits, ProcessesOK, FilesOK, KernelOK, EventsOK, CallsOK
<1>13. CASE BindSocket(s)
  <2>1. shim' \in [Shims -> ShimSteps]
    BY <1>13, <1>S, TryType DEF BindSocket
  <2> QED BY <1>13, <2>1 DEF BindSocket, ProcessesOK, FilesOK, KernelOK, EventsOK, CallsOK
<1>14. CASE Accept(s)
  <2>1. shim' \in [Shims -> ShimSteps]
    BY <1>14, <1>S, TryType DEF Accept
  <2> QED BY <1>14, <2>1 DEF Accept, ProcessesOK, FilesOK, KernelOK, EventsOK, CallsOK
<1>15. CASE UnfreezeChild(s)
  <2>1. shim' \in [Shims -> ShimSteps]
    BY <1>15, <1>S, TryType DEF UnfreezeChild
  <2> QED BY <1>15, <2>1 DEF UnfreezeChild, ProcessesOK, FilesOK, KernelOK, EventsOK, CallsOK
<1>16. CASE WaitPid(s)
  <2>1. shim' \in [Shims -> ShimSteps]
    BY <1>16, <1>S, TryType DEF WaitPid
  <2> QED BY <1>16, <2>1 DEF WaitPid, ProcessesOK, FilesOK, KernelOK, EventsOK, CallsOK
<1>17. CASE WriteLog(s)
  <2>1. shim' \in [Shims -> ShimSteps]
    BY <1>17, <1>S, TryType DEF WriteLog
  <2> QED BY <1>17, <2>1 DEF WriteLog, ProcessesOK, FilesOK, KernelOK, EventsOK, CallsOK
<1>18. CASE ReportFailure(s)
  <2>1. Event(s, "stopped", -1) \in EventType
    BY DEF Event, EventType, Status
  <2> QED BY <1>18, <1>S, <2>1 DEF ReportFailure, ProcessesOK, FilesOK, KernelOK, EventsOK, CallsOK
<1>19. QED
  BY ShimStep(s), <1>1, <1>2, <1>3, <1>4, <1>5, <1>6, <1>7, <1>8, <1>9, <1>10, <1>11, <1>12,
     <1>13, <1>14, <1>15, <1>16, <1>17, <1>18 DEF ShimStep

\* So does a step of a child, of the kernel or of init, and a failure or a
\* crash of the shim.
LEMMA TypeChild ==
    ASSUME TypeOK, NEW s \in Shims,
           \/ StepFails(s) \/ PanicAtCut(s) \/ ShimCrash(s) \/ ChildSetup(s) \/ ChildExec(s)
           \/ ChildExit(s) \/ KillTakes(s) \/ VethGone(s) \/ InitReaps(s) \/ Spawn(s)
    PROVE  TypeOK'
<1>S. {"fail", "dead", "panicked", "exists"} \subseteq ShimSteps
  BY DEF ShimSteps, ShimOver, ShimGone
<1> USE DEF TypeOK, childVars, fsVars, cgVars, evVars
<1>1. CASE StepFails(s)
  BY <1>1, <1>S DEF StepFails, ProcessesOK, FilesOK, KernelOK, EventsOK, CallsOK
<1>2. CASE ShimCrash(s)
  BY <1>2, <1>S DEF ShimCrash, ProcessesOK, FilesOK, KernelOK, EventsOK, CallsOK
<1>3. CASE ChildSetup(s)
  BY <1>3 DEF ChildSetup, ChildEnds, ProcessesOK, FilesOK, KernelOK, EventsOK, CallsOK
<1>4. CASE ChildExec(s)
  BY <1>4 DEF ChildExec, ChildEnds, ProcessesOK, FilesOK, KernelOK, EventsOK, CallsOK
<1>5. CASE ChildExit(s)
  BY <1>5 DEF ChildExit, ChildEnds, ProcessesOK, FilesOK, KernelOK, EventsOK, CallsOK
<1>6. CASE VethGone(s)
  BY <1>6 DEF VethGone, NoVeth, ProcessesOK, FilesOK, KernelOK, EventsOK, CallsOK
<1>7. CASE InitReaps(s)
  BY <1>7 DEF InitReaps, ProcessesOK, FilesOK, KernelOK, EventsOK, CallsOK
<1>8. CASE Spawn(s)
  BY <1>8, <1>S DEF Spawn, ProcessesOK, FilesOK, KernelOK, EventsOK, CallsOK
<1>9. CASE PanicAtCut(s)
  BY <1>9, <1>S DEF PanicAtCut, ProcessesOK, FilesOK, KernelOK, EventsOK, CallsOK
<1>10. CASE KillTakes(s)
  BY <1>10 DEF KillTakes, ChildEnds, ProcessesOK, FilesOK, KernelOK, EventsOK, CallsOK
<1>11. QED
  BY <1>1, <1>2, <1>3, <1>4, <1>5, <1>6, <1>7, <1>8, <1>9, <1>10

\* A step of a call keeps the types of the calls ...
LEMMA ProceedType ==
    ASSUME CallsOK, NEW c \in Callers, NEW from \in UpdateSteps, NEW ok \in BOOLEAN,
           NEW to \in UpdateSteps \cup {"ok"}, Proceed(c, from, ok, to)
    PROVE  CallsOK'
BY DEF CallsOK, CallType, Proceed, UpdateSteps, CallSteps

\* ... also when the call only cleans up ...
LEMMA CleanupType ==
    ASSUME CallsOK, NEW c \in Callers, NEW from, NEW ok \in BOOLEAN,
           NEW to \in {"rmbundle", "ok"}, Proceed(c, from, ok, to)
    PROVE  CallsOK'
BY DEF CallsOK, CallType, Proceed, UpdateSteps, CallSteps

\* ... and of what it changes.
LEMMA TypeCall ==
    ASSUME TypeOK, NEW c \in Callers,
           CallStep(c) \/ Return(c) \/ \E op \in Ops : Begin(c, op)
    PROVE  TypeOK'
<1>U. {"connect", "signal", "freeze", "reread", "open", "put"} = UpdateSteps
  BY DEF UpdateSteps
<1> USE DEF TypeOK, childVars, fsVars, cgVars, evVars
<1>1. CASE CallRead(c)
  <2>1. CallsOK'
    BY <1>1 DEF CallRead, CallsOK, CallType, CallSteps, UpdateSteps, Permitted,
                Needs, Effect, Result, FilesOK, FileType
  <2> QED BY <1>1, <2>1 DEF CallRead, ProcessesOK, FilesOK, KernelOK, EventsOK
<1>2. CASE StartConnect(c)
  <2>1. CallsOK'
    BY <1>2, <1>U, ProceedType DEF StartConnect
  <2>2. conns' \in [Shims -> Nat]
    BY <1>2 DEF StartConnect, ProcessesOK, FilesOK
  <2> QED BY <1>2, <2>1, <2>2 DEF StartConnect, ProcessesOK, FilesOK, KernelOK, EventsOK
<1>3. CASE KillSignal(c)
  <2>1. CallsOK'
    BY <1>3, <1>U, ProceedType DEF KillSignal
  <2>2. ProcessesOK'
    BY <1>3 DEF KillSignal, ProcessesOK
  <2> QED BY <1>3, <2>1, <2>2 DEF KillSignal, FilesOK, KernelOK, EventsOK
<1>4. CASE CgroupFreeze(c)
  <2>1. CallsOK'
    BY <1>4, <1>U, ProceedType DEF CgroupFreeze
  <2>2. KernelOK'
    BY <1>4 DEF CgroupFreeze, KernelOK
  <2> QED BY <1>4, <2>1, <2>2 DEF CgroupFreeze, ProcessesOK, FilesOK, EventsOK
<1>5. CASE CallReread(c)
  <2>1. CallsOK'
    BY <1>5 DEF CallReread, CallsOK, CallType, CallSteps, UpdateSteps, FilesOK, FileType
  <2> QED BY <1>5, <2>1 DEF CallReread, ProcessesOK, FilesOK, KernelOK, EventsOK
<1>6. CASE CallOpen(c)
  <2>1. CallsOK'
    BY <1>6, <1>U, ProceedType DEF CallOpen, FilesOK
  <2>2. FilesOK'
    <3>1. CASE bundle
      BY <1>6, <3>1, OpenType DEF CallOpen, Procs
    <3>2. CASE ~bundle
      BY <1>6, <3>2 DEF CallOpen, FilesOK
    <3> QED BY <3>1, <3>2
  <2> QED BY <1>6, <2>1, <2>2 DEF CallOpen, ProcessesOK, KernelOK, EventsOK
<1>7. CASE CallPut(c)
  <2>1. CallsOK'
    BY <1>7, <1>U, ProceedType DEF CallPut
  <2>2. FilesOK'
    <3> DEFINE q == IF call[c].op = "kill" THEN NoPid ELSE call[c].pid
    <3>1. Result[call[c].op] \in Status
      BY <1>7 DEF CallPut, Proceed, CallsOK, UpdateSteps, Result, Status
    <3>2. q \in Shims \cup {NoPid}
      BY DEF CallsOK, CallType
    <3>3. WriteData(c, Doc(Result[call[c].op], q)) /\ UNCHANGED <<bundle, sock>>
      BY <1>7 DEF CallPut
    <3> HIDE DEF q
    <3> QED BY <3>1, <3>2, <3>3, WriteType DEF Procs
  <2> QED BY <1>7, <2>1, <2>2 DEF CallPut, ProcessesOK, KernelOK, EventsOK
<1>8. CASE RemoveCgroup(c)
  <2>1. CallsOK'
    BY <1>8, CleanupType DEF RemoveCgroup
  <2>2. KernelOK'
    BY <1>8 DEF RemoveCgroup, KernelOK
  <2> QED BY <1>8, <2>1, <2>2 DEF RemoveCgroup, ProcessesOK, FilesOK, EventsOK
<1>9. CASE RemoveBundle(c)
  <2>1. CallsOK'
    BY <1>9, CleanupType DEF RemoveBundle, FilesOK
  <2>2. FilesOK'
    BY <1>9 DEF RemoveBundle, FilesOK, FileType, Absent
  <2> QED BY <1>9, <2>1, <2>2 DEF RemoveBundle, ProcessesOK, KernelOK, EventsOK
<1>10. CASE Return(c)
  <2>1. CallsOK'
    BY <1>10 DEF Return, CallsOK, CallType, CallSteps, UpdateSteps, Idle
  <2> QED BY <1>10, <2>1 DEF Return, ProcessesOK, FilesOK, KernelOK, EventsOK
<1>11. CASE \E op \in Ops : Begin(c, op)
  <2>1. CallsOK'
    BY <1>11, OpsAssumption
       DEF Begin, AllOps, CallsOK, CallType, CallSteps, UpdateSteps, Needs
  <2> QED BY <1>11, <2>1 DEF Begin, ProcessesOK, FilesOK, KernelOK, EventsOK
<1>12. QED
  BY <1>1, <1>2, <1>3, <1>4, <1>5, <1>6, <1>7, <1>8, <1>9, <1>10, <1>11 DEF CallStep

\* Every step of the system keeps the types: the inductive step of TypeCorrect.
LEMMA TypeNext == TypeOK /\ [Next]_vars => TypeOK'
<1> SUFFICES ASSUME TypeOK, [Next]_vars PROVE TypeOK'
  OBVIOUS
<1>1. CASE ProcessStep
  BY <1>1, TypeShim, TypeChild, TypeCall DEF ProcessStep
<1>2. ASSUME NEW s \in Shims, Spawn(s) PROVE TypeOK'
  BY <1>2, TypeChild
<1>3. ASSUME NEW c \in Callers, Return(c) \/ \E op \in Ops : Begin(c, op)
      PROVE  TypeOK'
  BY <1>3, TypeCall
<1>4. CASE DaemonStops
  BY <1>4 DEF DaemonStops, TypeOK, childVars, fsVars, cgVars,
              ProcessesOK, FilesOK, KernelOK, EventsOK, CallsOK
<1>5. CASE DaemonListens
  BY <1>5 DEF DaemonListens, TypeOK, childVars, fsVars, cgVars,
              ProcessesOK, FilesOK, KernelOK, EventsOK, CallsOK
<1>6. CASE UNCHANGED vars
  BY <1>6 DEF vars, TypeOK, childVars, fsVars, cgVars, evVars,
              ProcessesOK, FilesOK, KernelOK, EventsOK, CallsOK
<1>7. QED
  BY <1>1, <1>2, <1>3, <1>4, <1>5, <1>6 DEF Next

\* Every variable keeps its type, and a call under way is one that may be.
THEOREM TypeCorrect == Spec => []TypeOK
BY TypeInit, TypeNext, PTL DEF Spec

-----------------------------------------------------------------------------
(* The sandbox.                                                            *)

\* Nothing has been cloned or published in the initial state.
LEMMA SandboxInit == Init => SandboxInv
BY NoPidAssumption DEF Init, SandboxInv, SupervisorInv, PublishedPid, Alive, Running,
   InSandbox, Configured, NoVeth, Absent, Idle, BeforeClone, ShimSteps, ListeningSteps, ShimOver,
   ShimGone, AfterLimits, BeforeVeth, BeforeClone

\* A step of create() by shim s keeps what is known of every supervisor t.
LEMMA SupervisorShim ==
    ASSUME TypeOK, SandboxInv, NEW s \in Shims, ShimStep(s), NEW t \in Shims
    PROVE  SupervisorInv(t)'
<1> USE DEF TypeOK, ProcessesOK, KernelOK, SandboxInv, childVars, cgVars, Try,
            SupervisorInv, Alive, Running, InSandbox, ShimSteps, ListeningSteps, ShimOver,
            ShimGone, AfterLimits, BeforeVeth, BeforeClone
<1>1. CASE CheckExists(s)
  BY <1>1 DEF CheckExists
<1>2. CASE MakeBundle(s)
  BY <1>2 DEF MakeBundle
<1>3. CASE SayCreating(s)
  BY <1>3 DEF SayCreating, SendEvent
<1>4. CASE SayCreated(s)
  BY <1>4 DEF SayCreated, SendEvent
<1>5. CASE SayStopped(s)
  BY <1>5 DEF SayStopped, SendEvent
<1>6. CASE SaveState(s)
  BY <1>6 DEF SaveState, ShimRead, ShimOpen, ShimPut
<1>7. CASE CreateCgroup(s)
  BY <1>7 DEF CreateCgroup
<1>8. CASE Clone(s)
  BY <1>8 DEF Clone, CanClone
<1>9. CASE CreateVeth(s)
  <2>1. CASE Alive(s) /\ VethFree
    <3>1. \A u \in Shims : veth.owner # u
      BY <2>1, NoPidAssumption DEF VethFree, NoVeth
    <3>2. CASE t = s
      BY <1>9, <2>1, <3>1, <3>2 DEF CreateVeth
    <3>3. CASE t # s
      BY <1>9, <2>1, <3>1, <3>3 DEF CreateVeth
    <3> QED BY <3>2, <3>3
  <2>2. CASE ~(Alive(s) /\ VethFree)
    BY <1>9, <2>2 DEF CreateVeth
  <2> QED BY <2>1, <2>2
<1>10. CASE MoveVeth(s)
  <2>1. veth = [owner |-> s, moved |-> FALSE] /\ veth' = [owner |-> s, moved |-> TRUE]
    BY <1>10 DEF MoveVeth
  <2>2. CASE t = s
    BY <1>10, <2>1, <2>2 DEF MoveVeth
  <2>3. CASE t # s
    BY <1>10, <2>1, <2>3 DEF MoveVeth
  <2> QED BY <2>2, <2>3
<1>11. CASE ConfigureNet(s)
  BY <1>11 DEF ConfigureNet
<1>12. CASE SetLimits(s)
  BY <1>12 DEF SetLimits
<1>13. CASE BindSocket(s)
  BY <1>13 DEF BindSocket
<1>14. CASE Accept(s)
  BY <1>14 DEF Accept, HasConnection
<1>15. CASE UnfreezeChild(s)
  BY <1>15 DEF UnfreezeChild
<1>16. CASE WaitPid(s)
  BY <1>16 DEF WaitPid
<1>17. CASE WriteLog(s)
  BY <1>17 DEF WriteLog
<1>18. CASE ReportFailure(s)
  BY <1>18 DEF ReportFailure
<1>19. QED
  BY <1>1, <1>2, <1>3, <1>4, <1>5, <1>6, <1>7, <1>8, <1>9, <1>10, <1>11, <1>12, <1>13, <1>14,
     <1>15, <1>16, <1>17, <1>18 DEF ShimStep

\* So does a step of the child of s, of the kernel, or a failure of the shim.
LEMMA SupervisorChild ==
    ASSUME TypeOK, SandboxInv, NEW s \in Shims, NEW t \in Shims,
           \/ StepFails(s) \/ PanicAtCut(s) \/ ShimCrash(s) \/ ChildSetup(s) \/ ChildExec(s)
           \/ ChildExit(s) \/ KillTakes(s) \/ VethGone(s) \/ InitReaps(s) \/ Spawn(s)
    PROVE  SupervisorInv(t)'
<1> USE DEF TypeOK, ProcessesOK, KernelOK, SandboxInv, childVars, cgVars,
            SupervisorInv, Alive, Running, InSandbox, ShimSteps, ListeningSteps, ShimOver,
            ShimGone, AfterLimits, BeforeVeth, BeforeClone
<1>1. CASE StepFails(s)
  BY <1>1 DEF StepFails, FallibleSteps
<1>2. CASE ShimCrash(s)
  BY <1>2 DEF ShimCrash
<1>3. CASE ChildSetup(s)
  BY ZenonT(60), <1>3 DEF ChildSetup, ChildEnds
<1>4. CASE ChildExec(s)
  BY <1>4 DEF ChildExec, CanRead, ChildEnds
<1>5. CASE ChildExit(s)
  BY <1>5 DEF ChildExit, ChildEnds
<1>6. CASE VethGone(s)
  BY <1>6 DEF VethGone
<1>7. CASE InitReaps(s)
  BY <1>7 DEF InitReaps
<1>8. CASE Spawn(s)
  BY <1>8 DEF Spawn
<1>9. CASE PanicAtCut(s)
  BY <1>9 DEF PanicAtCut
<1>10. CASE KillTakes(s)
  BY <1>10 DEF KillTakes, ChildEnds
<1>11. QED
  BY <1>1, <1>2, <1>3, <1>4, <1>5, <1>6, <1>7, <1>8, <1>9, <1>10

\* So does a call: it adds connections, signals a child, or removes a cgroup in
\* which nothing lives.
LEMMA SupervisorCall ==
    ASSUME TypeOK, SandboxInv, NEW c \in Callers, NEW t \in Shims,
           CallStep(c) \/ Return(c) \/ \E op \in Ops : Begin(c, op)
    PROVE  SupervisorInv(t)'
<1> USE DEF TypeOK, ProcessesOK, KernelOK, FilesOK, SandboxInv, childVars, cgVars,
            SupervisorInv, Alive, Running, InSandbox
<1>1. CASE \/ CallRead(c) \/ CallReread(c) \/ CallOpen(c) \/ CallPut(c)
           \/ RemoveBundle(c) \/ Return(c) \/ \E op \in Ops : Begin(c, op)
  BY <1>1 DEF CallRead, CallReread, CallOpen, CallPut, RemoveBundle, Return, Begin
<1>2. CASE StartConnect(c)
  BY <1>2 DEF StartConnect
<1>3. CASE KillSignal(c)
  BY <1>3 DEF KillSignal
<1>4. CASE CgroupFreeze(c)
  BY <1>4 DEF CgroupFreeze
<1>5. CASE RemoveCgroup(c)
  BY <1>5 DEF RemoveCgroup, CanRemoveCgroup, NoLiveChild
<1>6. QED
  BY <1>1, <1>2, <1>3, <1>4, <1>5 DEF CallStep

\* Once a child is fully configured it stays so, until it ends.
LEMMA ConfiguredStable ==
    ASSUME TypeOK, SandboxInv, Next, NEW t \in Shims, Configured(t)
    PROVE  Configured(t)'
<1> USE DEF TypeOK, ProcessesOK, KernelOK, SandboxInv, SupervisorInv, childVars,
            cgVars, Alive, InSandbox, Configured
<1>1. ASSUME NEW s \in Shims, ShimStep(s) PROVE Configured(t)'
  <2>1. CASE \/ CheckExists(s) \/ MakeBundle(s) \/ SayCreating(s) \/ SaveState(s)
             \/ CreateCgroup(s) \/ ConfigureNet(s) \/ SetLimits(s) \/ SayCreated(s)
             \/ BindSocket(s) \/ Accept(s) \/ UnfreezeChild(s) \/ SayStopped(s)
             \/ WriteLog(s) \/ ReportFailure(s)
    BY <2>1 DEF CheckExists, MakeBundle, SayCreating, SaveState, CreateCgroup,
                ConfigureNet, SetLimits, SayCreated, BindSocket, Accept, UnfreezeChild,
                SayStopped, WriteLog, ReportFailure, SendEvent, ShimRead, ShimOpen, ShimPut
  <2>2. CASE Clone(s)
    BY <2>2 DEF Clone, Try, BeforeClone
  <2>3. CASE CreateVeth(s)
    <3>1. Alive(t) => veth.owner # NoPid
      BY NoPidAssumption
    <3>2. Alive(t) => ~VethFree
      BY <3>1 DEF VethFree, NoVeth
    <3> QED BY <2>3, <3>2 DEF CreateVeth
  <2>4. CASE MoveVeth(s)
    BY <2>4 DEF MoveVeth, Try
  <2>5. CASE WaitPid(s)
    BY <2>5 DEF WaitPid
  <2> QED BY <1>1, <2>1, <2>2, <2>3, <2>4, <2>5 DEF ShimStep
<1>2. ASSUME NEW s \in Shims,
             \/ StepFails(s) \/ PanicAtCut(s) \/ ShimCrash(s) \/ ChildSetup(s) \/ ChildExec(s)
             \/ ChildExit(s) \/ KillTakes(s) \/ VethGone(s) \/ InitReaps(s) \/ Spawn(s)
      PROVE  Configured(t)'
  <2>1. CASE StepFails(s) \/ PanicAtCut(s) \/ ShimCrash(s) \/ Spawn(s)
    BY <2>1 DEF StepFails, PanicAtCut, ShimCrash, Spawn
  <2>2. CASE ChildSetup(s) \/ ChildExec(s) \/ ChildExit(s) \/ KillTakes(s) \/ InitReaps(s)
    BY ZenonT(60), <2>2 DEF ChildSetup, ChildExec, ChildExit, KillTakes, ChildEnds, InitReaps
  <2>3. CASE VethGone(s)
    <3>1. Alive(t) => veth.owner = t /\ veth.owner = s
      BY <2>3 DEF VethGone
    <3>2. Alive(t) => FALSE
      BY <2>3, <3>1 DEF VethGone
    <3> QED BY <2>3, <3>2 DEF VethGone
  <2> QED BY <1>2, <2>1, <2>2, <2>3
<1>3. ASSUME NEW c \in Callers,
             CallStep(c) \/ Return(c) \/ \E op \in Ops : Begin(c, op)
      PROVE  Configured(t)'
  <2>1. CASE \/ CallRead(c) \/ CallReread(c) \/ CallOpen(c) \/ CallPut(c)
             \/ RemoveBundle(c) \/ Return(c) \/ StartConnect(c) \/ CgroupFreeze(c)
             \/ \E op \in Ops : Begin(c, op)
    BY <2>1 DEF CallRead, CallReread, CallOpen, CallPut, RemoveBundle, Return, Begin,
                StartConnect, CgroupFreeze
  <2>2. CASE KillSignal(c)
    BY <2>2 DEF KillSignal
  <2>3. CASE RemoveCgroup(c)
    BY <2>3 DEF RemoveCgroup, CanRemoveCgroup, NoLiveChild
  <2> QED BY <1>3, <2>1, <2>2, <2>3 DEF CallStep
<1>4. CASE DaemonStops \/ DaemonListens
  BY <1>4 DEF DaemonStops, DaemonListens
<1>5. QED
  BY <1>1, <1>2, <1>3, <1>4 DEF Next, ProcessStep

Known(p) == file.pid = p \/ \E c \in Callers : call[c].pid = p

\* A pid gets into state.json, or into a call, from create() when the child is
\* configured, or from a place where it was already.
LEMMA KnownPid ==
    ASSUME TypeOK, SandboxInv, Next, NEW t \in Shims, Known(t)'
    PROVE  Configured(t)
<1>K. Known(t) => Configured(t)
  BY DEF SandboxInv, PublishedPid, Known
<1> SUFFICES ASSUME ~Known(t) PROVE Configured(t)
  BY <1>K
<1>N. t # NoPid
  BY NoPidAssumption
<1> USE DEF TypeOK, FilesOK, FileType, CallsOK, CallType, fsVars, Known
<1>W. ASSUME NEW q \in Procs, NEW st \in Status, NEW d, WriteData(q, Doc(st, d)), d # t
      PROVE  file'.pid # t
  BY <1>W, <1>N DEF WriteData, Doc, Garbled
<1>1. ASSUME NEW s \in Shims, ShimStep(s) PROVE Configured(t)
  <2>1. CASE ShimPut(s, "putCreated", Doc("created", s), "bind")
    <3>1. call' = call
      BY <2>1 DEF ShimPut
    <3>2. CASE s = t
      BY <2>1, <3>2 DEF ShimPut, Try, SandboxInv, SupervisorInv, Configured,
                        ShimSteps, ListeningSteps, ShimOver, ShimGone, AfterLimits, BeforeVeth,
                        BeforeClone
    <3>3. CASE s # t
      BY <2>1, <3>1, <3>3, <1>W DEF ShimPut, Status, Procs
    <3> QED BY <3>2, <3>3
  <2>2. CASE \/ ShimPut(s, "putCreating", Doc("creating", NoPid), "cgroup")
             \/ ShimPut(s, "putStopped", Doc("stopped", NoPid), "log")
    BY <2>2, <1>W, <1>N DEF ShimPut, Status, Procs
  <2>3. CASE \/ ShimOpen(s, "openCreating", "putCreating")
             \/ ShimOpen(s, "openCreated", "putCreated")
             \/ ShimOpen(s, "openStopped", "putStopped")
    BY <2>3, <1>N DEF ShimOpen, OpenTruncate, Empty
  <2>4. CASE \/ ShimRead(s, "readCreated", "openCreated")
             \/ ShimRead(s, "readStopped", "openStopped")
    BY <2>4 DEF ShimRead
  <2>5. CASE ~SaveState(s)
    BY <1>1, <2>5
       DEF ShimStep, CheckExists, MakeBundle, SayCreating, CreateCgroup, Clone,
           CreateVeth, MoveVeth, ConfigureNet, SetLimits, SayCreated, BindSocket, Accept,
           UnfreezeChild, WaitPid, SayStopped, WriteLog, ReportFailure, SendEvent
  <2> QED BY <1>1, <2>1, <2>2, <2>3, <2>4, <2>5 DEF SaveState
<1>2. ASSUME NEW s \in Shims,
             \/ StepFails(s) \/ PanicAtCut(s) \/ ShimCrash(s) \/ ChildSetup(s) \/ ChildExec(s)
             \/ ChildExit(s) \/ KillTakes(s) \/ VethGone(s) \/ InitReaps(s) \/ Spawn(s)
      PROVE  Configured(t)
  BY <1>2 DEF StepFails, PanicAtCut, ShimCrash, ChildSetup, ChildExec, ChildExit, KillTakes,
              ChildEnds, VethGone,
              InitReaps, Spawn
<1>3. ASSUME NEW c \in Callers,
             CallStep(c) \/ Return(c) \/ \E op \in Ops : Begin(c, op)
      PROVE  Configured(t)
  <2>1. CASE CallRead(c)
    BY <2>1, <1>N DEF CallRead
  <2>2. CASE CallReread(c)
    BY <2>2, <1>N DEF CallReread
  <2>3. CASE \E op \in Ops : Begin(c, op)
    BY <2>3, <1>N DEF Begin
  <2>4. CASE Return(c)
    BY <2>4, <1>N DEF Return, Idle
  <2>P. ASSUME NEW from, NEW ok, NEW to, Proceed(c, from, ok, to)
        PROVE  \A e \in Callers : call'[e].pid = call[e].pid
    BY <2>P DEF Proceed
  <2>5. CASE StartConnect(c) \/ KillSignal(c) \/ CgroupFreeze(c) \/ RemoveCgroup(c)
    BY <2>5, <2>P DEF StartConnect, KillSignal, CgroupFreeze, RemoveCgroup
  <2>6. CASE CallOpen(c)
    BY <2>6, <2>P, <1>N DEF CallOpen, OpenTruncate, Empty
  <2>7. CASE RemoveBundle(c)
    BY <2>7, <2>P, <1>N DEF RemoveBundle, Absent
  <2>8. CASE CallPut(c)
    <3> DEFINE d == IF call[c].op = "kill" THEN NoPid ELSE call[c].pid
    <3>1. d # t
      BY <1>N
    <3>2. WriteData(c, Doc(Result[call[c].op], d))
      BY <2>8 DEF CallPut
    <3>3. Result[call[c].op] \in Status
      BY <2>8 DEF CallPut, Proceed, UpdateSteps, Result, Status
    <3> HIDE DEF d
    <3>4. file'.pid # t
      BY <3>1, <3>2, <3>3, <1>W DEF Procs
    <3> QED BY <2>8, <2>P, <3>4 DEF CallPut
  <2> QED BY <1>3, <2>1, <2>2, <2>3, <2>4, <2>5, <2>6, <2>7, <2>8 DEF CallStep
<1>4. CASE DaemonStops \/ DaemonListens
  BY <1>4 DEF DaemonStops, DaemonListens
<1>5. QED
  BY <1>1, <1>2, <1>3, <1>4 DEF Next, ProcessStep

\* The inductive step: what each supervisor has built, and which pids are
\* public, survives every step of every actor.
LEMMA SandboxNext == TypeOK /\ SandboxInv /\ [Next]_vars => SandboxInv'
<1> SUFFICES ASSUME TypeOK, SandboxInv, [Next]_vars PROVE SandboxInv'
  OBVIOUS
<1>1. CASE UNCHANGED vars
  BY <1>1 DEF vars, childVars, fsVars, cgVars, SandboxInv, SupervisorInv, PublishedPid,
              Configured, InSandbox, Alive, Running
<1>2. CASE Next
  <2>1. ASSUME NEW t \in Shims PROVE SupervisorInv(t)'
    <3>1. CASE DaemonStops \/ DaemonListens
      BY <3>1 DEF DaemonStops, DaemonListens, childVars, cgVars, SandboxInv,
                  SupervisorInv, InSandbox, Alive, Running
    <3> QED BY <1>2, <3>1, SupervisorShim, SupervisorChild, SupervisorCall
            DEF Next, ProcessStep
  <2>2. (cgroup = "none" => cgfds = {})'
    <3> USE DEF SandboxInv, TypeOK, KernelOK, cgVars
    <3>1. ASSUME NEW s \in Shims, ShimStep(s) PROVE (cgroup = "none" => cgfds = {})'
      <4>1. CASE CreateCgroup(s)
        BY <4>1 DEF CreateCgroup
      <4>2. CASE SetLimits(s)
        BY <4>2 DEF SetLimits
      <4>3. CASE ~CreateCgroup(s) /\ ~SetLimits(s)
        BY <3>1, <4>3
           DEF ShimStep, CheckExists, MakeBundle, SayCreating, Clone, SaveState, ShimRead,
               ShimOpen, ShimPut, CreateVeth, MoveVeth, ConfigureNet, SayCreated,
               BindSocket, Accept, UnfreezeChild, WaitPid, SayStopped, WriteLog,
               ReportFailure, SendEvent
      <4> QED BY <4>1, <4>2, <4>3
    <3>2. ASSUME NEW s \in Shims,
                 \/ StepFails(s) \/ PanicAtCut(s) \/ ShimCrash(s) \/ ChildSetup(s) \/ ChildExec(s)
                 \/ ChildExit(s) \/ KillTakes(s) \/ VethGone(s) \/ InitReaps(s) \/ Spawn(s)
          PROVE  (cgroup = "none" => cgfds = {})'
      BY <3>2 DEF StepFails, PanicAtCut, ShimCrash, ChildSetup, ChildExec, ChildExit, KillTakes,
                  ChildEnds, VethGone,
                  InitReaps, Spawn
    <3>3. ASSUME NEW c \in Callers,
                 CallStep(c) \/ Return(c) \/ \E op \in Ops : Begin(c, op)
          PROVE  (cgroup = "none" => cgfds = {})'
      BY <3>3 DEF CallStep, CallRead, StartConnect, KillSignal, CgroupFreeze, CallReread,
                  CallOpen, CallPut, RemoveCgroup, RemoveBundle, Return, Begin
    <3>4. CASE DaemonStops \/ DaemonListens
      BY <3>4 DEF DaemonStops, DaemonListens
    <3> QED BY <1>2, <3>1, <3>2, <3>3, <3>4 DEF Next, ProcessStep
  <2>3. PublishedPid'
    <3> SUFFICES ASSUME NEW t \in Shims, Known(t)' PROVE Configured(t)'
      BY DEF PublishedPid, Known
    <3> QED BY <1>2, KnownPid, ConfiguredStable
  <2> QED BY <2>1, <2>2, <2>3 DEF SandboxInv
<1> QED BY <1>1, <1>2

\* At each step of create() the cgroup, the limits and the veth pair that the
\* code has built so far are still in place, as long as the child lives.
THEOREM SandboxInvariant == Spec => []SandboxInv
<1>1. Init => SandboxInv
  BY SandboxInit
<1>2. TypeOK /\ SandboxInv /\ [Next]_vars => SandboxInv'
  BY SandboxNext
<1>3. QED
  BY <1>1, <1>2, TypeCorrect, PTL DEF Spec

\* No program ever runs before a start reached its supervisor, without its
\* limits or without its own network: for any number of concurrent creates,
\* calls, failures and crashes.
THEOREM SandboxedAlways == Spec => []Sandboxed
<1>1. SandboxInv => Sandboxed
  BY DEF SandboxInv, SupervisorInv, Sandboxed, Running, Alive
<1>2. QED
  BY <1>1, SandboxInvariant, PTL

\* Two running programs would both own the one veth pair.
LEMMA OwnerIsAlone == SandboxInv => AtMostOneRunning
<1> SUFFICES ASSUME SandboxInv, NEW s \in Shims, NEW t \in Shims, Running(s), Running(t)
             PROVE  s = t
  BY DEF AtMostOneRunning
<1>1. InSandbox(s) /\ InSandbox(t)
  BY DEF SandboxInv, SupervisorInv, Running, Alive
<1>2. veth.owner = s /\ veth.owner = t
  BY <1>1 DEF InSandbox
<1> QED BY <1>2

\* The kernel's refusal of a second veth pair of the same name is enough to
\* make up for the unlocked exists check of create().
THEOREM OneRunning == Spec => []AtMostOneRunning
BY OwnerIsAlone, SandboxInvariant, PTL

\* state.json never names a child that is not fully configured.
THEOREM PidsPublishedLate == Spec => []PublishedPid
<1>1. SandboxInv => PublishedPid
  BY DEF SandboxInv
<1>2. QED
  BY <1>1, SandboxInvariant, PTL
=============================================================================
