-------------------------- MODULE CloneboxdProofs --------------------------
(* Proofs about Cloneboxd, for any number of shims, callers, create and    *)
(* wait RPCs, with crashes and shutdowns of the daemon.                    *)
EXTENDS Cloneboxd, StatusProofs, LifecycleProofs

-----------------------------------------------------------------------------
(* The containers under the daemon.                                        *)

\* What the daemon does to the state of Container is a step of Container, or
\* it handles an event, ends or starts to listen.
LEMMA DaemonStep ==
    ASSUME [DNext]_allVars
    PROVE  \/ [Next]_vars
           \/ \E e \in events : HandleEvent(e)
           \/ ProcessEnds
           \/ Serve
<1>1. CASE UNCHANGED allVars
  BY <1>1 DEF allVars
<1>2. CASE DNext
  <2>1. ASSUME NEW k \in Creators, CreateInsert(k) \/ CreateSpawn(k)
        PROVE  [Next]_vars
    BY <2>1 DEF CreateInsert, CreateSpawn, Next
  <2>2. ASSUME NEW c \in Callers, RpcReturn(c) \/ \E op \in Ops : RpcBegin(c, op)
        PROVE  [Next]_vars
    BY <2>2 DEF RpcReturn, RpcBegin, Next
  <2>3. CASE ProcessStep /\ UNCHANGED dVars
    BY <2>3 DEF Next
  <2>4. CASE \/ \E w \in Waiters : WaitRegister(w)
             \/ \E k \in Clients : Reply(k)
             \/ Shutdown \/ Recover
    BY <2>4 DEF WaitRegister, Reply, Shutdown, Recover
  <2>5. CASE DaemonCrash \/ ShutdownDone
    BY <2>5 DEF DaemonCrash, ShutdownDone
  <2> QED BY <1>2, <2>1, <2>2, <2>3, <2>4, <2>5 DEF DNext
<1> QED BY <1>1, <1>2

\* The types, the sandbox, the truth of state.json and its pid survive every
\* step of the daemon.
LEMMA CoreStep ==
    ASSUME TypeOK, SandboxInv, StatusInv, PidInv, [DNext]_allVars
    PROVE  TypeOK' /\ SandboxInv' /\ StatusInv' /\ PidInv'
<1> USE DEF childVars, fsVars, cgVars, evVars
<1>1. CASE [Next]_vars
  BY <1>1, TypeNext, SandboxNext, StatusNext, PidNext
<1>S. ASSUME UNCHANGED <<shim, childVars, conns, bundle, file, sock, cgVars, veth>>,
             fds' \subseteq fds, events' \subseteq events, evOpen' \in BOOLEAN,
             call' = call \/ call' = [c \in Callers |-> Idle]
      PROVE  TypeOK' /\ SandboxInv' /\ StatusInv' /\ PidInv'
  <2>1. CallsOK'
    <3>1. CASE call' = call
      BY <3>1 DEF TypeOK, CallsOK
    <3>2. CASE call' = [c \in Callers |-> Idle]
      BY <3>2 DEF CallsOK, CallType, CallSteps, UpdateSteps, Idle
    <3> QED BY <1>S, <3>1, <3>2
  <2>2. ProcessesOK' /\ KernelOK' /\ FilesOK' /\ EventsOK'
    BY <1>S DEF TypeOK, ProcessesOK, KernelOK, FilesOK, EventsOK
  <2>3. PublishedPid'
    <3> SUFFICES ASSUME NEW s \in Shims,
                        (file.pid = s \/ \E c \in Callers : call[c].pid = s)'
                 PROVE  Configured(s)'
      BY DEF PublishedPid
    <3>1. file.pid = s \/ \E c \in Callers : call[c].pid = s
      BY <1>S, NoPidAssumption DEF Idle
    <3>2. Configured(s)
      BY <3>1 DEF SandboxInv, PublishedPid
    <3> QED BY <1>S, <3>2 DEF Configured, InSandbox, Alive
  <2>4. \A s \in Shims : SupervisorInv(s)'
    BY <1>S DEF SandboxInv, SupervisorInv, InSandbox, Alive, Running
  <2>5. StatusInv'
    <3>1. ASSUME NEW c \in Callers PROVE CallForm(call[c])'
      BY <1>S DEF StatusInv, CallForm, Idle
    <3>2. ASSUME NEW s \in Shims, OneCreate(s)'
          PROVE  /\ OneCreate(s) /\ Ended(s)' = Ended(s) /\ Doomed(s)' = Doomed(s)
                 /\ \A c \in Callers : CallBacked(call[c], s)'
      BY <1>S, <3>2 DEF StatusInv, OneCreate, CallBacked, Doomed, Ended, Idle
    <3> QED BY <1>S, <3>1, <3>2 DEF StatusInv, StatusTruthful
  <2>6. PidInv'
    BY <1>S DEF PidInv, OneCreate, Readable, Doomed, Ended, Idle
  <2> QED BY <1>S, <2>1, <2>2, <2>3, <2>4, <2>5, <2>6 DEF TypeOK, SandboxInv
<1>2. ASSUME NEW e \in events, HandleEvent(e) PROVE TypeOK' /\ SandboxInv' /\ StatusInv' /\ PidInv'
  BY <1>2, <1>S DEF HandleEvent, TypeOK, EventsOK
<1>3. CASE ProcessEnds
  BY <1>3, <1>S DEF ProcessEnds
<1>4. CASE Serve
  BY <1>4, <1>S DEF Serve
<1> QED BY <1>1, <1>2, <1>3, <1>4, DaemonStep

\* Hence they hold in every state the daemon can bring about.
LEMMA CoreAlways == DSpec => [](TypeOK /\ SandboxInv /\ StatusInv /\ PidInv)
<1>1. DInit => TypeOK /\ SandboxInv /\ StatusInv /\ PidInv
  BY TypeInit, SandboxInit, StatusInit, PidInit DEF DInit
<1>2. TypeOK /\ SandboxInv /\ StatusInv /\ PidInv /\ [DNext]_allVars
        => (TypeOK /\ SandboxInv /\ StatusInv /\ PidInv)'
  BY CoreStep
<1>3. QED
  BY <1>1, <1>2, PTL DEF DSpec

\* Under the daemon too, with any number of duplicate creates, RPCs, crashes
\* and restarts, no program runs outside its sandbox.
THEOREM SandboxedByDaemon == DSpec => []Sandboxed
<1>1. SandboxInv => Sandboxed
  BY DEF SandboxInv, SupervisorInv, Sandboxed, Running, Alive
<1>2. QED
  BY <1>1, CoreAlways, PTL

\* Nor does a daemon that dies in the middle of its calls make state.json claim
\* a start that was not delivered, or an end that has not come and that no
\* SIGKILL is about to bring.
THEOREM StatusTruthfulByDaemon == DSpec => []StatusTruthful
<1>1. StatusInv => StatusTruthful
  BY DEF StatusInv
<1>2. QED
  BY <1>1, CoreAlways, PTL

\* With any number of duplicate create RPCs, and with crashes, shutdowns and
\* restarts of the daemon in the middle of its calls, the promise of Lifecycle
\* is kept: a program is let go only after a start, alone, and once.
THEOREM LifecycleByDaemon == DSpec => ImplementsLifecycle
<1>1. DInit => L!Init
  BY DEF DInit, Init, L!Init, PhaseOf
<1>2. TypeOK /\ SandboxInv /\ AtMostOneRunning' /\ [DNext]_allVars
        => [L!Next]_<<phase, started>>
  <2> SUFFICES ASSUME TypeOK, SandboxInv, AtMostOneRunning', [DNext]_allVars
               PROVE  [L!Next]_<<phase, started>>
    OBVIOUS
  <2>1. CASE [Next]_vars
    BY <2>1, RefineNext
  <2>2. CASE UNCHANGED <<child, conns>>
    BY <2>2, Stutter
  <2> QED BY <2>1, <2>2, DaemonStep DEF HandleEvent, ProcessEnds, Serve, childVars
<1>3. QED
  BY <1>1, <1>2, OwnerIsAlone, CoreAlways, PTL
     DEF DSpec, ImplementsLifecycle, L!Spec, phase, started

-----------------------------------------------------------------------------
(* The map and the channels.                                               *)

States == Status \cup {"absent"}
EntryType == [state : States, created : SUBSET Creators, waiters : SUBSET Waiters]
ChanType == [Clients -> {"none", "open", "fired", "dropped"}]

\* Firing or dropping senders leaves every channel in one of its states.
LEMMA SettleType ==
    ASSUME chan \in ChanType, NEW S, NEW how \in {"open", "fired", "dropped"}
    PROVE  Settle(S, how) \in ChanType
BY DEF Settle, ChanType

\* What the map takes from an event, and a wait from its code, is typed.
LEMMA NotifyType ==
    ASSUME TypeOK, DTypeOK, NEW e \in events, Notify(e)
    PROVE  entry' \in EntryType /\ chan' \in ChanType
           /\ exit' \in [Waiters -> ExitCodes \cup {-1, 0, 1}]
<1>1. e \in EventType
  BY DEF TypeOK, EventsOK
<1>2. e.state \in States /\ e.code \in ExitCodes \cup {-1, 0, 1}
  BY <1>1 DEF EventType, States
<1>3. entry' \in EntryType
  BY <1>2 DEF Notify, DTypeOK, EntryType, States
<1>4. chan' \in ChanType
  BY SettleType DEF Notify, DTypeOK, ChanType
<1>5. exit' \in [Waiters -> ExitCodes \cup {-1, 0, 1}]
  BY <1>2 DEF Notify, DTypeOK
<1> QED BY <1>3, <1>4, <1>5

\* The status a recovered entry gets is one that state.json can hold.
LEMMA RecoveredType ==
    ASSUME TypeOK, Readable
    PROVE  RecoveredState \in Status
BY DEF TypeOK, FilesOK, RecoveredState, Readable, Status

\* The inductive step of the types, action by action.
LEMMA DTypeNext ==
    ASSUME TypeOK, DTypeOK, [DNext]_allVars
    PROVE  DTypeOK'
<1>0. /\ entry \in EntryType /\ chan \in ChanType
      /\ DTypeOK' <=> /\ daemon' \in {"down", "recovered", "up", "closing"}
                      /\ entry' \in EntryType
                      /\ rpc' \in [Clients -> {"idle", "spawn", "await", "ok", "err", "lost"}]
                      /\ chan' \in ChanType
                      /\ exit' \in [Waiters -> ExitCodes \cup {-1, 0, 1}]
  BY DEF DTypeOK, EntryType, ChanType, States
<1>C. Creators \subseteq Clients /\ Waiters \subseteq Clients
  BY DEF Clients
<1>N. NoEntry \in EntryType
  BY DEF NoEntry, EntryType, States
<1>1. CASE UNCHANGED dVars
  BY <1>1, <1>0 DEF dVars, DTypeOK
<1>2. ASSUME NEW k \in Creators, CreateInsert(k) PROVE DTypeOK'
  <2>1. entry' \in EntryType
    BY <1>2, <1>0 DEF CreateInsert, EntryType, States, Status
  <2>2. chan' \in ChanType
    BY <1>2, <1>0, SettleType DEF CreateInsert
  <2> QED BY <1>2, <1>0, <1>C, <2>1, <2>2 DEF CreateInsert, DTypeOK
<1>3. ASSUME NEW k \in Creators, CreateSpawn(k) PROVE DTypeOK'
  BY <1>3, <1>0, <1>C DEF CreateSpawn, DTypeOK
<1>4. ASSUME NEW w \in Waiters, WaitRegister(w) PROVE DTypeOK'
  <2>1. entry' \in EntryType
    BY <1>4, <1>0 DEF WaitRegister, EntryType
  <2>2. chan' \in ChanType
    BY <1>4, <1>0, SettleType DEF WaitRegister
  <2> QED BY <1>4, <1>0, <1>C, <2>1, <2>2 DEF WaitRegister, DTypeOK
<1>5. ASSUME NEW k \in Clients, Reply(k) PROVE DTypeOK'
  BY <1>5, <1>0 DEF Reply, DTypeOK
<1>6. ASSUME NEW e \in events, HandleEvent(e) PROVE DTypeOK'
  BY <1>6, <1>0, NotifyType DEF HandleEvent, DTypeOK
<1>7. ASSUME NEW c \in Callers, RpcReturn(c) PROVE DTypeOK'
  <2>1. CASE MapUpdate(call[c].op)
    <3>1. \A op \in DOMAIN Result : Result[op] \in States
      BY DEF Result, States, Status
    <3>2. entry' \in EntryType
      BY <2>1, <3>1, <1>0, <1>N DEF MapUpdate, MapStatus, EntryType
    <3>3. chan' \in ChanType
      BY <2>1, <1>0, SettleType DEF MapUpdate
    <3> QED BY <1>7, <3>2, <3>3, <1>0 DEF RpcReturn, DTypeOK
  <2>2. CASE UNCHANGED <<entry, chan>>
    BY <1>7, <2>2, <1>0 DEF RpcReturn, DTypeOK
  <2> QED BY <1>7, <2>1, <2>2 DEF RpcReturn
<1>8. CASE ProcessEnds
  <2>1. chan' \in ChanType
    BY <1>8, <1>0, SettleType DEF ProcessEnds
  <2> QED BY <1>8, <2>1, <1>0, <1>N DEF ProcessEnds, DTypeOK
<1>9. CASE Shutdown \/ Serve
  BY <1>9, <1>0 DEF Shutdown, Serve, DTypeOK
<1>10. CASE Recover
  <2>1. entry' \in EntryType
    BY <1>10, <1>N, RecoveredType DEF Recover, EntryType, States
  <2> QED BY <1>10, <2>1, <1>0 DEF Recover, DTypeOK
<1>11. CASE UNCHANGED allVars
  BY <1>1, <1>11 DEF allVars
<1> QED BY <1>1, <1>2, <1>3, <1>4, <1>5, <1>6, <1>7, <1>8, <1>9, <1>10, <1>11
        DEF DNext, DaemonCrash, ShutdownDone, RpcBegin

\* The map, the RPCs and the channels stay well typed, whatever state.json and
\* the events bring, restarts included.
THEOREM DTypeCorrect == DSpec => []DTypeOK
<1>1. DInit => DTypeOK
  BY DEF DInit, DTypeOK, NoEntry
<1>2. TypeOK /\ DTypeOK /\ [DNext]_allVars => DTypeOK'
  BY DTypeNext
<1>3. QED
  BY <1>1, <1>2, CoreAlways, PTL DEF DSpec

-----------------------------------------------------------------------------
(* The senders in the map.                                                 *)

\* A sender in the map is that of an open channel, and a client that has not
\* called yet has no channel: a channel that was settled is settled once.
SendersOpen ==
    /\ \A k \in entry.created \cup entry.waiters : chan[k] = "open"
    /\ \A k \in Clients : rpc[k] = "idle" => chan[k] = "none"

\* The inductive step of SendersOpen.
LEMMA SendersNext ==
    ASSUME DTypeOK, SendersOpen, [DNext]_allVars
    PROVE  SendersOpen'
<1>C. /\ Creators \subseteq Clients /\ Waiters \subseteq Clients
      /\ entry.created \cup entry.waiters \subseteq Clients
  BY DEF Clients, DTypeOK
<1>N. NoEntry.created = {} /\ NoEntry.waiters = {}
  BY DEF NoEntry
<1>E. entry \in EntryType
  BY DEF DTypeOK, EntryType, States
<1>0. CASE UNCHANGED dVars
  BY <1>0 DEF dVars, SendersOpen
<1>S. ASSUME NEW S, NEW how, chan' = Settle(S, how), \A k \in S : rpc'[k] # "idle",
             \A k \in Clients : rpc'[k] = "idle" => rpc[k] = "idle",
             /\ entry'.created \subseteq entry.created \ S
             /\ entry'.waiters \subseteq entry.waiters \ S
      PROVE  SendersOpen'
  BY <1>S, <1>C DEF SendersOpen, Settle
<1>1. ASSUME NEW k \in Creators, CreateInsert(k) PROVE SendersOpen'
  <2>1. k \notin entry.created \cup entry.waiters
    BY <1>1, <1>C DEF CreateInsert, SendersOpen
  <2>2. rpc'[k] # "idle" /\ \A j \in Clients : rpc'[j] = "idle" => rpc[j] = "idle"
    BY <1>1, <1>C DEF CreateInsert, DTypeOK
  <2>3. CASE Present
    BY <1>1, <1>S, <2>1, <2>2, <2>3 DEF CreateInsert
  <2>4. CASE ~Present
    <3>1. entry'.created = {k} /\ entry'.waiters = {} /\ chan' = Settle({k}, "open")
      BY <1>1, <2>4 DEF CreateInsert
    <3> QED BY <1>C, <2>2, <3>1 DEF SendersOpen, Settle
  <2> QED BY <2>3, <2>4
<1>2. ASSUME NEW k \in Creators, CreateSpawn(k) PROVE SendersOpen'
  <2>1. \A j \in Clients : rpc'[j] = "idle" => rpc[j] = "idle"
    BY <1>2 DEF CreateSpawn, DTypeOK
  <2> QED BY <1>2, <2>1 DEF CreateSpawn, SendersOpen
<1>3. ASSUME NEW w \in Waiters, WaitRegister(w) PROVE SendersOpen'
  <2>1. rpc'[w] # "idle" /\ \A j \in Clients : rpc'[j] = "idle" => rpc[j] = "idle"
    BY <1>3, <1>C DEF WaitRegister, DTypeOK
  <2>2. CASE Present
    <3>1. /\ entry'.created = entry.created /\ entry'.waiters = entry.waiters \cup {w}
          /\ chan' = Settle({w}, "open")
      BY <1>3, <2>2, <1>E DEF WaitRegister, EntryType
    <3> QED BY <1>C, <2>1, <3>1 DEF SendersOpen, Settle
  <2>3. CASE ~Present
    BY <1>3, <2>1, <2>3 DEF WaitRegister, SendersOpen
  <2> QED BY <2>2, <2>3
<1>4. ASSUME NEW k \in Clients, Reply(k) PROVE SendersOpen'
  <2>1. \A j \in Clients : rpc'[j] = "idle" => rpc[j] = "idle"
    BY <1>4 DEF Reply, DTypeOK
  <2> QED BY <1>4, <2>1 DEF Reply, SendersOpen
<1>5. ASSUME NEW e \in events, HandleEvent(e) PROVE SendersOpen'
  <2>1. CASE Present
    <3>1. /\ rpc' = rpc /\ chan' = Settle(Woken(e), "fired")
          /\ entry'.created = entry.created \ Woken(e)
          /\ entry'.waiters = entry.waiters \ Woken(e)
      BY <1>5, <2>1 DEF HandleEvent, Notify
    <3>2. Woken(e) \subseteq entry.created \cup entry.waiters
      BY DEF Woken
    <3>3. \A k \in Woken(e) : rpc'[k] # "idle"
      BY <1>C, <3>1, <3>2 DEF SendersOpen
    <3> QED BY <1>S, <3>1, <3>3
  <2>2. CASE ~Present
    BY <1>5, <2>2 DEF HandleEvent, SendersOpen
  <2> QED BY <2>1, <2>2
<1>6. ASSUME NEW c \in Callers, RpcReturn(c) PROVE SendersOpen'
  <2>0. rpc' = rpc
    BY <1>6 DEF RpcReturn
  <2>1. CASE chan' = chan /\ entry'.created = entry.created /\ entry'.waiters = entry.waiters
    BY <2>0, <2>1 DEF SendersOpen
  <2>2. CASE entry' = NoEntry /\ chan' = Settle(entry.created \cup entry.waiters, "dropped")
    <3>1. \A k \in entry.created \cup entry.waiters : rpc'[k] # "idle"
      BY <1>C, <2>0 DEF SendersOpen
    <3> QED BY <1>S, <1>N, <2>0, <2>2, <3>1
  <2> QED BY <1>6, <1>E, <2>1, <2>2 DEF RpcReturn, MapUpdate, EntryType
<1>7. CASE ProcessEnds
  <2>1. \A k \in Clients : rpc'[k] = "idle" => rpc[k] = "idle"
    BY <1>7 DEF ProcessEnds
  <2> QED BY <1>7, <1>N, <2>1 DEF ProcessEnds, Settle, SendersOpen
<1>8. CASE Recover
  BY <1>8, <1>N DEF Recover, SendersOpen
<1>9. CASE \/ UNCHANGED allVars
           \/ ProcessStep /\ UNCHANGED dVars
           \/ \E c \in Callers, op \in Ops : RpcBegin(c, op)
           \/ Shutdown \/ Serve
  BY <1>9, <1>0 DEF allVars, dVars, RpcBegin, Shutdown, Serve, SendersOpen
<1> QED BY <1>1, <1>2, <1>3, <1>4, <1>5, <1>6, <1>7, <1>8, <1>9
        DEF DNext, DaemonCrash, ShutdownDone

-----------------------------------------------------------------------------
(* The exit code that wait reports.                                        *)

\* Code c is how the child of shim s ended, or s failed.
Truth(s, c) == (c = -1 /\ shim[s] = "dead") \/ (Ended(s) /\ c = ReportedCode(s))

\* A child that has ended stays so, with its code, and a shim that is dead or
\* past its waitpid() does not go back.
LEMMA EndedStable ==
    ASSUME TypeOK, SandboxInv, [Next]_vars, NEW s \in Shims
    PROVE  /\ Ended(s) => Ended(s)' /\ code'[s] = code[s]
           /\ child[s] = "reaped" => child'[s] = "reaped"
           /\ shim[s] = "dead" => shim'[s] = "dead"
           /\ shim'[s] = "sayStopped" => shim[s] = "sayStopped" \/ child'[s] = "reaped"
<1> DEFINE Stable ==
             /\ Ended(s) => Ended(s)' /\ code'[s] = code[s]
             /\ child[s] = "reaped" => child'[s] = "reaped"
             /\ shim[s] = "dead" => shim'[s] = "dead"
             /\ shim'[s] = "sayStopped" => shim[s] = "sayStopped" \/ child'[s] = "reaped"
<1> USE DEF TypeOK, ProcessesOK, childVars, Ended
<1>0. CASE UNCHANGED vars
  BY <1>0 DEF vars
<1>1. ASSUME NEW t \in Shims, ShimStep(t)
      PROVE  Stable
  <2>1. CASE Clone(t)
    <3>1. child[t] = "none"
      BY <2>1 DEF Clone, Try, SandboxInv, SupervisorInv, BeforeClone
    <3> QED BY <2>1, <3>1 DEF Clone, Try
  <2>2. CASE WaitPid(t)
    BY <2>2 DEF WaitPid, Try
  <2>3. CASE \/ CheckExists(t) \/ MakeBundle(t) \/ SayCreating(t) \/ CreateCgroup(t)
             \/ CreateVeth(t) \/ MoveVeth(t) \/ ConfigureNet(t) \/ SetLimits(t)
             \/ SayCreated(t) \/ BindSocket(t) \/ Accept(t) \/ UnfreezeChild(t)
             \/ SayStopped(t) \/ WriteLog(t) \/ ReportFailure(t)
    BY <2>3 DEF CheckExists, MakeBundle, SayCreating, CreateCgroup, CreateVeth, MoveVeth,
                ConfigureNet, SetLimits, SayCreated, BindSocket, Accept, UnfreezeChild,
                SayStopped, WriteLog, ReportFailure, SendEvent, Try
  <2>4. CASE SaveState(t)
    BY <2>4 DEF SaveState, ShimRead, ShimOpen, ShimPut, Try
  <2> QED BY <1>1, <2>1, <2>2, <2>3, <2>4 DEF ShimStep
<1>2. ASSUME NEW t \in Shims,
             \/ StepFails(t) \/ PanicAtCut(t) \/ ShimCrash(t) \/ ChildSetup(t) \/ ChildExec(t)
             \/ ChildExit(t) \/ KillTakes(t) \/ VethGone(t) \/ InitReaps(t) \/ Spawn(t)
      PROVE  Stable
  <2>1. CASE StepFails(t) \/ PanicAtCut(t) \/ ShimCrash(t) \/ Spawn(t)
    BY <2>1 DEF StepFails, PanicAtCut, ShimCrash, Spawn, FallibleSteps, ShimOver, ShimGone
  <2>2. CASE ChildSetup(t) \/ ChildExec(t) \/ ChildExit(t) \/ KillTakes(t)
    BY <2>2 DEF ChildSetup, ChildExec, ChildExit, KillTakes, ChildEnds, Alive
  <2>3. CASE VethGone(t)
    BY <2>3 DEF VethGone
  <2>4. CASE InitReaps(t)
    BY <2>4 DEF InitReaps
  <2> QED BY <1>2, <2>1, <2>2, <2>3, <2>4
<1>3. ASSUME NEW c \in Callers,
             CallStep(c) \/ Return(c) \/ \E op \in Ops : Begin(c, op)
      PROVE  /\ Ended(s) => Ended(s)' /\ code'[s] = code[s]
             /\ child[s] = "reaped" => child'[s] = "reaped"
             /\ shim' = shim
  BY <1>3 DEF CallStep, CallRead, StartConnect, KillSignal, CgroupFreeze, CallReread, CallOpen,
              CallPut, RemoveCgroup, RemoveBundle, Return, Begin
<1>4. CASE DaemonStops \/ DaemonListens
  BY <1>4 DEF DaemonStops, DaemonListens
<1> QED BY <1>0, <1>1, <1>2, <1>3, <1>4 DEF Next, ProcessStep

\* Where a code came from does not change afterwards.
LEMMA TruthStable ==
    ASSUME TypeOK, SandboxInv, [DNext]_allVars, NEW s \in Shims, NEW c, Truth(s, c)
    PROVE  Truth(s, c)'
<1>1. CASE [Next]_vars
  BY <1>1, EndedStable DEF Truth, ReportedCode
<1>2. CASE UNCHANGED <<shim, child, code>>
  BY <1>2 DEF Truth, ReportedCode, Ended
<1>3. (\E e \in events : HandleEvent(e)) \/ ProcessEnds \/ Serve
        => UNCHANGED <<shim, child, code>>
  BY DEF HandleEvent, ProcessEnds, Serve, childVars
<1> QED BY <1>1, <1>2, <1>3, DaemonStep

\* Each event under way says Creating or Created, or it says Stopped and is
\* true; so is each code that was sent to a wait, and wait answers Ok only with
\* a code that was sent.
EventTrue(e) ==
    \/ e.state \in {"creating", "created"}
    \/ e.state = "stopped" /\ Truth(e.from, e.code)

ExitInv ==
    /\ \A s \in Shims : shim[s] = "sayStopped" => child[s] = "reaped"
    /\ \A e \in events : EventTrue(e)
    /\ \A w \in Waiters : chan[w] = "fired" => \E s \in Shims : Truth(s, exit[w])
    /\ \A w \in Waiters : rpc[w] = "ok" => chan[w] = "fired"

\* An event that says Stopped is sent when the child has been reaped, or by a
\* shim that ends with it.
LEMMA NewEvent ==
    ASSUME TypeOK, ExitInv, [DNext]_allVars,
           NEW e \in events', e \notin events
    PROVE  EventTrue(e)'
<1>1. ASSUME NEW s \in Shims, ShimStep(s) PROVE EventTrue(e)'
  <2>1. CASE SayCreating(s) \/ SayCreated(s)
    BY <2>1 DEF SayCreating, SayCreated, SendEvent, Event, EventTrue
  <2>2. CASE SayStopped(s)
    <3>1. e = Event(s, "stopped", ReportedCode(s)) /\ shim[s] = "sayStopped"
      BY <2>2 DEF SayStopped, SendEvent, Try
    <3>2. child' = child /\ code' = code /\ child[s] = "reaped"
      BY <2>2, <3>1 DEF SayStopped, SendEvent, childVars, ExitInv
    <3> QED BY <3>1, <3>2 DEF EventTrue, Truth, Ended, ReportedCode, Event
  <2>3. CASE ReportFailure(s)
    BY <2>3 DEF ReportFailure, Event, EventTrue, Truth, TypeOK, ProcessesOK
  <2>4. CASE ~SayCreating(s) /\ ~SayCreated(s) /\ ~SayStopped(s) /\ ~ReportFailure(s)
    BY <1>1, <2>4
       DEF ShimStep, CheckExists, MakeBundle, SaveState, ShimRead, ShimOpen, ShimPut,
           CreateCgroup, Clone, CreateVeth, MoveVeth, ConfigureNet, SetLimits, BindSocket,
           Accept, UnfreezeChild, WaitPid, WriteLog, evVars
  <2> QED BY <2>1, <2>2, <2>3, <2>4
<1>2. ASSUME NEW s \in Shims,
             \/ StepFails(s) \/ PanicAtCut(s) \/ ShimCrash(s) \/ ChildSetup(s) \/ ChildExec(s)
             \/ ChildExit(s) \/ KillTakes(s) \/ VethGone(s) \/ InitReaps(s) \/ Spawn(s)
      PROVE  events' = events
  BY <1>2 DEF StepFails, PanicAtCut, ShimCrash, ChildSetup, ChildExec, ChildExit,
              KillTakes, ChildEnds, VethGone, InitReaps, Spawn, evVars
<1>3. ASSUME NEW c \in Callers,
             CallStep(c) \/ Return(c) \/ \E op \in Ops : Begin(c, op)
      PROVE  events' = events
  BY <1>3 DEF CallStep, CallRead, StartConnect, KillSignal, CgroupFreeze, CallReread, CallOpen,
              CallPut, RemoveCgroup, RemoveBundle, Return, Begin, evVars
<1>4. CASE DaemonStops \/ DaemonListens \/ UNCHANGED vars
  BY <1>4 DEF DaemonStops, DaemonListens, vars, evVars
<1>5. CASE (\E d \in events : HandleEvent(d)) \/ ProcessEnds \/ Serve
  BY <1>5 DEF HandleEvent, ProcessEnds, Serve
<1> QED BY <1>1, <1>2, <1>3, <1>4, <1>5, DaemonStep DEF Next, ProcessStep

\* A code reaches a wait from a Stopped event only and stays as it is.
LEMMA CodeSent ==
    ASSUME DTypeOK, SendersOpen, [DNext]_allVars, NEW w \in Waiters, chan'[w] = "fired"
    PROVE  \/ chan[w] = "fired" /\ exit'[w] = exit[w]
           \/ \E e \in events : e.state = "stopped" /\ exit'[w] = e.code
<1>C. w \in Clients /\ w \notin Creators /\ w \notin entry.created
  BY ClientsAssumption DEF Clients, DTypeOK
<1>1. CASE UNCHANGED <<chan, exit>>
  BY <1>1
<1>2. ASSUME NEW k \in Creators, CreateInsert(k)
      PROVE  chan[w] = "fired" /\ exit'[w] = exit[w]
  BY <1>2, <1>C DEF CreateInsert, Settle
<1>3. ASSUME NEW v \in Waiters, WaitRegister(v)
      PROVE  chan[w] = "fired" /\ exit'[w] = exit[w]
  BY <1>3, <1>C DEF WaitRegister, Settle
<1>4. ASSUME NEW e \in events, HandleEvent(e)
      PROVE  \/ chan[w] = "fired" /\ exit'[w] = exit[w]
             \/ e.state = "stopped" /\ exit'[w] = e.code
  <2>1. CASE Notify(e) /\ w \in Woken(e)
    BY <2>1, <1>C DEF Notify, Woken
  <2>2. CASE Notify(e) /\ w \notin Woken(e)
    BY <2>2, <1>C DEF Notify, Settle
  <2> QED BY <1>4, <2>1, <2>2 DEF HandleEvent
<1>5. ASSUME NEW c \in Callers, RpcReturn(c)
      PROVE  chan[w] = "fired" /\ exit'[w] = exit[w]
  BY <1>5, <1>C DEF RpcReturn, MapUpdate, Settle
<1>6. CASE ProcessEnds
  BY <1>6, <1>C DEF ProcessEnds, Settle
<1>7. CASE \/ UNCHANGED allVars
           \/ ProcessStep /\ UNCHANGED dVars
           \/ \E k \in Creators : CreateSpawn(k)
           \/ \E k \in Clients : Reply(k)
           \/ \E c \in Callers, op \in Ops : RpcBegin(c, op)
           \/ Shutdown \/ Recover \/ Serve
  BY <1>1, <1>7 DEF allVars, dVars, CreateSpawn, Reply, RpcBegin, Shutdown, Recover, Serve
<1> QED BY <1>2, <1>3, <1>4, <1>5, <1>6, <1>7 DEF DNext, DaemonCrash, ShutdownDone

\* A wait that was answered keeps its channel as it was answered.
LEMMA OkIsFired ==
    ASSUME DTypeOK, SendersOpen, ExitInv, [DNext]_allVars, NEW w \in Waiters, rpc'[w] = "ok"
    PROVE  chan'[w] = "fired"
<1>C. w \in Clients /\ w \notin Creators
  BY ClientsAssumption DEF Clients
<1>F. chan[w] = "fired" => w \notin entry.created \cup entry.waiters
  BY <1>C DEF SendersOpen
<1>1. ASSUME NEW k \in Creators, CreateInsert(k) \/ CreateSpawn(k) PROVE chan'[w] = "fired"
  BY <1>1, <1>C DEF CreateInsert, CreateSpawn, Settle, ExitInv, DTypeOK
<1>2. ASSUME NEW v \in Waiters, WaitRegister(v) PROVE chan'[w] = "fired"
  <2>1. v # w /\ rpc[w] = "ok"
    BY <1>2, <1>C DEF WaitRegister, DTypeOK
  <2> QED BY <1>2, <2>1, <1>C DEF WaitRegister, Settle, ExitInv
<1>3. ASSUME NEW k \in Clients, Reply(k) PROVE chan'[w] = "fired"
  BY <1>3, <1>C DEF Reply, ExitInv, DTypeOK
<1>4. ASSUME NEW e \in events, HandleEvent(e) PROVE chan'[w] = "fired"
  BY <1>4, <1>C DEF HandleEvent, Notify, Settle, ExitInv
<1>5. ASSUME NEW c \in Callers, RpcReturn(c) PROVE chan'[w] = "fired"
  BY <1>5, <1>C, <1>F DEF RpcReturn, MapUpdate, Settle, ExitInv
<1>6. CASE ProcessEnds
  BY <1>6, <1>C DEF ProcessEnds, Settle, ExitInv
<1>7. CASE \/ UNCHANGED allVars
           \/ ProcessStep /\ UNCHANGED dVars
           \/ \E c \in Callers, op \in Ops : RpcBegin(c, op)
           \/ Shutdown \/ Recover \/ Serve
  BY <1>7 DEF allVars, dVars, RpcBegin, Shutdown, Recover, Serve, ExitInv
<1> QED BY <1>1, <1>2, <1>3, <1>4, <1>5, <1>6, <1>7 DEF DNext, DaemonCrash, ShutdownDone

\* The inductive step: codes travel from a reaped child through the event to
\* the wait unchanged.
LEMMA ExitNext ==
    ASSUME TypeOK, SandboxInv, DTypeOK, SendersOpen, ExitInv, [DNext]_allVars
    PROVE  ExitInv'
<1>1. ASSUME NEW s \in Shims, shim'[s] = "sayStopped" PROVE child'[s] = "reaped"
  <2>1. CASE [Next]_vars
    BY <1>1, <2>1, EndedStable DEF ExitInv
  <2>2. CASE (\E e \in events : HandleEvent(e)) \/ ProcessEnds \/ Serve
    BY <1>1, <2>2 DEF HandleEvent, ProcessEnds, Serve, childVars, ExitInv
  <2> QED BY <2>1, <2>2, DaemonStep
<1>2. ASSUME NEW e \in events' PROVE EventTrue(e)'
  <2>1. CASE e \in events
    <3>1. e.from \in Shims /\ EventTrue(e)
      BY <2>1 DEF TypeOK, EventsOK, EventType, ExitInv
    <3>2. Truth(e.from, e.code) => Truth(e.from, e.code)'
      BY <3>1, TruthStable
    <3> QED BY <3>1, <3>2 DEF EventTrue
  <2>2. CASE e \notin events
    BY <1>2, <2>2, NewEvent
  <2> QED BY <2>1, <2>2
<1>3. ASSUME NEW w \in Waiters, chan'[w] = "fired"
      PROVE  \E s \in Shims : Truth(s, exit[w])'
  <2>1. CASE chan[w] = "fired" /\ exit'[w] = exit[w]
    <3>1. PICK s \in Shims : Truth(s, exit[w])
      BY <2>1 DEF ExitInv
    <3>2. Truth(s, exit[w])'
      <4>1. PICK c : c = exit[w]
        OBVIOUS
      <4>2. Truth(s, c)'
        BY <3>1, <4>1, TruthStable
      <4> QED BY <2>1, <4>1, <4>2 DEF Truth, Ended, ReportedCode
    <3> QED BY <3>2
  <2>2. ASSUME NEW e \in events, e.state = "stopped", exit'[w] = e.code
        PROVE  \E s \in Shims : Truth(s, exit[w])'
    <3>1. e.from \in Shims /\ Truth(e.from, e.code)
      BY <2>2 DEF ExitInv, EventTrue, TypeOK, EventsOK, EventType
    <3>2. Truth(e.from, e.code)'
      BY <3>1, TruthStable
    <3>3. Truth(e.from, exit[w])'
      BY <2>2, <3>2 DEF Truth, Ended, ReportedCode
    <3> QED BY <3>1, <3>3
  <2> QED BY <1>3, <2>1, <2>2, CodeSent
<1>4. ASSUME NEW w \in Waiters, rpc'[w] = "ok" PROVE chan'[w] = "fired"
  BY <1>4, OkIsFired
<1> QED BY <1>1, <1>2, <1>3, <1>4 DEF ExitInv

\* The code that wait reports is always that of a child that has ended, or -1
\* for a create() that failed: with any number of creates and waits, events
\* out of order, and restarts.
THEOREM ExitCodesTrue == DSpec => []ExitCodeTruthful
<1>1. DInit => SendersOpen /\ ExitInv
  BY DEF DInit, Init, SendersOpen, ExitInv, NoEntry, Clients
<1>2. TypeOK /\ SandboxInv /\ DTypeOK /\ SendersOpen /\ ExitInv
        /\ [DNext]_allVars => SendersOpen' /\ ExitInv'
  BY SendersNext, ExitNext
<1>3. ExitInv => ExitCodeTruthful
  BY DEF ExitInv, ExitCodeTruthful, Truth, Ended
<1>4. QED
  BY <1>1, <1>2, <1>3, CoreAlways, DTypeCorrect, PTL DEF DSpec

-----------------------------------------------------------------------------
(* What the map says.                                                      *)

\* A state the map may have for the container of shim s.
Backed(st, s) ==
    /\ st \in {"running", "paused"} => conns[s] > 0
    /\ st = "stopped" => Doomed(s) \/ shim[s] = "dead"

\* What the map says stays true.
LEMMA BackedStable ==
    ASSUME TypeOK, SandboxInv, [DNext]_allVars, NEW s \in Shims, OneCreate(s)', NEW st
    PROVE  OneCreate(s) /\ (Backed(st, s) => Backed(st, s)')
<1>1. CASE Next
  BY <1>1, OneCreateBefore, StepMonotone, EndedStable DEF Backed, Doomed
<1>2. CASE UNCHANGED <<shim, childVars, conns>>
  BY <1>2 DEF childVars, OneCreate, Backed, Doomed, Ended
<1>3. UNCHANGED vars \/ (\E e \in events : HandleEvent(e)) \/ ProcessEnds \/ Serve
        => UNCHANGED <<shim, childVars, conns>>
  BY DEF HandleEvent, ProcessEnds, Serve, vars
<1> QED BY <1>1, <1>2, <1>3, DaemonStep

\* Shims of which no child and no failure is known have not been spawned.
LEMMA TruthOfOne ==
    ASSUME SandboxInv, NEW s \in Shims, OneCreate(s), NEW t \in Shims, NEW c, Truth(t, c)
    PROVE  t = s
<1>1. shim[t] # "off"
  BY DEF Truth, Ended, SandboxInv, SupervisorInv, BeforeClone
<1> QED BY <1>1 DEF OneCreate

\* recover() takes no more from state.json than it says, and its two guesses of
\* an end are right: a pid without a process, and running without a pid.
LEMMA RecoveredBacked ==
    ASSUME TypeOK, SandboxInv, StatusInv, PidInv, Readable, NEW s \in Shims, OneCreate(s)
    PROVE  Backed(RecoveredState, s)
<1>1. Backed(file.status, s)
  BY DEF StatusInv, StatusTruthful, Backed
<1>2. CASE file.pid # NoPid
  <2>1. file.pid = s
    BY <1>2, OnlyPid DEF Known, TypeOK, FilesOK, FileType
  <2>2. ~ProcExists(s) => Doomed(s)
    BY DEF ProcExists, Doomed, Ended
  <2> QED BY <1>1, <1>2, <2>1, <2>2 DEF RecoveredState, Backed
<1>3. CASE file.pid = NoPid
  <2>1. file.status = "running" => Doomed(s)
    BY <1>3 DEF PidInv
  <2> QED BY <1>1, <1>3, <2>1 DEF RecoveredState, Backed
<1> QED BY <1>2, <1>3

\* A call that returned Ok leaves a status in the map that came about.
LEMMA ReturnBacked ==
    ASSUME StatusInv, NEW c \in Callers, call[c].pc = "ok", call[c].op \in DOMAIN MapStatus,
           NEW s \in Shims, OneCreate(s)
    PROVE  Backed(MapStatus[call[c].op], s)
<1>1. CallBacked(call[c], s)
  BY DEF StatusInv
<1> QED BY <1>1 DEF CallBacked, MapStatus, Result, Backed

\* The inductive step: calls, events and recover() write what is backed.
LEMMA MapNext ==
    ASSUME TypeOK, SandboxInv, StatusInv, PidInv, DTypeOK, ExitInv, MapTruthful,
           [DNext]_allVars
    PROVE  MapTruthful'
<1> SUFFICES ASSUME NEW s \in Shims, OneCreate(s)' PROVE Backed(entry.state, s)'
  BY DEF MapTruthful, Backed
<1>0. OneCreate(s) /\ \A st : Backed(st, s) => Backed(st, s)'
  BY BackedStable
<1>S. ASSUME entry'.state \in {entry.state, "absent", "creating", "created"}
      PROVE  Backed(entry.state, s)'
  <2>1. Backed(entry.state, s)
    BY <1>0 DEF MapTruthful, Backed
  <2> QED BY <1>S, <1>0, <2>1 DEF Backed
<1>1. ASSUME NEW k \in Creators, CreateInsert(k) PROVE Backed(entry.state, s)'
  BY <1>1, <1>S DEF CreateInsert
<1>2. ASSUME NEW w \in Waiters, WaitRegister(w) PROVE Backed(entry.state, s)'
  BY <1>2, <1>S DEF WaitRegister, DTypeOK
<1>3. ASSUME NEW e \in events, HandleEvent(e) PROVE Backed(entry.state, s)'
  <2>1. CASE entry'.state = e.state /\ e.state = "stopped"
    <3>1. Truth(e.from, e.code) /\ e.from \in Shims
      BY <2>1 DEF ExitInv, EventTrue, TypeOK, EventsOK, EventType
    <3>2. e.from = s
      BY <1>0, <3>1, TruthOfOne
    <3>3. Backed("stopped", s)
      BY <3>1, <3>2 DEF Truth, Backed, Doomed
    <3> QED BY <1>0, <2>1, <3>3
  <2>2. CASE entry'.state = e.state /\ e.state # "stopped"
    BY <1>S, <2>2 DEF ExitInv, EventTrue
  <2>3. CASE entry' = entry
    BY <1>S, <2>3
  <2> QED BY <1>3, <2>1, <2>2, <2>3 DEF HandleEvent, Notify
<1>4. ASSUME NEW c \in Callers, RpcReturn(c) PROVE Backed(entry.state, s)'
  <2>1. CASE /\ Present /\ call[c].pc = "ok" /\ call[c].op \in DOMAIN MapStatus
             /\ MapUpdate(call[c].op)
    <3>1. entry'.state = MapStatus[call[c].op]
      BY <2>1 DEF MapUpdate, DTypeOK
    <3>2. Backed(MapStatus[call[c].op], s)
      BY <1>0, <2>1, ReturnBacked
    <3> QED BY <1>0, <3>1, <3>2
  <2>2. CASE entry' \in {entry, NoEntry}
    BY <1>S, <2>2 DEF NoEntry
  <2> QED BY <1>4, <2>1, <2>2 DEF RpcReturn, MapUpdate
<1>5. CASE ProcessEnds
  BY <1>5, <1>S DEF ProcessEnds, NoEntry
<1>6. CASE Recover
  <2>1. CASE entry' = NoEntry
    BY <1>S, <2>1 DEF NoEntry
  <2>2. CASE Readable /\ entry'.state = RecoveredState
    BY <1>0, <2>2, RecoveredBacked
  <2> QED BY <1>6, <2>1, <2>2 DEF Recover
<1>7. CASE \/ UNCHANGED allVars
           \/ ProcessStep /\ UNCHANGED dVars
           \/ \E k \in Creators : CreateSpawn(k)
           \/ \E k \in Clients : Reply(k)
           \/ \E c \in Callers, op \in Ops : RpcBegin(c, op)
           \/ Shutdown \/ Serve
  <2>1. entry' = entry
    BY <1>7 DEF allVars, dVars, CreateSpawn, Reply, RpcBegin, Shutdown, Serve
  <2> QED BY <2>1, <1>S
<1> QED BY <1>1, <1>2, <1>3, <1>4, <1>5, <1>6, <1>7 DEF DNext, DaemonCrash, ShutdownDone

\* While an id is created once, the map of the daemon never claims a start that
\* was not delivered, nor an end that has not come, is not on its way and is not
\* the failure of create(): with calls that return late, events in any order,
\* and a map that recover() built from state.json.
THEOREM MapAlwaysTruthful == DSpec => []MapTruthful
<1>1. DInit => SendersOpen /\ ExitInv /\ MapTruthful
  BY DEF DInit, Init, SendersOpen, ExitInv, MapTruthful, NoEntry, Clients
<1>2. TypeOK /\ SandboxInv /\ StatusInv /\ PidInv /\ DTypeOK
        /\ SendersOpen /\ ExitInv /\ MapTruthful /\ [DNext]_allVars
        => SendersOpen' /\ ExitInv' /\ MapTruthful'
  BY SendersNext, ExitNext, MapNext
<1>3. QED
  BY <1>1, <1>2, CoreAlways, DTypeCorrect, PTL DEF DSpec
=============================================================================
