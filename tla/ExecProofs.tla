----------------------------- MODULE ExecProofs -----------------------------
(* Proofs about clonebox exec beside everything Container does, for any    *)
(* number of invocations, shims and callers.                               *)
EXTENDS Exec, StatusProofs, LifecycleProofs

-----------------------------------------------------------------------------
(* Exec takes no part in the protocol of Container.                        *)

\* To the container a step beside exec is one of its own, and a step of exec
\* is none.
LEMMA ExecIsBeside == [ENext]_eVars => [Next]_vars
BY DEF ENext, eVars, Beside, ExecBegin, ExecStep, Connect, ReadState, OpenLog,
       EnterNamespace, Fork, ExecWait, Leave, ExecReturn, CommandExec, CommandExit,
       CommandKilled

\* So what was proved of Container holds with exec as well.
LEMMA ContainerUnderExec == ESpec => [](TypeOK /\ SandboxInv /\ StatusInv)
<1>1. EInit => TypeOK /\ SandboxInv /\ StatusInv
  BY TypeInit, SandboxInit, StatusInit DEF EInit
<1>2. TypeOK /\ SandboxInv /\ StatusInv /\ [ENext]_eVars => (TypeOK /\ SandboxInv /\ StatusInv)'
  BY ExecIsBeside, TypeNext, SandboxNext, StatusNext
<1>3. QED
  BY <1>1, <1>2, PTL DEF ESpec

\* A container that was started and configured stays so.
LEMMA StartedStable ==
    ASSUME TypeOK, SandboxInv, [Next]_vars, NEW s \in Shims, Started(s)
    PROVE  Started(s)'
<1>1. CASE UNCHANGED vars
  BY <1>1 DEF vars, childVars, cgVars, Started, Configured, OneCreate, Alive, InSandbox
<1>2. CASE Next
  BY <1>2, ConfiguredStable, OneCreateBefore, StepMonotone DEF Started
<1>3. QED
  BY <1>1, <1>2

\* The pid of a state.json that says running is that of a started container.
LEMMA RunningPid ==
    ASSUME SandboxInv, StatusInv, file.status = "running", file.pid \in Shims
    PROVE  Started(file.pid)
BY DEF SandboxInv, PublishedPid, StatusInv, StatusTruthful, Started

-----------------------------------------------------------------------------
(* The invariant.                                                          *)

\* No exec is under way in the initial state.
LEMMA ExecInit == EInit => ExecInv
BY DEF EInit, ExecInv, ExecOK, NotExec, Host, ExecSteps, After, Entered

\* What ExecInv says of one invocation.
ExecHolds(e) ==
    /\ e.pc \in {"log"} \cup DOMAIN Entered /\ e.pid # NoPid => Started(e.pid)
    /\ e.pc \in DOMAIN Entered =>
          e.pid # NoPid /\ \A n \in Entered[e.pc] : e.in[n] = e.pid
    /\ e.cmd # "none" => e.pc = "wait"

\* A step of one invocation leaves the others alone.
LEMMA ExecFrame ==
    ASSUME ExecInv, UNCHANGED vars, NEW x \in Execs, NEW e \in ExecOK,
           ex' = [ex EXCEPT ![x] = e], ExecHolds(e)
    PROVE  ExecInv'
<1>1. \A s : Started(s)' = Started(s)
  BY DEF vars, childVars, cgVars, Started, Configured, OneCreate, Alive, InSandbox
<1>2. ex' \in [Execs -> ExecOK]
  BY DEF ExecInv
<1>3. ASSUME NEW y \in Execs PROVE ExecHolds(ex[y])'
  <2>1. CASE y = x
    BY <1>1, <2>1 DEF ExecInv, ExecHolds
  <2>2. CASE y # x
    BY <1>1, <2>2 DEF ExecInv, ExecHolds
  <2> QED BY <2>1, <2>2
<1>4. QED
  BY <1>2, <1>3 DEF ExecInv, ExecHolds

\* A step of exec, of its command or of the kernel on the command.
LEMMA ExecNext ==
    ASSUME SandboxInv, StatusInv, FilesOK, ExecInv, NEW x \in Execs,
           \/ ExecBegin(x) \/ ExecStep(x)
           \/ CommandExec(x) \/ CommandExit(x) \/ CommandKilled(x)
    PROVE  ExecInv'
<1> DEFINE e == ex[x]
<1>0. e \in ExecOK /\ ExecHolds(e) /\ ex \in [Execs -> ExecOK]
  BY DEF ExecInv, ExecHolds
<1>1. ASSUME NEW f \in ExecOK, ex' = [ex EXCEPT ![x] = f], ExecHolds(f), UNCHANGED vars
      PROVE  ExecInv'
  BY <1>1, ExecFrame
<1> USE DEF ExecHolds, ExecOK, ExecSteps, After, Entered, Namespaces
<1>2. CASE ExecBegin(x)
  <2> DEFINE f == [e EXCEPT !.pc = "connect"]
  <2>1. ex' = [ex EXCEPT ![x] = f] /\ UNCHANGED vars
    BY <1>2, <1>0 DEF ExecBegin
  <2>2. f \in ExecOK /\ ExecHolds(f)
    BY <1>2, <1>0 DEF ExecBegin
  <2> HIDE DEF f, ExecHolds, ExecOK
  <2> QED BY <1>1, <2>1, <2>2
<1>3. CASE Connect(x)
  <2> DEFINE f == [e EXCEPT !.pc = IF evOpen THEN "read" ELSE "err"]
  <2>1. ex' = [ex EXCEPT ![x] = f] /\ UNCHANGED vars
    BY <1>3, <1>0 DEF Connect, ExecTry
  <2>2. f \in ExecOK /\ ExecHolds(f)
    BY <1>3, <1>0 DEF Connect, ExecTry
  <2> HIDE DEF f, ExecHolds, ExecOK
  <2> QED BY <1>1, <2>1, <2>2
<1>4. CASE ReadState(x)
  <2> DEFINE ok == Readable /\ file.status = "running"
             f == [e EXCEPT !.pc = IF ok THEN "log" ELSE "err",
                            !.pid = IF ok THEN file.pid ELSE NoPid]
  <2>1. ex' = [ex EXCEPT ![x] = f] /\ UNCHANGED vars
    BY <1>4, <1>0 DEF ReadState
  <2>2. file.pid \in Shims \cup {NoPid}
    BY DEF FilesOK, FileType
  <2>3. ok /\ file.pid # NoPid => Started(file.pid)
    BY <2>2, RunningPid
  <2>4. f \in ExecOK /\ ExecHolds(f)
    BY <1>4, <1>0, <2>2, <2>3 DEF ReadState
  <2> HIDE DEF f, ExecHolds, ExecOK
  <2> QED BY <1>1, <2>1, <2>4
<1>5. CASE OpenLog(x)
  <2> DEFINE f == [e EXCEPT !.pc = IF bundle /\ e.pid # NoPid THEN "uts" ELSE "err"]
  <2>1. ex' = [ex EXCEPT ![x] = f] /\ UNCHANGED vars
    BY <1>5, <1>0 DEF OpenLog, ExecTry
  <2>2. f \in ExecOK /\ ExecHolds(f)
    BY <1>5, <1>0 DEF OpenLog, ExecTry
  <2> HIDE DEF f, ExecHolds, ExecOK
  <2> QED BY <1>1, <2>1, <2>2
<1>6. ASSUME NEW n \in Namespaces, EnterNamespace(x, n) PROVE ExecInv'
  <2> DEFINE ok == HasNamespace(e.pid, n)
             f == [e EXCEPT !.pc = IF ok THEN After[n] ELSE "err",
                            !.in = [e.in EXCEPT ![n] = IF ok THEN e.pid ELSE @]]
  <2>1. ex' = [ex EXCEPT ![x] = f] /\ UNCHANGED vars
    BY <1>6, <1>0 DEF EnterNamespace
  <2>2. e.pc = n
    BY <1>6 DEF EnterNamespace
  <2>3. f \in ExecOK /\ ExecHolds(f)
    <3>1. e.pid # NoPid /\ e.cmd = "none" /\ Started(e.pid)
      BY <1>0, <2>2
    <3>2. CASE ~ok
      <4>1. f.pc = "err" /\ f.cmd = "none" /\ f \in ExecOK
        BY <1>0, <3>1, <3>2
      <4> QED BY <4>1
    <3>3. CASE ok
      <4>1. /\ f.pc = After[n] /\ f.cmd = "none" /\ f.pid = e.pid /\ f \in ExecOK
            /\ f.in[n] = e.pid /\ \A m \in Namespaces \ {n} : f.in[m] = e.in[m]
        <5> DEFINE g == [e.in EXCEPT ![n] = e.pid]
        <5>1. /\ g \in [Namespaces -> Shims \cup {NoPid}]
              /\ g[n] = e.pid /\ \A m \in Namespaces \ {n} : g[m] = e.in[m]
          BY <1>0
        <5>2. After[n] \in ExecSteps
          OBVIOUS
        <5>3. f = [e EXCEPT !.pc = After[n], !.in = g]
          BY <3>3
        <5> HIDE DEF g, f, After, ExecSteps
        <5> QED BY <1>0, <3>1, <5>1, <5>2, <5>3
      <4>2. Entered[After[n]] = Entered[n] \cup {n} /\ After[n] \in DOMAIN Entered
        OBVIOUS
      <4>3. \A m \in Entered[n] : e.in[m] = e.pid
        BY <1>0, <2>2
      <4>4. Entered[n] \subseteq Namespaces
        OBVIOUS
      <4> HIDE DEF f, Entered, After, Namespaces, ExecOK
      <4>5. \A m \in Entered[f.pc] : f.in[m] = f.pid
        BY <4>1, <4>2, <4>3, <4>4
      <4> QED BY <3>1, <4>1, <4>2, <4>5
    <3> QED BY <3>2, <3>3
  <2> HIDE DEF f, ExecHolds, ExecOK
  <2> QED BY <1>1, <2>1, <2>3
<1>7. CASE Fork(x)
  <2> DEFINE ok == Alive(e.in["pid"])
             f == [e EXCEPT !.pc = IF ok THEN "wait" ELSE "err",
                            !.cmd = IF ok THEN "forked" ELSE "none"]
  <2>1. ex' = [ex EXCEPT ![x] = f] /\ UNCHANGED vars
    BY <1>7, <1>0 DEF Fork
  <2>2. f \in ExecOK /\ ExecHolds(f)
    <3>1. e.pc = "fork"
      BY <1>7 DEF Fork
    <3>2. CASE ok
      <4>1. /\ f.pc = "wait" /\ f.pid = e.pid /\ f.in = e.in /\ f \in ExecOK
        BY <1>0, <3>2
      <4>2. /\ e.pid # NoPid => Started(e.pid)
            /\ e.pid # NoPid /\ \A n \in Entered["fork"] : e.in[n] = e.pid
        BY <1>0, <3>1
      <4>3. Entered["wait"] = Entered["fork"]
        OBVIOUS
      <4> HIDE DEF f, ExecOK
      <4> QED BY <4>1, <4>2, <4>3
    <3>3. CASE ~ok
      <4>1. f.pc = "err" /\ f.cmd = "none" /\ f \in ExecOK
        BY <1>0, <3>3
      <4> QED BY <4>1
    <3> QED BY <3>2, <3>3
  <2> HIDE DEF f, ExecHolds, ExecOK
  <2> QED BY <1>1, <2>1, <2>2
<1>8. CASE ExecWait(x)
  <2> DEFINE f == [e EXCEPT !.pc = "leave", !.cmd = "none"]
  <2>1. ex' = [ex EXCEPT ![x] = f] /\ UNCHANGED vars
    BY <1>8, <1>0 DEF ExecWait
  <2>2. f \in ExecOK /\ ExecHolds(f)
    BY <1>8, <1>0 DEF ExecWait
  <2> HIDE DEF f, ExecHolds, ExecOK
  <2> QED BY <1>1, <2>1, <2>2
<1>9. CASE Leave(x)
  <2> DEFINE f == [e EXCEPT !.pc = "ok",
                            !.in = [e.in EXCEPT !["mnt"] = NoPid, !["pid"] = NoPid]]
  <2>1. ex' = [ex EXCEPT ![x] = f] /\ UNCHANGED vars
    <3>1. /\ ex' = [ex EXCEPT ![x].pc = "ok", ![x].in["mnt"] = NoPid, ![x].in["pid"] = NoPid]
          /\ UNCHANGED vars
      BY <1>9 DEF Leave
    <3> HIDE DEF ExecHolds, ExecSteps, After, Entered
    <3>2. ex \in [Execs -> ExecOK] /\ e \in ExecOK
      BY <1>0
    <3> QED BY <3>1, <3>2
  <2>2. f \in ExecOK /\ ExecHolds(f)
    BY <1>9, <1>0 DEF Leave
  <2> HIDE DEF f, ExecHolds, ExecOK
  <2> QED BY <1>1, <2>1, <2>2
<1>10. CASE ExecReturn(x)
  <2>1. ex' = [ex EXCEPT ![x] = NotExec] /\ UNCHANGED vars
    BY <1>10 DEF ExecReturn
  <2>2. NotExec \in ExecOK /\ ExecHolds(NotExec)
    BY DEF NotExec, Host
  <2> HIDE DEF ExecHolds, ExecOK
  <2> QED BY <1>1, <2>1, <2>2
<1>11. CASE CommandExec(x) \/ CommandExit(x) \/ CommandKilled(x)
  <2>1. PICK st \in {"running", "zombie"} : ex' = [ex EXCEPT ![x].cmd = st]
    BY <1>11 DEF CommandExec, CommandExit, CommandKilled
  <2> DEFINE f == [e EXCEPT !.cmd = st]
  <2>2. ex' = [ex EXCEPT ![x] = f] /\ UNCHANGED vars /\ e.cmd # "none"
    BY <1>11, <1>0, <2>1 DEF CommandExec, CommandExit, CommandKilled
  <2>3. f \in ExecOK /\ ExecHolds(f)
    BY <1>0, <2>2
  <2> HIDE DEF f, ExecHolds, ExecOK
  <2> QED BY <1>1, <2>2, <2>3
<1>12. QED
  BY <1>2, <1>3, <1>4, <1>5, <1>6, <1>7, <1>8, <1>9, <1>10, <1>11 DEF ExecStep

\* The inductive step: exec moves, or the container does and keeps what exec
\* relies on.
LEMMA ExecInvNext ==
    TypeOK /\ SandboxInv /\ StatusInv /\ ExecInv /\ [ENext]_eVars => ExecInv'
<1> SUFFICES ASSUME TypeOK, SandboxInv, StatusInv, ExecInv, [ENext]_eVars PROVE ExecInv'
  OBVIOUS
<1>1. CASE UNCHANGED ex
  <2>1. [Next]_vars
    BY ExecIsBeside
  <2>2. \A s \in Shims : Started(s) => Started(s)'
    BY <2>1, StartedStable
  <2>3. ASSUME NEW x \in Execs PROVE ExecHolds(ex[x])'
    BY <1>1, <2>2 DEF ExecInv, ExecHolds, ExecOK
  <2> QED BY <1>1, <2>3 DEF ExecInv, ExecHolds
<1>2. ASSUME NEW x \in Execs,
             \/ ExecBegin(x) \/ ExecStep(x)
             \/ CommandExec(x) \/ CommandExit(x) \/ CommandKilled(x)
      PROVE  ExecInv'
  BY <1>2, ExecNext DEF TypeOK
<1>3. QED
  BY <1>1, <1>2 DEF ENext, eVars, Beside

\* exec() works with one started container from its read of state.json on.
THEOREM ExecInvariant == ESpec => []ExecInv
BY ExecInit, ExecInvNext, ContainerUnderExec, PTL DEF ESpec

\* A command of exec is in all four namespaces of one started container, for
\* any number of invocations, although the status was checked long before the
\* fork and the container may have ended or been deleted meanwhile.
THEOREM CommandAlwaysConfined == ESpec => []CommandConfined
<1>1. ExecInv => CommandConfined
  <2> SUFFICES ASSUME ExecInv, NEW x \in Execs, ex[x].cmd \in {"forked", "running"}
               PROVE  \E s \in Shims : /\ \A n \in Namespaces : ex[x].in[n] = s
                                       /\ OneCreate(s) => conns[s] > 0
                                       /\ Alive(s) => InSandbox(s)
    BY DEF CommandConfined, ExecInv
  <2>1. ex[x].pc = "wait" /\ ex[x].pid \in Shims \cup {NoPid}
    BY DEF ExecInv, ExecOK
  <2>2. ex[x].pid # NoPid /\ \A n \in Namespaces : ex[x].in[n] = ex[x].pid
    BY <2>1 DEF ExecInv, Entered
  <2>3. Started(ex[x].pid)
    BY <2>1, <2>2 DEF ExecInv, Entered
  <2> QED BY <2>1, <2>2, <2>3 DEF Started, Configured
<1>2. QED
  BY <1>1, ExecInvariant, PTL

\* Beside any number of exec invocations the promise of Lifecycle is kept,
\* although a command holds up the reaping of the program.
THEOREM LifecycleUnderExec == ESpec => ImplementsLifecycle
<1>1. EInit => L!Init
  BY DEF EInit, Init, L!Init, PhaseOf
<1>2. TypeOK /\ SandboxInv /\ AtMostOneRunning' /\ [ENext]_eVars
        => [L!Next]_<<phase, started>>
  BY ExecIsBeside, RefineNext
<1>3. QED
  BY <1>1, <1>2, OwnerIsAlone, ContainerUnderExec, PTL
     DEF ESpec, ImplementsLifecycle, L!Spec, phase, started
=============================================================================
