------------------------------- MODULE Exec --------------------------------
(***************************************************************************)
(* clonebox exec: a process of its own (clonebox-exec) that reads          *)
(* state.json, enters the namespaces of the container one after the other, *)
(* forks the command there, waits for it and leaves again.  It takes no    *)
(* part in the protocol of Container: the container may be paused, end or  *)
(* be deleted between any two of its steps.                                *)
(*                                                                         *)
(* A namespace is named after the child that was cloned with it; NoPid is  *)
(* the host's.  The command is not in the container's cgroup, so a pause   *)
(* does not stop it.                                                       *)
(***************************************************************************)
EXTENDS Container

CONSTANT Execs    \* clonebox exec invocations, each of which may be repeated

VARIABLE ex       \* step, pid read, namespaces and command of each of them

eVars == <<vars, ex>>

Namespaces == {"uts", "pid", "net", "mnt"}
Host == [n \in Namespaces |-> NoPid]

\* Where exec() goes after each step that succeeds.
After == [connect |-> "read", read |-> "log", log |-> "uts", uts |-> "pid",
          pid |-> "net", net |-> "mnt", mnt |-> "fork", fork |-> "wait",
          wait |-> "leave", leave |-> "ok"]
ExecSteps == DOMAIN After \cup {"idle", "ok", "err"}

NotExec == [pc |-> "idle", pid |-> NoPid, in |-> Host, cmd |-> "none"]

EInit == Init /\ ex = [x \in Execs |-> NotExec]

\* The command has not been reaped.
InPidNs(x, s) == ex[x].cmd # "none" /\ ex[x].in["pid"] = s

-----------------------------------------------------------------------------
(* exec(), run by clonebox-exec for the CLI.                               *)

\* A step of exec(): an error ends it.
ExecTry(x, from, ok) ==
    /\ ex[x].pc = from
    /\ ex' = [ex EXCEPT ![x].pc = IF ok THEN After[from] ELSE "err"]

ExecBegin(x) ==
    /\ ex[x].pc = "idle"
    /\ ex' = [ex EXCEPT ![x].pc = "connect"]
    /\ UNCHANGED vars

\* The CLI connects to the daemon before it looks at the command.
Connect(x) == ExecTry(x, "connect", evOpen) /\ UNCHANGED vars

\* Mutant: any status will do.
ReadAnyState(x) ==
    /\ ex[x].pc = "read"
    /\ ex' = [ex EXCEPT ![x].pc = IF Readable THEN "log" ELSE "err",
                        ![x].pid = file.pid]
    /\ UNCHANGED vars

ReadState(x) ==
    LET ok == Readable /\ file.status = "running" IN
    /\ ex[x].pc = "read"
    /\ ex' = [ex EXCEPT ![x].pc = IF ok THEN "log" ELSE "err",
                        ![x].pid = IF ok THEN file.pid ELSE NoPid]
    /\ UNCHANGED vars

\* The log file of the bundle; after it the pid, if the state had one.
OpenLog(x) ==
    /\ ExecTry(x, "log", bundle /\ ex[x].pid # NoPid)
    /\ UNCHANGED vars

\* A process that has ended has no namespaces left to open, except that its
\* pid namespace can be found until it is reaped.
HasNamespace(p, n) == Alive(p) \/ (n = "pid" /\ child[p] = "zombie")

\* Mutant: the open is retried until it succeeds.
EnterRetried(x, n) ==
    /\ ex[x].pc = n
    /\ HasNamespace(ex[x].pid, n)
    /\ ex' = [ex EXCEPT ![x].pc = After[n], ![x].in[n] = ex[x].pid]
    /\ UNCHANGED vars

\* enter_namespace(): open /proc/<pid>/ns/<n> and setns.
EnterNamespace(x, n) ==
    LET ok == HasNamespace(ex[x].pid, n) IN
    /\ ex[x].pc = n
    /\ ex' = [ex EXCEPT ![x].pc = IF ok THEN After[n] ELSE "err",
                        ![x].in[n] = IF ok THEN ex[x].pid ELSE @]
    /\ UNCHANGED vars

\* fork() into the pid namespace, which refuses new processes once its init
\* is gone.
Fork(x) ==
    LET ok == Alive(ex[x].in["pid"]) IN
    /\ ex[x].pc = "fork"
    /\ ex' = [ex EXCEPT ![x].pc = IF ok THEN "wait" ELSE "err",
                        ![x].cmd = IF ok THEN "forked" ELSE "none"]
    /\ UNCHANGED vars

\* waitpid(); the status of the command is not looked at.
ExecWait(x) ==
    /\ ex[x].pc = "wait" /\ ex[x].cmd = "zombie"
    /\ ex' = [ex EXCEPT ![x].pc = "leave", ![x].cmd = "none"]
    /\ UNCHANGED vars

\* Back to the mount namespace that was opened at the start.  The others are
\* opened through /proc/<own pid>/ns: for uts and net that is where the
\* process is already, while the pid namespace of a process never changes.
Leave(x) ==
    /\ ex[x].pc = "leave"
    /\ ex' = [ex EXCEPT ![x].pc = "ok", ![x].in["mnt"] = NoPid, ![x].in["pid"] = NoPid]
    /\ UNCHANGED vars

\* clonebox-exec ends, and with it its hold on the namespaces.
ExecReturn(x) ==
    /\ ex[x].pc \in {"ok", "err"}
    /\ ex' = [ex EXCEPT ![x] = NotExec]
    /\ UNCHANGED vars

ExecStep(x) ==
    \/ Connect(x) \/ ReadState(x) \/ OpenLog(x)
    \/ \E n \in Namespaces : EnterNamespace(x, n)
    \/ Fork(x) \/ ExecWait(x) \/ Leave(x) \/ ExecReturn(x)

-----------------------------------------------------------------------------
(* The command and the kernel.                                             *)

\* execve, or _exit(1); then the command ends when it likes.
CommandExec(x) ==
    /\ ex[x].cmd = "forked"
    /\ \E st \in {"running", "zombie"} : ex' = [ex EXCEPT ![x].cmd = st]
    /\ UNCHANGED vars

CommandExit(x) ==
    /\ ex[x].cmd = "running"
    /\ ex' = [ex EXCEPT ![x].cmd = "zombie"]
    /\ UNCHANGED vars

\* The init of a pid namespace takes all its processes with it.
CommandKilled(x) ==
    /\ ex[x].cmd \in {"forked", "running"} /\ ~Alive(ex[x].in["pid"])
    /\ ex' = [ex EXCEPT ![x].cmd = "zombie"]
    /\ UNCHANGED vars

\* What exec() holds up.  A child is not reported to waitpid() before the
\* processes of its pid namespace are reaped, and its network namespace, with
\* the veth pair in it, stays while a process is in it.
Held ==
    \A x \in Execs, s \in Shims :
        /\ InPidNs(x, s) /\ child[s] = "zombie" => child'[s] = "zombie"
        /\ ex[x].in["net"] = s /\ veth.owner = s => veth'.owner = s

\* A step of Container beside the execs under way.
Beside(A) == A /\ Held /\ UNCHANGED ex

ENext ==
    \/ Beside(Next)
    \/ \E x \in Execs : \/ ExecBegin(x) \/ ExecStep(x)
                        \/ CommandExec(x) \/ CommandExit(x) \/ CommandKilled(x)

ESpec == EInit /\ [][ENext]_eVars

\* As in Container; clonebox-exec and a command until its execve are processes
\* like the others, and the kernel delivers its SIGKILL.  Nobody owes the end
\* of a command.
EFairness ==
    /\ \A s \in Shims : /\ WF_eVars(Beside(ShimStep(s)))
                        /\ WF_eVars(Beside(ChildSetup(s)))
                        /\ WF_eVars(Beside(ChildExec(s)))
                        /\ WF_eVars(Beside(KillTakes(s)))
                        /\ WF_eVars(Beside(VethGone(s)))
                        /\ WF_eVars(Beside(InitReaps(s)))
    /\ \A c \in Callers : WF_eVars(Beside(CallStep(c))) /\ WF_eVars(Beside(Return(c)))
    /\ \A x \in Execs : /\ WF_eVars(ExecStep(x))
                        /\ WF_eVars(CommandExec(x)) /\ WF_eVars(CommandKilled(x))

EFairSpec == ESpec /\ EFairness

-----------------------------------------------------------------------------
(* Properties.                                                             *)

ExecOK == [pc : ExecSteps, pid : Shims \cup {NoPid},
           in : [Namespaces -> Shims \cup {NoPid}],
           cmd : {"none", "forked", "running", "zombie"}]

\* A command that lives is in all four namespaces of one container; to it, if
\* the id was created once, a start was delivered, and as long as it lives its
\* limits and its network are in place, although the status exec checked, and
\* the pid it read with it, may be stale when it forks.
CommandConfined ==
    /\ ex \in [Execs -> ExecOK]
    /\ \A x \in Execs : ex[x].cmd \in {"forked", "running"} =>
          \E s \in Shims : /\ \A n \in Namespaces : ex[x].in[n] = s
                           /\ OneCreate(s) => conns[s] > 0
                           /\ Alive(s) => InSandbox(s)

\* The inductive invariant behind CommandConfined: the pid exec() works with
\* is that of a configured container that was started, the namespaces it has
\* entered so far are those of this pid, and it has a command only while it
\* waits for it.
Entered == [uts |-> {}, pid |-> {"uts"}, net |-> {"uts", "pid"},
            mnt |-> {"uts", "pid", "net"}, fork |-> Namespaces, wait |-> Namespaces]

Started(s) == Configured(s) /\ (OneCreate(s) => conns[s] > 0)

ExecInv ==
    /\ ex \in [Execs -> ExecOK]
    /\ \A x \in Execs :
          LET e == ex[x] IN
          /\ e.pc \in {"log"} \cup DOMAIN Entered /\ e.pid # NoPid => Started(e.pid)
          /\ e.pc \in DOMAIN Entered =>
                e.pid # NoPid /\ \A n \in Entered[e.pc] : e.in[n] = e.pid
          /\ e.cmd # "none" => e.pc = "wait"

\* exec returns, unless its command goes on running in a living container:
\* also when the container ends, is paused or is deleted under it.
ExecReturns ==
    \A x \in Execs :
        ex[x].pc # "idle" ~>
            \/ ex[x].pc = "idle"
            \/ ex[x].cmd = "running" /\ Alive(ex[x].in["pid"])
=============================================================================
