----------------------------- MODULE Container -----------------------------
(***************************************************************************)
(* One container id of clonebox-core: the supervisor processes (shims)     *)
(* that run create(), the child each of them clones, the files and kernel  *)
(* objects they share (/run/clonebox/<id>, state.json, start.sk, the       *)
(* cgroup directory, the veth pair) and the library calls start, kill,     *)
(* delete, pause and resume that other threads make on the same id.        *)
(*                                                                         *)
(* Nothing in the code locks these objects, so one action is one system    *)
(* call or one group of calls no other actor can tell apart.  A child is   *)
(* identified with the shim that cloned it: pid s is the child of shim s.  *)
(***************************************************************************)
EXTENDS Integers, FiniteSets

CONSTANTS
    Shims,      \* create() invocations available to this id
    Callers,    \* threads that call start, kill, delete, pause, resume
    Ops,        \* the calls they make, a subset of AllOps
    NoPid,      \* the null of Option<i32>, and "no shim"
    ExitCodes,  \* exit statuses the contained program may return
    PidLen,     \* decimal digits of a pid, as written to state.json
    Backlog,    \* listen backlog of start.sk
    MayFail,    \* whether a system call of create() may report an error
    MayCrash,   \* whether a shim may be killed from outside
    MayPanic    \* whether the id may have a character across its 9th byte

AllOps == {"start", "kill", "delete", "force", "pause", "resume"}
Status == {"creating", "created", "running", "stopped", "paused"}

ASSUME NoPidAssumption == NoPid \notin Shims
ASSUME OpsAssumption == Ops \subseteq AllOps
ASSUME CodesAssumption == ExitCodes \subseteq 0..255
ASSUME BoundsAssumption == PidLen \in Nat /\ Backlog \in Nat
ASSUME ModesAssumption == {MayFail, MayCrash, MayPanic} \subseteq BOOLEAN

VARIABLES
    shim,     \* program counter of create() and of the shim's main
    child,    \* life of the cloned process
    code,     \* how the child ended: an exit status or Signaled
    killed,   \* children that have a SIGKILL pending
    pipe,     \* the byte unfreeze_child() writes to the child is there
    conns,    \* connections ever made to the shim's listening start.sk
    bundle,   \* the directory /run/clonebox/<id> exists
    file,     \* content of state.json
    fds,      \* who has state.json open for writing, while it is linked
    sock,     \* the shim that bound start.sk, while the path is linked
    cgroup,   \* the cgroup directory: none, without limits, with limits
    cgfds,    \* shims whose open cgroup descriptor is the linked directory
    frozen,   \* cgroup.freeze
    veth,     \* the veth pair named after the id
    events,   \* events written to event.sk and not yet handled
    evOpen,   \* somebody listens on event.sk
    call      \* the library call each caller is in

fsVars == <<bundle, file, fds, sock>>
cgVars == <<cgroup, cgfds, frozen>>
childVars == <<child, code, killed, pipe>>
evVars == <<events, evOpen>>
vars == <<shim, childVars, conns, fsVars, cgVars, veth, evVars, call>>

Signaled == -9      \* WaitStatus::Signaled(_, SIGKILL, _)

Procs == Shims \cup Callers

-----------------------------------------------------------------------------
(* state.json.  The fields that never change are left out; len is what the *)
(* status and the pid add to the length of the JSON text.                  *)

StatusLen == [creating |-> 8, created |-> 7, running |-> 7,
              stopped |-> 7, paused |-> 6]

Doc(st, p) == [status |-> st, pid |-> p,
               len |-> StatusLen[st] + (IF p = NoPid THEN 4 ELSE PidLen)]

Absent == [status |-> "absent", pid |-> NoPid, len |-> 0]
Empty  == [status |-> "empty", pid |-> NoPid, len |-> 0]
Garbled(n) == [status |-> "garbled", pid |-> NoPid, len |-> n]

\* read_state_file() returns Ok: the file is there and parses.
Readable == file.status \in Status

\* fs::write opens with O_CREAT and O_TRUNC ...
OpenTruncate(p) ==
    /\ file' = Empty
    /\ fds' = fds \cup {p}

\* ... and writes at offset 0.  Bytes of a longer text that another writer
\* put there after the truncation stay behind it and the result does not
\* parse; a writer whose file was unlinked meanwhile changes nothing.
WriteData(p, doc) ==
    /\ file' = IF p \notin fds THEN file
               ELSE IF file.len > doc.len THEN Garbled(file.len)
               ELSE doc
    /\ fds' = fds \ {p}

-----------------------------------------------------------------------------
(* Processes and kernel objects.                                           *)

Alive(s) == child[s] \in {"setup", "blocked", "running"}
NoLiveChild == \A s \in Shims : ~Alive(s)

NoVeth == [owner |-> NoPid, moved |-> FALSE]

\* The listening socket is closed when create() returns.
ListeningSteps == {"accept", "unfreeze", "wait", "sayStopped", "readStopped",
                   "openStopped", "putStopped", "log"}
ShimGone == {"dead", "panicked"}
ShimOver == ShimGone \cup {"off", "done"}

ShimSteps == ListeningSteps \cup ShimOver \cup
    {"exists", "mkdir", "sayCreating", "openCreating", "putCreating",
     "cgroup", "clone", "veth", "move", "netcfg", "limits", "sayCreated",
     "readCreated", "openCreated", "putCreated", "bind", "fail"}

CallSteps == {"idle", "read", "connect", "signal", "freeze", "reread", "open",
              "put", "rmcgroup", "rmbundle", "ok", "err"}

UpdateSteps == {"connect", "signal", "freeze", "reread", "open", "put"}

Event(s, st, c) == [from |-> s, state |-> st, code |-> c]

Idle == [op |-> "none", pc |-> "idle", pid |-> NoPid]

Init ==
    /\ shim = [s \in Shims |-> "off"]
    /\ child = [s \in Shims |-> "none"]
    /\ code = [s \in Shims |-> 0]
    /\ killed = {}
    /\ pipe = [s \in Shims |-> FALSE]
    /\ conns = [s \in Shims |-> 0]
    /\ bundle = FALSE
    /\ file = Absent
    /\ fds = {}
    /\ sock = NoPid
    /\ cgroup = "none"
    /\ cgfds = {}
    /\ frozen = FALSE
    /\ veth = NoVeth
    /\ events = {}
    /\ evOpen = TRUE
    /\ call = [c \in Callers |-> Idle]

-----------------------------------------------------------------------------
(* create(), run by the main function of clonebox-shim.                    *)

\* A step of create(): an error goes to the error branch of the shim's main.
Try(s, from, ok, to) ==
    /\ shim[s] = from
    /\ shim' = [shim EXCEPT ![s] = IF ok THEN to ELSE "fail"]

Spawn(s) ==
    /\ shim[s] = "off"
    /\ shim' = [shim EXCEPT ![s] = "exists"]
    /\ UNCHANGED <<childVars, conns, fsVars, cgVars, veth, evVars, call>>

\* Config::load() reads and parses config.json, or fails.
ConfigLoads == IF MayFail THEN BOOLEAN ELSE {TRUE}

\* The bundle must not exist and the config must load.
CheckExists(s) ==
    /\ \E loaded \in ConfigLoads : Try(s, "exists", ~bundle /\ loaded, "mkdir")
    /\ UNCHANGED <<childVars, conns, fsVars, cgVars, veth, evVars, call>>

\* create_dir_all succeeds on a directory that exists already.
MakeBundle(s) ==
    /\ Try(s, "mkdir", TRUE, "sayCreating")
    /\ bundle' = TRUE
    /\ UNCHANGED <<childVars, conns, file, fds, sock, cgVars, veth, evVars, call>>

\* One connection per event; without a listener the connect fails.
SendEvent(s, from, e, to) ==
    /\ Try(s, from, evOpen, to)
    /\ events' = IF evOpen THEN events \cup {e} ELSE events
    /\ UNCHANGED <<childVars, conns, fsVars, cgVars, veth, evOpen, call>>

\* The code the event carries: 0 unless waitpid() returned Exited.
ReportedCode(s) == IF code[s] = Signaled THEN 0 ELSE code[s]

SayCreating(s) ==
    SendEvent(s, "sayCreating", Event(s, "creating", 0), "openCreating")
SayCreated(s) ==
    SendEvent(s, "sayCreated", Event(s, "created", 0), "readCreated")

\* Mutant: an event only for WaitStatus::Exited.
SayExited(s) ==
    IF code[s] = Signaled
    THEN /\ Try(s, "sayStopped", TRUE, "readStopped")
         /\ UNCHANGED <<childVars, conns, fsVars, cgVars, veth, evVars, call>>
    ELSE SendEvent(s, "sayStopped", Event(s, "stopped", code[s]), "readStopped")

SayStopped(s) ==
    SendEvent(s, "sayStopped", Event(s, "stopped", ReportedCode(s)), "readStopped")

\* write_state_file and update_state of create(), one system call at a time.
ShimRead(s, from, to) ==
    /\ Try(s, from, Readable, to)
    /\ UNCHANGED <<childVars, conns, fsVars, cgVars, veth, evVars, call>>

ShimOpen(s, from, to) ==
    /\ Try(s, from, bundle, to)
    /\ IF bundle THEN OpenTruncate(s) ELSE UNCHANGED <<file, fds>>
    /\ UNCHANGED <<childVars, conns, bundle, sock, cgVars, veth, evVars, call>>

ShimPut(s, from, doc, to) ==
    /\ Try(s, from, TRUE, to)
    /\ WriteData(s, doc)
    /\ UNCHANGED <<childVars, conns, bundle, sock, cgVars, veth, evVars, call>>

SaveState(s) ==
    \/ ShimOpen(s, "openCreating", "putCreating")
    \/ ShimPut(s, "putCreating", Doc("creating", NoPid), "cgroup")
    \/ ShimRead(s, "readCreated", "openCreated")
    \/ ShimOpen(s, "openCreated", "putCreated")
    \/ ShimPut(s, "putCreated", Doc("created", s), "bind")
    \/ ShimRead(s, "readStopped", "openStopped")
    \/ ShimOpen(s, "openStopped", "putStopped")
    \/ ShimPut(s, "putStopped", Doc("stopped", NoPid), "log")

\* create_cgroup() and init_resources(): the directory and a descriptor of it.
CreateCgroup(s) ==
    /\ Try(s, "cgroup", TRUE, "clone")
    /\ cgroup' = IF cgroup = "none" THEN "bare" ELSE cgroup
    /\ cgfds' = cgfds \cup {s}
    /\ UNCHANGED <<childVars, conns, fsVars, frozen, veth, evVars, call>>

\* clone3 with CLONE_INTO_CGROUP refuses the descriptor of a removed cgroup.
CanClone(s) == s \in cgfds

Clone(s) ==
    /\ Try(s, "clone", CanClone(s), "veth")
    /\ child' = [child EXCEPT ![s] = IF CanClone(s) THEN "setup" ELSE @]
    /\ UNCHANGED <<code, killed, pipe, conns, fsVars, cgVars, veth, evVars, call>>

\* Mutant: the request goes out without NLM_F_EXCL.
VethTaken == TRUE

\* RTM_NEWLINK with NLM_F_EXCL refuses a name that is taken.
VethFree == veth = NoVeth

\* Mutant: the answer of the kernel is not looked at.
CreateVethUnchecked(s) ==
    /\ Try(s, "veth", TRUE, "move")
    /\ veth' = IF Alive(s) /\ VethFree THEN [owner |-> s, moved |-> FALSE] ELSE veth
    /\ UNCHANGED <<childVars, conns, fsVars, cgVars, evVars, call>>

\* create_network(): the child's netns is opened, then the pair is created
\* in the host's netns.  A zombie has no namespaces left to open.
CreateVeth(s) ==
    /\ Try(s, "veth", Alive(s) /\ VethFree, "move")
    /\ veth' = IF Alive(s) /\ VethFree THEN [owner |-> s, moved |-> FALSE]
               ELSE veth
    /\ UNCHANGED <<childVars, conns, fsVars, cgVars, evVars, call>>

\* The host end is addressed and brought up, the peer moved to the child.
MoveVeth(s) ==
    /\ Try(s, "move", TRUE, "netcfg")
    /\ veth' = [owner |-> s, moved |-> TRUE]
    /\ UNCHANGED <<childVars, conns, fsVars, cgVars, evVars, call>>

\* Mutant: the limits are forgotten.
ConfigureNetOnly(s) ==
    /\ Try(s, "netcfg", TRUE, "sayCreated")
    /\ UNCHANGED <<childVars, conns, fsVars, cgVars, veth, evVars, call>>

\* Addresses, links and the route in the child's netns; NAT on the host.
ConfigureNet(s) ==
    /\ Try(s, "netcfg", TRUE, "limits")
    /\ UNCHANGED <<childVars, conns, fsVars, cgVars, veth, evVars, call>>

\* cpu.max and memory.max, written through the path of the cgroup.
SetLimits(s) ==
    /\ Try(s, "limits", cgroup # "none", "sayCreated")
    /\ cgroup' = IF cgroup = "none" THEN "none" ELSE "limited"
    /\ UNCHANGED <<childVars, conns, fsVars, cgfds, frozen, veth, evVars, call>>

\* parent_proc_socket(): bind, chmod and listen; a bound path stays bound.
BindSocket(s) ==
    LET ok == bundle /\ sock = NoPid IN
    /\ Try(s, "bind", ok, "accept")
    /\ sock' = IF ok THEN s ELSE sock
    /\ UNCHANGED <<childVars, conns, bundle, file, fds, cgVars, veth, evVars, call>>

\* Mutant: a socket that does not block.
NoConnectionNeeded(s) == TRUE

\* accept4 blocks until a start connects; the shim accepts once.
HasConnection(s) == conns[s] > 0

\* Mutant: the byte is not written to the pipe.
AcceptAndWait(s) ==
    /\ HasConnection(s)
    /\ Try(s, "accept", TRUE, "wait")
    /\ UNCHANGED <<childVars, conns, fsVars, cgVars, veth, evVars, call>>

Accept(s) ==
    /\ HasConnection(s)
    /\ Try(s, "accept", TRUE, "unfreeze")
    /\ UNCHANGED <<childVars, conns, fsVars, cgVars, veth, evVars, call>>

UnfreezeChild(s) ==
    /\ Try(s, "unfreeze", TRUE, "wait")
    /\ pipe' = [pipe EXCEPT ![s] = TRUE]
    /\ UNCHANGED <<child, code, killed, conns, fsVars, cgVars, veth, evVars, call>>

WaitPid(s) ==
    /\ child[s] = "zombie"
    /\ Try(s, "wait", TRUE, "sayStopped")
    /\ child' = [child EXCEPT ![s] = "reaped"]
    /\ UNCHANGED <<code, killed, pipe, conns, fsVars, cgVars, veth, evVars, call>>

WriteLog(s) ==
    /\ Try(s, "log", TRUE, "done")
    /\ UNCHANGED <<childVars, conns, fsVars, cgVars, veth, evVars, call>>

\* Mutant: the error is returned without an event.
FailSilently(s) ==
    /\ shim[s] = "fail"
    /\ shim' = [shim EXCEPT ![s] = "dead"]
    /\ UNCHANGED <<childVars, conns, fsVars, cgVars, veth, evVars, call>>

\* The error branch of main: a last event, unwrapped, and the process ends.
ReportFailure(s) ==
    /\ shim[s] = "fail"
    /\ shim' = [shim EXCEPT ![s] = "dead"]
    /\ events' = IF evOpen THEN events \cup {Event(s, "stopped", -1)} ELSE events
    /\ UNCHANGED <<childVars, conns, fsVars, cgVars, veth, evOpen, call>>

\* A system call before the accept returns an error for a reason outside the
\* model.
FallibleSteps == {"mkdir", "openCreating", "cgroup", "clone", "veth", "move",
                  "netcfg", "limits", "bind"}
StepFails(s) ==
    /\ MayFail
    /\ shim[s] \in FallibleSteps
    /\ shim' = [shim EXCEPT ![s] = "fail"]
    /\ UNCHANGED <<childVars, conns, fsVars, cgVars, veth, evVars, call>>

\* create_network() cuts the id at its 9th byte, once the child's netns is open.
\* When that byte lies inside a character the slice panics: main unwinds past
\* its error branch, and the process ends without an event.
PanicAtCut(s) ==
    /\ MayPanic
    /\ shim[s] = "veth" /\ Alive(s)
    /\ shim' = [shim EXCEPT ![s] = "panicked"]
    /\ UNCHANGED <<childVars, conns, fsVars, cgVars, veth, evVars, call>>

ShimStep(s) ==
    \/ CheckExists(s) \/ MakeBundle(s) \/ SayCreating(s) \/ SaveState(s)
    \/ CreateCgroup(s) \/ Clone(s) \/ CreateVeth(s) \/ MoveVeth(s)
    \/ ConfigureNet(s) \/ SetLimits(s) \/ SayCreated(s) \/ BindSocket(s)
    \/ Accept(s) \/ UnfreezeChild(s) \/ WaitPid(s) \/ SayStopped(s)
    \/ WriteLog(s) \/ ReportFailure(s)

-----------------------------------------------------------------------------
(* The child and the kernel.                                               *)

\* A child ends, and with it what it has not taken notice of.
ChildEnds(s, c) ==
    /\ child' = [child EXCEPT ![s] = "zombie"]
    /\ code' = [code EXCEPT ![s] = c]
    /\ killed' = killed \ {s}

\* The mounts and pivot_root.  The overlay directories are made below the
\* bundle with create_dir_all, which brings back a bundle that was removed;
\* with a bind mount in the config nothing is made there.
ChildSetup(s) ==
    /\ child[s] = "setup" /\ ~frozen
    /\ \/ child' = [child EXCEPT ![s] = "blocked"] /\ UNCHANGED <<code, killed>>
       \/ MayFail /\ ChildEnds(s, 1)
    /\ bundle' \in {bundle, TRUE}
    /\ UNCHANGED <<shim, pipe, conns, file, fds, sock, cgVars, veth, evVars, call>>

\* Mutant: the child closes its copy of the write end, and a read that
\* returns 0 bytes counts as the signal.
ReadOrEof(s) == pipe[s] \/ shim[s] \in ShimGone

\* freeze_child(): the read returns once the byte is in the pipe.  The child
\* holds the write end too, so the death of the shim is not an end of file.
CanRead(s) == pipe[s]

\* execve, or _exit(1) when it fails.
ChildExec(s) ==
    /\ child[s] = "blocked" /\ ~frozen /\ CanRead(s)
    /\ \/ child' = [child EXCEPT ![s] = "running"] /\ UNCHANGED <<code, killed>>
       \/ MayFail /\ ChildEnds(s, 1)
    /\ UNCHANGED <<shim, pipe, conns, fsVars, cgVars, veth, evVars, call>>

ChildExit(s) ==
    /\ child[s] = "running" /\ ~frozen
    /\ \E c \in ExitCodes : ChildEnds(s, c)
    /\ UNCHANGED <<shim, pipe, conns, fsVars, cgVars, veth, evVars, call>>

\* A SIGKILL takes some time after kill(2) has returned, until which the child
\* goes on; a frozen cgroup does not stop it.
KillTakes(s) ==
    /\ s \in killed /\ Alive(s)
    /\ ChildEnds(s, Signaled)
    /\ UNCHANGED <<shim, pipe, conns, fsVars, cgVars, veth, evVars, call>>

\* The netns of a dead child goes when nothing holds it, and the pair with
\* it.  A pair that was never moved stays in the host's netns.
VethGone(s) ==
    /\ veth = [owner |-> s, moved |-> TRUE]
    /\ ~Alive(s) /\ shim[s] # "netcfg"
    /\ veth' = NoVeth
    /\ UNCHANGED <<shim, childVars, conns, fsVars, cgVars, evVars, call>>

\* SIGKILL or a crash of the supervisor; the child is not told.
ShimCrash(s) ==
    /\ MayCrash
    /\ shim[s] \notin ShimOver
    /\ shim' = [shim EXCEPT ![s] = "dead"]
    /\ fds' = fds \ {s}
    /\ UNCHANGED <<childVars, conns, bundle, file, sock, cgVars, veth, evVars, call>>

\* The parent of an orphan is init, which reaps it.
InitReaps(s) ==
    /\ child[s] = "zombie" /\ shim[s] \in ShimGone
    /\ child' = [child EXCEPT ![s] = "reaped"]
    /\ UNCHANGED <<shim, code, killed, pipe, conns, fsVars, cgVars, veth, evVars, call>>

-----------------------------------------------------------------------------
(* start, kill, delete, pause and resume, by any number of threads.        *)

\* Mutant: pause lets a created container pass.
NeedsLess == [start |-> {"created"}, kill |-> {"created", "running"},
              pause |-> {"created", "running"}, resume |-> {"paused"},
              delete |-> {"stopped"}]

\* The status each operation insists on, its first step after that check,
\* and the status it leaves in state.json.
Needs == [start |-> {"created"}, kill |-> {"created", "running"},
          pause |-> {"running"}, resume |-> {"paused"}, delete |-> {"stopped"}]
Effect == [start |-> "connect", kill |-> "signal", pause |-> "freeze",
           resume |-> "freeze", delete |-> "rmcgroup"]
Result == [start |-> "running", kill |-> "stopped", pause |-> "paused",
           resume |-> "running"]

\* A step of a call: an error ends it.
Proceed(c, from, ok, to) ==
    /\ call[c].pc = from
    /\ call' = [call EXCEPT ![c].pc = IF ok THEN to ELSE "err"]

\* Mutant: a delete with force goes through the check of the status.
BeginChecked(c, op) ==
    /\ call[c].pc = "idle"
    /\ call' = [call EXCEPT ![c] = [op |-> op, pid |-> NoPid, pc |-> "read"]]
    /\ UNCHANGED <<shim, childVars, conns, fsVars, cgVars, veth, evVars>>

Begin(c, op) ==
    /\ call[c].pc = "idle"
    /\ call' = [call EXCEPT ![c] = [op |-> op, pid |-> NoPid,
                  pc |-> IF op = "force" THEN "rmcgroup" ELSE "read"]]
    /\ UNCHANGED <<shim, childVars, conns, fsVars, cgVars, veth, evVars>>

Return(c) ==
    /\ call[c].pc \in {"ok", "err"}
    /\ call' = [call EXCEPT ![c] = Idle]
    /\ UNCHANGED <<shim, childVars, conns, fsVars, cgVars, veth, evVars>>

\* read_state_file and the check of the status; kill also needs a pid.
Permitted(op) ==
    /\ Readable
    /\ file.status \in Needs[op]
    /\ op = "kill" => file.pid # NoPid

CallRead(c) ==
    /\ call[c].pc = "read"
    /\ LET op == call[c].op IN
       call' = [call EXCEPT ![c] = [op |-> op,
                  pc |-> IF Permitted(op) THEN Effect[op] ELSE "err",
                  pid |-> IF op = "kill" /\ Permitted(op) THEN file.pid ELSE NoPid]]
    /\ UNCHANGED <<shim, childVars, conns, fsVars, cgVars, veth, evVars>>

\* connect_create_process(): refused when nobody listens; blocked while more
\* than Backlog connections wait to be accepted.
Queued(s) == IF shim[s] = "accept" THEN conns[s] ELSE conns[s] - 1

\* Mutant: connect is retried until somebody listens.
ConnectRetried(c) ==
    LET listening == sock # NoPid /\ shim[sock] \in ListeningSteps IN
    /\ listening /\ Queued(sock) <= Backlog
    /\ Proceed(c, "connect", TRUE, "reread")
    /\ conns' = [conns EXCEPT ![sock] = @ + 1]
    /\ UNCHANGED <<shim, childVars, fsVars, cgVars, veth, evVars>>

StartConnect(c) ==
    LET listening == sock # NoPid /\ shim[sock] \in ListeningSteps IN
    /\ listening => Queued(sock) <= Backlog
    /\ Proceed(c, "connect", listening, "reread")
    /\ conns' = IF listening THEN [conns EXCEPT ![sock] = @ + 1] ELSE conns
    /\ UNCHANGED <<shim, childVars, fsVars, cgVars, veth, evVars>>

\* Mutant: the signal is not sent.
KillNobody(c) ==
    /\ Proceed(c, "signal", TRUE, "open")
    /\ UNCHANGED <<shim, childVars, conns, fsVars, cgVars, veth, evVars>>

\* SIGKILL to the pid that was read; ESRCH is not an error.  kill(2) does not
\* wait for the end of the process.
KillSignal(c) ==
    /\ Proceed(c, "signal", TRUE, "open")
    /\ killed' = killed \cup {s \in Shims : s = call[c].pid /\ Alive(s)}
    /\ UNCHANGED <<shim, child, code, pipe, conns, fsVars, cgVars, veth, evVars>>

CgroupFreeze(c) ==
    /\ Proceed(c, "freeze", cgroup # "none", "reread")
    /\ frozen' = IF cgroup = "none" THEN frozen ELSE call[c].op = "pause"
    /\ UNCHANGED <<shim, childVars, conns, fsVars, cgroup, cgfds, veth, evVars>>

\* update_state: the file is read again and its pid kept ...
CallReread(c) ==
    /\ call[c].pc = "reread"
    /\ call' = [call EXCEPT ![c] = [op |-> call[c].op,
                  pc |-> IF Readable THEN "open" ELSE "err",
                  pid |-> IF Readable THEN file.pid ELSE NoPid]]
    /\ UNCHANGED <<shim, childVars, conns, fsVars, cgVars, veth, evVars>>

\* ... and write_state_file writes it back with the new status.
CallOpen(c) ==
    /\ Proceed(c, "open", bundle, "put")
    /\ IF bundle THEN OpenTruncate(c) ELSE UNCHANGED <<file, fds>>
    /\ UNCHANGED <<shim, childVars, conns, bundle, sock, cgVars, veth, evVars>>

CallPut(c) ==
    LET op == call[c].op IN
    /\ Proceed(c, "put", TRUE, "ok")
    /\ WriteData(c, Doc(Result[op], IF op = "kill" THEN NoPid ELSE call[c].pid))
    /\ UNCHANGED <<shim, childVars, conns, bundle, sock, cgVars, veth, evVars>>

\* cleanup(): rmdir refuses a cgroup with a live process in it; a delete with
\* force goes on whatever fails.
CanRemoveCgroup == cgroup # "none" /\ NoLiveChild
RemoveCgroup(c) ==
    /\ Proceed(c, "rmcgroup", CanRemoveCgroup \/ call[c].op = "force", "rmbundle")
    /\ cgroup' = IF CanRemoveCgroup THEN "none" ELSE cgroup
    /\ cgfds' = IF CanRemoveCgroup THEN {} ELSE cgfds
    /\ frozen' = (frozen /\ ~CanRemoveCgroup)
    /\ UNCHANGED <<shim, childVars, conns, fsVars, veth, evVars>>

RemoveBundle(c) ==
    /\ Proceed(c, "rmbundle", bundle \/ call[c].op = "force", "ok")
    /\ bundle' = FALSE
    /\ file' = Absent
    /\ fds' = {}
    /\ sock' = NoPid
    /\ UNCHANGED <<shim, childVars, conns, cgVars, veth, evVars>>

CallStep(c) ==
    \/ CallRead(c) \/ StartConnect(c) \/ KillSignal(c) \/ CgroupFreeze(c)
    \/ CallReread(c) \/ CallOpen(c) \/ CallPut(c) \/ RemoveCgroup(c)
    \/ RemoveBundle(c)

-----------------------------------------------------------------------------
(* The daemon, as far as this module knows it: it listens on event.sk, or  *)
(* it is gone and with it the events nobody had read.                      *)

DaemonStops ==
    /\ MayCrash /\ evOpen
    /\ evOpen' = FALSE
    /\ events' = {}
    /\ UNCHANGED <<shim, childVars, conns, fsVars, cgVars, veth, call>>

DaemonListens ==
    /\ ~evOpen
    /\ evOpen' = TRUE
    /\ UNCHANGED <<shim, childVars, conns, fsVars, cgVars, veth, events, call>>

-----------------------------------------------------------------------------

ProcessStep ==
    \/ \E s \in Shims : \/ ShimStep(s) \/ StepFails(s) \/ PanicAtCut(s) \/ ShimCrash(s)
                        \/ ChildSetup(s) \/ ChildExec(s) \/ ChildExit(s)
                        \/ KillTakes(s) \/ VethGone(s) \/ InitReaps(s)
    \/ \E c \in Callers : CallStep(c)

Next ==
    \/ ProcessStep
    \/ \E s \in Shims : Spawn(s)
    \/ \E c \in Callers : Return(c) \/ \E op \in Ops : Begin(c, op)
    \/ DaemonStops
    \/ DaemonListens

Spec == Init /\ [][Next]_vars

\* Each process the scheduler keeps running takes its next step: a shim, a
\* child until its execve, a call, init; and a SIGKILL takes.  Nobody owes a
\* new call, an exit of the program, a crash, a failure or a panic.
Fairness ==
    /\ \A s \in Shims : /\ WF_vars(ShimStep(s))
                        /\ WF_vars(ChildSetup(s)) /\ WF_vars(ChildExec(s))
                        /\ WF_vars(KillTakes(s))
                        /\ WF_vars(VethGone(s)) /\ WF_vars(InitReaps(s))
    /\ \A c \in Callers : WF_vars(CallStep(c)) /\ WF_vars(Return(c))

FairSpec == Spec /\ Fairness

-----------------------------------------------------------------------------
(* Properties.                                                             *)

FileType == [status : Status \cup {"absent", "empty", "garbled"},
             pid : Shims \cup {NoPid}, len : Nat]
CallType == [op : AllOps \cup {"none"}, pc : CallSteps, pid : Shims \cup {NoPid}]
EventType == [from : Shims, state : Status, code : ExitCodes \cup {-1, 0, 1}]

ProcessesOK ==
    /\ shim \in [Shims -> ShimSteps]
    /\ child \in [Shims -> {"none", "setup", "blocked", "running", "zombie", "reaped"}]
    /\ code \in [Shims -> ExitCodes \cup {0, 1, Signaled}]
    /\ killed \subseteq Shims
    /\ pipe \in [Shims -> BOOLEAN]
    /\ conns \in [Shims -> Nat]

FilesOK ==
    /\ bundle \in BOOLEAN
    /\ file \in FileType
    /\ fds \subseteq Procs
    /\ sock \in Shims \cup {NoPid}

KernelOK ==
    /\ cgroup \in {"none", "bare", "limited"}
    /\ cgfds \subseteq Shims
    /\ frozen \in BOOLEAN
    /\ veth \in [owner : Shims \cup {NoPid}, moved : BOOLEAN]

EventsOK == events \subseteq EventType /\ evOpen \in BOOLEAN

CallsOK ==
    /\ call \in [Callers -> CallType]
    /\ \A c \in Callers :
          /\ call[c].pc = "read" => call[c].op \in DOMAIN Needs
          /\ call[c].pc \in UpdateSteps => call[c].op \in DOMAIN Result

\* The type of every variable; a call that goes on to update state.json is
\* one of those that have a status to write.
TypeOK == ProcessesOK /\ FilesOK /\ KernelOK /\ EventsOK /\ CallsOK

Running(s) == child[s] = "running"
InSandbox(s) == cgroup = "limited" /\ veth = [owner |-> s, moved |-> TRUE]

\* No program runs outside its sandbox: when a child has passed its execve,
\* a start connected to its supervisor, the cgroup has its limits and the veth
\* pair is in the child's netns, whatever else was done to the id meanwhile.
Sandboxed ==
    \A s \in Shims : Running(s) => conns[s] > 0 /\ InSandbox(s)

\* Creates that race past the exists check of create() never end in two
\* running containers of one id.
AtMostOneRunning ==
    \A s, t \in Shims : Running(s) /\ Running(t) => s = t

Configured(s) == child[s] # "none" /\ (Alive(s) => InSandbox(s))

\* A pid that state.json names, or that a call has read from it and is about
\* to signal or write back, is the pid of a child whose limits and network
\* were in place before the pid was published.
PublishedPid ==
    \A s \in Shims :
        file.pid = s \/ (\E c \in Callers : call[c].pid = s) => Configured(s)

\* The life of each program as Lifecycle sees it.
PhaseOf == [none |-> "none", setup |-> "held", blocked |-> "held",
            running |-> "running", zombie |-> "ended", reaped |-> "ended"]

L == INSTANCE Lifecycle WITH
        Creates <- Shims,
        phase   <- [s \in Shims |-> PhaseOf[child[s]]],
        started <- {s \in Shims : conns[s] > 0}

\* Container implements Lifecycle: through every race of create(), start, kill
\* and delete, a program is let go only after a start, alone, and once.
ImplementsLifecycle == L!Spec

\* The veth pair of the id, and what has become of each create, as Wiring sees
\* them: all creates of an id ask for the same name.
NetSteps == {"veth", "move", "netcfg"}
BeforeClone == {"off", "exists", "mkdir", "sayCreating", "openCreating",
                "putCreating", "cgroup", "clone"}
StageOf(s) == IF shim[s] \in {"fail"} \cup ShimGone THEN "failed"
              ELSE IF shim[s] \in BeforeClone \cup NetSteps THEN "work" ELSE "ready"
PairOf(s) == IF veth.owner = s THEN (IF veth.moved THEN "joined" ELSE "made")
             ELSE IF StageOf(s) = "work" THEN "none" ELSE "gone"

W == INSTANCE Wiring WITH
        Creates <- Shims,
        NameOf  <- [s \in Shims |-> "id"],
        pair    <- [s \in Shims |-> PairOf(s)],
        stage   <- [s \in Shims |-> StageOf(s)],
        living  <- {s \in Shims : child[s] \notin {"zombie", "reaped"}}

\* Container implements Wiring, as Network does in detail: of the creates of an
\* id that race past the exists check one has the pair, and it keeps it until
\* its child has ended, also when the shim fails or dies.
ImplementsWiring == W!Spec

\* The inductive invariant behind Sandboxed, AtMostOneRunning and
\* PublishedPid: what create() has built when it is at a given step, as long
\* as the child lives.
BeforeVeth == BeforeClone \cup {"veth", "fail"} \cup ShimGone
AfterLimits == ShimSteps \ (BeforeVeth \cup {"move", "netcfg", "limits"})

SupervisorInv(s) ==
    /\ shim[s] \in BeforeClone => child[s] = "none" /\ ~pipe[s]
    /\ child[s] = "none" => shim[s] \in BeforeClone \cup {"fail"} \cup ShimGone
    /\ shim[s] = "move" => veth = [owner |-> s, moved |-> FALSE]
    /\ shim[s] \in {"netcfg", "limits"} /\ Alive(s)
         => veth = [owner |-> s, moved |-> TRUE]
    /\ (shim[s] \in AfterLimits \/ pipe[s]) /\ Alive(s) => InSandbox(s)
    /\ (shim[s] = "unfreeze" \/ pipe[s]) => conns[s] > 0
    /\ Running(s) => pipe[s]
    /\ Alive(s) => cgroup # "none"

SandboxInv ==
    /\ cgroup = "none" => cgfds = {}
    /\ \A s \in Shims : SupervisorInv(s)
    /\ PublishedPid

OneCreate(s) == \A t \in Shims \ {s} : shim[t] = "off"

Ended(s) == child[s] \in {"zombie", "reaped"}

\* The child has ended, or has a SIGKILL that will end it.
Doomed(s) == Ended(s) \/ s \in killed

\* While an id has been created once, state.json never claims a start that
\* was not delivered to the supervisor, nor an end that neither has come nor
\* is on its way: kill() writes stopped after the signal, not after the end.
StatusTruthful ==
    \A s \in Shims : OneCreate(s) =>
        /\ file.status \in {"running", "paused"} => conns[s] > 0
        /\ file.status = "stopped" => Doomed(s)

\* The inductive invariant behind StatusTruthful: the step a call is at is one
\* of its operation; a call about to write running or paused has a delivered
\* start behind it, one about to write stopped a child that ended or was
\* signalled; and create() on its way to stopped has reaped the child.
StoppedSteps == {"sayStopped", "readStopped", "openStopped", "putStopped"}

CallForm(k) ==
    /\ k.pc = "connect" => k.op = "start"
    /\ k.pc = "signal" => k.op = "kill" /\ k.pid # NoPid
    /\ k.pc = "freeze" => k.op \in {"pause", "resume"}
    /\ k.pc = "reread" => k.op # "kill"
    /\ k.pc \in {"rmcgroup", "rmbundle"} => k.op \in {"delete", "force"}

CallBacked(k, s) ==
    /\ k.op = "start" /\ k.pc \in {"reread", "open", "put", "ok"} => conns[s] > 0
    /\ k.op \in {"pause", "resume"} /\ k.pc \in {"freeze", "reread", "open", "put", "ok"}
         => conns[s] > 0
    /\ k.op = "kill" /\ k.pc \in {"open", "put", "ok"} => Doomed(s)

StatusInv ==
    /\ \A c \in Callers : CallForm(call[c])
    /\ \A s \in Shims : OneCreate(s) =>
          /\ \A c \in Callers : CallBacked(call[c], s)
          /\ shim[s] \in StoppedSteps => Ended(s)
    /\ StatusTruthful

\* While an id has been created once its cgroup is frozen only after a start
\* was delivered: however long ago a pause has read the status, it never stops
\* a child on the way to its freeze, for which a start would wait in vain.
FrozenAfterStart ==
    \A s \in Shims : OneCreate(s) /\ frozen => conns[s] > 0

\* create(), waitpid() and the update of state.json are over, no call is under
\* way: the exit is on record, unless the container was deleted.
ExitIsRecorded ==
    \A s \in Shims :
        OneCreate(s) /\ shim[s] = "done" /\ (\A c \in Callers : call[c] = Idle)
            => file.status \in {"stopped", "absent"}

Reported(s, st) == \E e \in events : e.from = s /\ e.state = st

\* Every create() tells the daemon how it ended, Created or Stopped, unless it
\* panics where the id is cut, which no error branch sees.
CreateReports ==
    \A s \in Shims :
        shim[s] = "exists" ~> \/ Reported(s, "created") \/ Reported(s, "stopped")
                             \/ shim[s] = "panicked"

\* A container that state.json calls stopped does end, also when it was killed
\* before its start, or while it was frozen.
StoppedEnds ==
    \A s \in Shims : OneCreate(s) /\ file.status = "stopped" ~> Ended(s)

\* A start that connected lets the child go, unless the cgroup is frozen.
StartReleases ==
    \A s \in Shims :
        conns[s] > 0 ~> child[s] \notin {"setup", "blocked"} \/ frozen

\* The end of a child that was started is reported to the daemon.
ExitReported ==
    \A s \in Shims :
        conns[s] > 0 /\ child[s] = "zombie" ~> Reported(s, "stopped")

\* connect() waits for a place in the backlog of a supervisor that listens.
BlockedStart(c) ==
    /\ call[c].pc = "connect" /\ sock # NoPid
    /\ shim[sock] \in ListeningSteps /\ Queued(sock) > Backlog

\* A call returns, unless it waits in connect() for a place in the backlog.
CallsReturn ==
    \A c \in Callers :
        call[c].pc # "idle" ~> call[c].pc = "idle" \/ BlockedStart(c)

\* waitpid() in the supervisor returns for every child that ended.
ExitIsReaped == \A s \in Shims : child[s] = "zombie" ~> child[s] = "reaped"

=============================================================================
