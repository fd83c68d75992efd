# clonebox in TLA+

This directory holds a TLA+ development of clonebox: specifications of the container lifecycle,
the daemon, exec, the network and the root file system translated from the Rust sources, TLC
configurations that check them on small instances, and TLAPS proofs that hold for every
instance. Paths such as `container.rs:237` are relative to the crate's `src/`; the exact lines
each definition translates are in `PROJECT.json` ("map").

## 1. The system

| Component | State it keeps | Operations | Talks to |
|---|---|---|---|
| `clonebox-core` container.rs | none in memory across calls; everything is in files and the kernel | create, start, kill, delete, pause, resume, state, exec | all below |
| state.rs | `/run/clonebox/<id>/state.json` (status, pid) | write_state_file, read_state_file, update_state | file system, no lock |
| runtime.rs | a pipe shared with the child, the listening `start.sk` | freeze/unfreeze, bind + accept, connect | child, start() |
| cgroup.rs | the cgroup directory, its limits, `cgroup.freeze` | create_cgroup, set_cgroup, init_resources | kernel |
| network.rs | a veth pair named after the id | create_network | kernel over netlink |
| namespace.rs | mounts of the child, `upper`/`work`/`merged` in the bundle | pre_pivot_mount ... do_default_mounts | runs in the child |
| clone3.rs | the arguments of one clone3 | builder, build | kernel |
| `clonebox-shim` | one process per create() | create(), then a last event when it failed | daemon over `event.sk` |
| event.rs (both crates) | connections under way | send_event; event_loop, update_status | shim -> daemon |
| `cloneboxd` daemon.rs, entry.rs | a mutex-protected map id -> (state, created_waiter, exit_waiter) | one gRPC handler per operation | core, shim |
| `cloneboxd` main.rs, recovery.rs | the map at start | recover, bind `event.sk`, serve | files, /proc |
| `clonebox-exec` | the namespaces it is in | exec: enter, fork, wait, leave | state.json, /proc, kernel |
| `clonebox` (CLI) | none | connects, then one RPC per command; exec runs `clonebox-exec` | daemon |

How they interact. The daemon's create handler inserts a map entry with a oneshot sender, spawns
a shim and parks. The shim runs create(): it makes the bundle, writes `creating`, makes the
cgroup, clones the child into it, configures the network from outside, sets the limits, sends
Created, writes `created`, binds `start.sk` and blocks in accept. The child mounts its root and
blocks reading the pipe. start() connects to `start.sk` and writes `running`; the shim writes
the byte and waits for the child, sends Stopped and writes `stopped`. Each event is a connection
of its own and the daemon handles it in a task of its own.

What is hard here. Every call is a sequence of system calls on shared files with no lock, made
by threads of the daemon, shims and children at once; state.json has several writers, each a
read-modify-write over a non-atomic `fs::write`; the state is kept twice (file and map) with
events as the only link; shims outlive the daemon, and either can die between any two steps; the
child is controlled by blocking reads only. The hazards are listed with their lines in
`PROJECT.json`.

What makes each part correct:

* lifecycle: a program never runs before a start, without limits or outside its own network; two
  creates of one id never both run; a pid is public only when its child is configured;
  state.json claims no start that was not delivered, and no end that has neither come nor is on
  its way; nothing freezes a container before its start;
* shim: a create() that ends, with an error or without, tells the daemon (one that panics does
  not); a start releases the child; the end of the program is reported;
* calls: they return, whatever the others do, but for a start beyond the backlog;
* daemon: the map claims no start and no end that is not true; create and wait are answered; the
  exit code is one of a child that ended; a crash harms no container; a shutdown ends, unless a
  handler is parked for good;
* exec: its command is in the namespaces of one started container; it returns, and does not hold
  up the report of the container's end;
* network: Ok means that the container's own pair is fully configured; nobody gets another's
  link; no reply is missed; the kernel reads what was meant;
* root: the host sees none of the child's mounts, the child nothing of the host's root.

## 2. Modules

### Container

One container id. `Shims` are the create() invocations, `Callers` the threads that make the
other calls; pid `s` is the child of shim `s`.

| Variable | In the code |
|---|---|
| `shim` | program counter of create() and of the shim's main |
| `child`, `code`, `killed` | the cloned process, how it ended, whether it has a SIGKILL pending |
| `pipe`, `conns` | the byte of unfreeze_child; connections made to start.sk |
| `bundle`, `file`, `fds`, `sock` | the directory, state.json, its open writers, the bound start.sk |
| `cgroup`, `cgfds`, `frozen` | the cgroup directory and limits, descriptors of it, the freezer |
| `veth` | the pair of this id, its owner, whether the peer was moved |
| `events`, `evOpen` | events sent and not handled; whether somebody listens |
| `call` | the library call of each caller: operation, step, the pid it read |

A step is one system call, or a group of calls between which no other actor of the model can
tell a difference. create() is `CheckExists` ... `WriteLog`, in the code's order; `Try` is the
`?` operator and leads to `ReportFailure`, the error branch of main. `PanicAtCut` is the one way
past it: the slice `&id[..9]` (network.rs:592) panics when the id has a character across its 9th
byte, and the shim ends without an event. `MayPanic` says whether the id may be such a one.
`OpenTruncate` and `WriteData` are the two halves of `fs::write`: between them readers find an
empty file, and the tail of a longer concurrent text makes the file unreadable (`Garbled`), for
which lengths of status and pid are kept. A writer whose file was unlinked changes nothing.
`rmdir` refuses a cgroup with a live process, clone3 refuses a removed cgroup, RTM_NEWLINK with
NLM_F_EXCL refuses a name that is taken, a veth pair goes with the namespace its peer is in. The
calls of start, kill, delete, pause and resume share their steps; `Needs`, `Effect` and `Result`
hold what differs. kill(2) returns before its target is dead: `KillSignal` leaves a signal in
`killed`, and `KillTakes`, a step of the kernel, ends the child some time later. In between
kill() writes `stopped`, and a delete may find the cgroup busy.

Abstractions: `remove_dir_all` is one step; so are mkdir + chmod + opening the log, bind + chmod +
listen, the two limits, and the netlink requests within each of the three network steps (no
other actor of this id touches these objects). The child's mounts are one step that may fail and
may make the bundle directory again. Pids are not reused. An event carries the shim it is from
for the properties' sake only; the daemon does not look at it.

### Lifecycle

The abstract specification: each create holds its program back until a start was delivered to
it, at most one program of an id runs, an ended program is not run again. `ImplementsLifecycle`
in Container is the refinement: `setup` and `blocked` are "held", `zombie` and `reaped` are
"ended", a connection to start.sk is the delivery of a start.

### Wiring

The other abstract specification, of what create() promises about the networks of a host: a name
is held by one veth pair at a time, the far end of a pair joins the container it was made for
and no other, create() goes on only with a container that has it, a create that gave up makes no
pair any more, and a pair that joined goes only once its container has ended. It has two
implementations. `ImplementsWiring` in Container maps its three network steps for the many
creates of one id, which all ask for the same name; shims that fail, or die after the network
was ready, are "failed" and leave their pair where it is. `ImplementsWiring` in Network maps
every rtnetlink request for many ids, which may share names. That both implement Wiring is what
says that the three steps of Container are a fair picture of the requests.

### Cloneboxd

Extends Container with the daemon: its phase (`daemon`), the map entry of the id (`entry`), the
create and wait RPCs (`rpc`), their oneshot channels (`chan`) and the exit codes received
(`exit`). An RPC of start, kill, delete, pause or resume is a caller of Container followed by
the update of the map (`RpcReturn`). `HandleEvent` takes any pending event, because every
connection has its own task. The daemon ends in two ways. `DaemonCrash` loses the map, the
handlers and the events nobody had read. `Shutdown` (ctrl_c) closes the server to new RPCs while
those under way and the event loop go on; `ShutdownDone` is main after
`serve_with_incoming_shutdown` returned. `Recover` is the scan, `Serve` the bind of `event.sk`,
and between the two the shims' events are refused. Recover reads the file and looks at /proc in
one step.

### Exec

Extends Container with `clonebox exec`: the CLI's connection, the status check, the log file,
the four setns one by one, fork, waitpid and the way back (`ex` holds step, pid read, namespaces
entered and the command). A namespace is named after the child it was cloned with. The kernel's
part: a process that ended has no namespaces to open, only its pid namespace can be found until
it is reaped; a pid namespace without init refuses a fork; the end of init kills the command;
and `Held`: a child is not reported to waitpid before the command in its pid namespace is
reaped, nor does the veth pair go while exec is in the network namespace. On the way back the
uts and net namespaces are those the process is in already (/proc/<own pid>/ns is itself), which
the model keeps.

### Network, RootFs, Setup

What Container has in four steps, request by request and mount by mount, for several containers
at once. `Network` is create_network(): `Request` sends one rtnetlink message, lets the kernel
carry it out, and receives the first reply in the socket's queue, whichever request it answers,
as recv_ack does; `CutPanics` is the panic of Container here, before the first request, and
counts as a create that failed. Names are functions of the id, so that equal prefixes can be
modelled; links are known by creator and end. `RootFs` is the child from make_child_private to
do_default_mounts; children with a bind mount share the tree "base" (root.path) and its put_old.
`Setup` lets child and supervisor of every container run side by side; a child that ends leaves
its network namespace to the kernel (`NetnsGone`) once the supervisor has closed its descriptor.

### Netlink, NetlinkReader

The same ten messages as bytes. `Netlink` is the Writer, a sequence that is appended to, patched
and flushed, and a run of create_network() that sends the ten messages one after the other from
one buffer; `Framed` states the lengths, the padding, the nesting and the limits of the names.
`NetlinkReader` is the reference for their contents: `Understood` is how the kernel splits a
message into header, fixed part and (nested) attributes, and `Meant` what each request is to
say. The parser is the only RECURSIVE operator of the project, and has a module of its own so
that the Writer can be proved about.

### Proofs and instances

The proofs are in modules of their own: `ContainerProofs` and, on top of it, `StatusProofs`
(state.json, its pid, the freezer), `LifecycleProofs` (the refinement), `CloneboxdProofs` and
`ExecProofs`; `NetworkProofs` and `RootFsProofs` are about Setup, `NetlinkProofs` about Netlink.
The MC modules are the instances for TLC. Callers are interchangeable, and so are shims, so
their permutations are symmetries in the safety runs that have several of them; runs with
liveness properties use none. (`ImplementsLifecycle` and `ImplementsWiring`, checked with the
symmetry of shims, are safety properties, and both abstract specifications are symmetric in
their creates.)

Definitions introduced by "Mutant:" are variants of the definition after them that a plausible
bug would produce; no specification uses them. They show that each property depends on the code
it is about.

## 3. Runs

| Run | Checks | Instance |
|---|---|---|
| racing_calls | TypeOK, Sandboxed, StatusTruthful, StatusInv, FrozenAfterStart | 1 shim, 2 callers, start/kill/force/pause, crashes, panic |
| racing_creates | AtMostOneRunning, PublishedPid, SandboxInv, ImplementsLifecycle, ImplementsWiring | 2 shims, 1 caller, start/kill/delete/force, failures |
| progress | CreateReports, StartReleases, ExitReported, CallsReturn, StoppedEnds | 1 shim, 2 callers (start, kill), failures, panic, backlog 0 |
| daemon_restart | DTypeOK, MapTruthful, ExitCodeTruthful | 1 shim, create, wait, 1 caller with all calls but resume, daemon crashes and restarts |
| daemon_progress | CreateAnswered, WaitAnswered, ShutdownEnds | 1 shim, create, wait, 1 caller (start), failures, panic, shutdown |
| exec | CommandConfined, ExecInv, ExecReturns, ExitReported | 1 shim, 1 caller with all calls, 1 exec that may be repeated |
| setup | OkMeansNetworked, LinksStayHome, AlwaysAnswered, HostMountsUntouched, OldRootGone, NetInv, RootInv, ImplementsWiring | 2 ids with equal names, with and without bind mounts, any call may fail, panic |
| netlink | MessageUnderstood, Framed | ids of 1 to 12 bytes, indices on both sides of 2^16, 2 descriptors |

The properties whose names end in `Inv` are the inductive invariants of section 4.

What they show. However calls interleave, with each other and with crashes, the program of a
container runs only after a start and inside its sandbox. The exists check of create() is not
atomic, but the kernel's refusal of a second veth pair of the name keeps a racing create from
ever running its program. state.json may be late, empty or unreadable, but while an id was
created once it does not claim a start that was not delivered, nor an end of a child that has
neither ended nor a SIGKILL pending. The second half of this is as much as the code does: kill()
writes `stopped` at once, so for a while the file says so of a child that lives, but that child
does end (`StoppedEnds`). A pause decides on a status it read long before it writes to
`cgroup.freeze`; it still reaches only containers whose start was delivered, so it never takes a
child from its supervisor that has not been let go.

The map of the daemon is written by calls that return late, by events in any order and by
recover(). It may lag behind the file, but it claims no start and no end that is not true. With
a panic at the cut the shim ends without a word: every create() and create RPC that does not
panic is answered, one that does is not. A graceful shutdown ends unless a handler is parked for
good: a wait on a container that goes on, or that came too late; a create whose shim panicked; a
start beyond the backlog.

exec reads the status once and uses it through five more steps. Its command still never runs in
a container that was not started or is not configured, since a pid is public only when its child
is configured; exec returns when the container ends under it, and then lets the supervisor's
waitpid return. Of two containers of equal names one is refused, and what the other was told is
true stays true: this rests on NLM_F_EXCL and on one acknowledgement per request. Children that
share put_old may make each other fail (`remove_dir` of the one meets the pivot of the other)
but none comes to its freeze with the host's root mounted.

Four runs expect a violation: each states what the documentation says and shows that the code
does otherwise (details and quotations under "findings").

| Run | Property | What happens |
|---|---|---|
| exit_recorded | ExitIsRecorded | a short program ends before start() writes `running` over `stopped`: the file says running, pid null, for good |
| kill_created | ExitIsReaped | kill before start leaves the shim in accept and the child a zombie |
| create_failed | CreateOkExists | the Stopped event of a failed create() makes the create RPC answer Ok |
| wait_stopped | WaitReturns | a wait after the Stopped event never returns |

Bounds. One shim suffices for what concerns one life of a container, two for everything a create
can do to another one (delete and re-creation included); two callers give every race of two
calls; one caller of each kind is enough for the daemon, whose entry is only touched under its
lock. `ExitCodes = {3}` tells a real code from 0, 1 and -1. `PidLen = 5` makes the JSON texts
differ in length as they do for real pids. `Backlog` is 1 in the code; `progress` uses 0 so that
two starts already compete for the queue, where 1 would need three; the proofs hold for every
value. A start that stays blocked as long as the container runs takes three starts past the
status check at once, and with the daemon around them this is more than the liveness checker
manages: `daemon_progress` has one caller, so `ShutdownEnds` names that exception
(`BlockedStart` in `Parked`) without meeting it, and `progress` is the run that meets blocked
starts. `daemon_restart` leaves out resume, whose steps are those of pause, for the size of the
run. Deadlock is not checked: a container may simply end, and a system without new calls stops.
A shim runs once, so an id is created at most twice in a run. In `setup` two ids with the same
first 9 bytes collide in both names, so the lookups by name can meet any link of the other. The
config without and the one with two bind mounts are the two ways through pre_pivot_mount, which
mounts only the first of them. The 12 lengths in `netlink` cover every padding of the two names
and both sides of the cut.

Fairness. Weak fairness of each step of a shim, of a child until its execve, of a call under
way, of a SIGKILL that is pending (the kernel ends a frozen or blocked process, too), of init
and of the kernel's cleanup of namespaces, and in the daemon of ready tasks, of `ShutdownDone`
and of `Serve`, and for exec of its steps, of its command until execve and of the kernel's
SIGKILL: the scheduler and the tokio runtime give no less. None is assumed of users, of the exit
of the program or of exec's command, of crashes, panics, failures or restarts. Four exceptions
are part of the properties since what they name may last: a start blocked by a full backlog
(`CallsReturn`), a frozen cgroup (`StartReleases`), a shim that panicked (`CreateReports`,
`CreateAnswered`) and a handler parked from some point on (`ShutdownEnds`).

## 4. Proofs

`ContainerProofs` (checked by tlapm, SMT and PTL) proves for all sets of shims and callers, all
subsets of calls, with failures and crashes allowed:

* `TypeCorrect`: Spec => []TypeOK;
* `SandboxInvariant`: Spec => []SandboxInv;
* `SandboxedAlways`, `OneRunning`, `PidsPublishedLate`: [] of Sandboxed, AtMostOneRunning,
  PublishedPid.

Assumptions: the named ASSUMEs of Container; the one the argument rests on is that the null pid
is not a shim (`NoPidAssumption`). TLC evaluates them in the runs.

The argument. `Sandboxed` alone is not inductive: a child that is blocked could be unfrozen by a
supervisor that has built nothing. `SandboxInv` says, for each supervisor, what is in place at
the step it is at as long as its child lives: from `move` on the veth pair is its own, after
`limits` the cgroup is limited, a byte in the pipe implies a connection and the full sandbox, a
live child implies the cgroup. It also says which pids may be public: a call may signal the pid
it read, so the invariant must cover pids in calls as well as in the file (`PublishedPid`). The
steps of other actors are the core of the proof: a second supervisor cannot take the veth pair
while it exists, a pair goes only when its child is dead, rmdir works only when nothing lives.
The lemmas treat the supervisor's steps (`SupervisorShim`), the child's and the kernel's
(`SupervisorChild`) and the calls' (`SupervisorCall`); `ConfiguredStable` and `KnownPid` give
the part about pids. `OneRunning` follows since two running children would both own the one veth
pair.

`LifecycleProofs` proves `LifecycleImplemented`: Spec => ImplementsLifecycle. Each action
changes the phase of at most one child or adds one connection (`RefineShim`, `RefineChild`,
`RefineCall`); that the execve of a child is a Release needs `SandboxInv` (the byte in the pipe
implies a connection) and `AtMostOneRunning` in the next state, which is why the theorem rests
on ContainerProofs.

It also proves `WiringImplemented`: Spec => ImplementsWiring. SandboxInv says where the pair is
only as long as the child lives, while Wiring also speaks of what a dead child leaves behind.
`WireInv` closes the gap: the owner of the pair has been past RTM_NEWLINK and has a child, and a
shim that configures the far end has it moved, dead child or not, since it holds a descriptor of
the namespace. A step is then a failure or outside create_network (`Aside`), one of its three
steps, the kernel's removal of the pair, or leaves shims and pair alone (`WireShim`,
`WireNext`).

`CloneboxdProofs` proves for all sets of create and wait RPCs, crashes, shutdowns and restarts
included:

* `SandboxedByDaemon`: DSpec => []Sandboxed. Every step of DNext is a step of Container, or
  handles an event, ends the process or starts to listen (`DaemonStep`), and the latter three
  keep TypeOK and SandboxInv (`CoreStep`);
* `DTypeCorrect`: []DTypeOK, for which the text that recover() reads and the events must be
  typed;
* `ExitCodesTrue`: []ExitCodeTruthful. `ExitInv` follows a code on its way: the shim sends
  Stopped only after the reaping, every Stopped event under way is true (`EventTrue`), every
  code sent to a wait is true, and wait answers Ok only with a code that was sent, since its
  sender is in the map until then (`SendersOpen`). `EndedStable` says that what was true of an
  ended child stays true;
* `StatusTruthfulByDaemon`: DSpec => []StatusTruthful, by the same argument on StatusInv, which
  CoreStep keeps, too;
* `MapAlwaysTruthful`: DSpec => []MapTruthful. The map has three writers. An event is true when
  it is handled, in whatever order (`EventTrue`). A call that returns found its facts when it
  wrote state.json, and they are not taken back (`ReturnBacked`, from StatusInv;
  `BackedStable`). recover() takes over the status of the file, but for two cases it calls
  stopped: a pid without a process, and `running` without a pid (`RecoveredBacked`). That the
  second guess is right rests on what a missing pid means: update_state keeps the pid it
  rereads, and only what follows an end or a SIGKILL clears it. This is `PidInv` of
  StatusProofs;
* `LifecycleByDaemon`: DSpec => ImplementsLifecycle. A step of DNext that is not one of
  Container changes neither a child nor a connection to start.sk, so it is a stutter of
  Lifecycle; the others are those of LifecycleProofs. The abstract specification is thus
  implemented by the whole system.

`StatusProofs` proves for all sets of shims and callers, failures and crashes included:

* `StatusInvariant` and `StatusAlwaysTruthful`: [] of StatusInv and StatusTruthful. A call
  checks the status and writes much later, so StatusTruthful says nothing of the writer that is
  about to write. `StatusInv` does: a call at a given step is of an operation that has this step
  (`CallForm`); one on its way to `running` or `paused` has a delivered start behind it, kill on
  its way to `stopped` a child that ended or has a SIGKILL pending (`CallBacked`, `Doomed`), and
  create() on its way to `stopped` one it has reaped. These facts cannot be taken back by
  another actor: connections only grow, a child that was signalled stays so, and an ended one
  stays ended (`StepMonotone`). They are stated for an id that was created once (`OneCreate`),
  because with a second create the file may speak of the other container;
* `FrozenOnlyAfterStart`: []FrozenAfterStart. A pause or resume past its status check has a
  delivered start behind it, however long ago the check was; this is in StatusInv, and
  connections only grow.

Its last section is about the pid in state.json, for MapAlwaysTruthful: `PidInv` says that a
status past `creating` goes with a pid until the end of the child is on record, for the file and
for what a call has reread, and that nobody connects before `created` was written.

`ExecProofs` proves ESpec => [] of ExecInv and CommandConfined (`ExecInvariant`,
`CommandAlwaysConfined`) for any number of exec invocations, and ESpec => ImplementsLifecycle
(`LifecycleUnderExec`). A step of ENext is one of Container or leaves it alone (`ExecIsBeside`),
so its invariants are there. A command can only be forked after four setns on a pid that was
read once; `ExecInv` says of each step that this pid belongs to a container that was started and
configured, and which namespaces of it were entered (`Entered`). That such a container stays so
is `StartedStable`; that the pid of a state.json that says running is one is `RunningPid`, which
rests on PublishedPid and StatusTruthful.

`NetworkProofs` proves for all sets of ids and all assignments of names, with any request
refused and any child ending at any moment, [] of NetInv (`NetInvariant`), OkMeansNetworked
(`OkAlwaysNetworked`), LinksStayHome (`LinksAlwaysHome`) and AlwaysAnswered (`NeverUnanswered`).
recv_ack takes the first reply in the queue for its own. `NetInv` therefore says that the queue
is empty between requests (`OneReply`: each request leaves exactly one reply), that names are
unique among the links in the host's namespace (`NamesUnique`; NLM_F_EXCL), and for each step of
create_network where the own pair is, which indexes are held and what is set already
(`PairInv`). A lookup by name then finds the own link, and a request of another container cannot
touch it (`OwnPair`, `OtherPair`, `Frame`).

It also proves `NetworkWired`: Spec => ImplementsWiring. NetInv alone does not do: it says
nothing of a pair after an error or after the end of the child, although its name stays taken,
which is what the guard of `Make` is about. `PairsWhole` says that the host end of a pair is in
the host's namespace as long as the peer is anywhere, so a name is free for RTM_NEWLINK exactly
when no pair of Wiring holds it (`PairSeen`). A request then leaves the namespaces alone, makes
the pair, moves its peer or is an error (`StepShape`), each an action of Wiring or a stutter
(`RefineNetwork`), and the kernel's removal of a namespace is a Lose (`RefineGone`).

`NetlinkProofs` proves `AlwaysFramed`: NLSpec => []Framed, for every id, index and descriptor.
The inductive part is `NLType`: the buffer is clear between two messages, the name that the cut
left has 1 to 9 bytes and no NUL, and the numbers fit in 32 bits. The rest is arithmetic on
sequences: what appending, patching and padding do to length and bytes (`Joined`, `Patched`,
`Padded`, `NestEnded`), and then one lemma per message.

`RootFsProofs` proves for all sets of children and mounts arrays [] of RootInv
(`RootInvariant`), HostMountsUntouched (`HostNeverMounted`) and OldRootGone
(`OldRootAlwaysGone`). `RootInv` adds that a child past make_child_private shares no mounts, and
that the old root is in a child's table only between pivot_root and umount2: the put_old
directory that children share may be gone or made by another, which makes a step fail, but not
succeed wrongly.

Further assumptions: in Netlink, that an id is not empty and has no NUL (`IdsAssumption`;
create() has made a directory of this name before) and that indices and descriptors fit in the
32 bits the code has for them (`NumbersAssumption`). In Setup and below, `NamesAssumption` and
`PeerAssumption` (every id has its two names, and they differ); `IdsAssumption` and
`TreesAssumption`, which keep the identifiers that stand for a container's namespace and file
tree apart from those of the host and of the base. They are conventions of the model and exclude
no container.

Only model-checked: the liveness properties (ENABLED and fairness are out of the prover's reach)
and MessageUnderstood: what the recursive parser returns needs induction over the message. All
the other properties of the passing runs are theorems.

## 5. Not modelled

* `Reader` in network.rs (86-170): no code uses it.
* error.rs, convert.rs, logger.rs: texts and the mapping of errors to gRPC codes, without state.
  That an operation fails is modelled, which error it names is not.
* The CLI beyond its connection and exec: one RPC and its printing per command.
* Mount options, the setters of the clone3 builder that create() does not use, cgroup controller
  names.
* Config parsing beyond its failure and the mounts array.
* iptables: `Masquerade` counts the rules, whose effect is the kernel's.
* Pid reuse; permissions; disk full in the middle of a write; several ids in Container and
  Cloneboxd, where entries, bundles and cgroups are independent.

Not claimed, since the code does not do it: that the map's state agrees with the file (it does
not when events are handled out of order, and state and list read the file that recovery does
not correct), that `frozen` agrees with `paused` (pause and resume may overlap, and a start that
rereads the file after a pause writes `running` over a frozen cgroup), that a reader always
finds a state.json that parses, that an id is free after delete --force (the child may make the
bundle again), that a wait holds until the exit (the failed duplicate create of a running id
wakes it with -1), that the create RPC of an id whose cut panics is ever answered, that
root.path stays unwritten when there is a bind mount, and that exec finds the pivoted root:
start writes `running` once it has connected, and a child still at its mounts then lets exec
into a mount namespace with the host's root.

Nor that a container has ended when state.json says `stopped`. The crate's README
(`src/README.md:172-174`) has create() update the state after waitpid(), and create() does; but
kill() writes `stopped` as soon as kill(2) has returned (container.rs:254-269). Until the signal
takes, the file says so of a child that lives, and a delete that follows at once may find its
cgroup busy and fail. What holds is StatusTruthful and StoppedEnds.

## 6. What could follow

* The other properties of Container under the daemon and beside exec (AtMostOneRunning,
  PublishedPid, Wiring): the steps the two add are stutters for them too.
* The contents of the messages beyond their framing, with a parser written as a function of the
  position, which a proof could follow message by message.
* The hazards without a property in `PROJECT.json`: each has a note that says what the model has
  of it and why nothing is claimed.
