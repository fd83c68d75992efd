----------------------------- MODULE Cloneboxd -----------------------------
(***************************************************************************)
(* The daemon, seen from one container id: its entry of the containers     *)
(* map, the gRPC handlers that run as concurrent tasks, the tasks that     *)
(* handle the shims' events in whatever order they get the lock, and the   *)
(* recovery scan of a daemon that starts again after a crash or a          *)
(* shutdown.  The handlers of start, kill, delete, pause and resume run    *)
(* the calls of Container; those of create and wait park on a oneshot      *)
(* channel.                                                                *)
(***************************************************************************)
EXTENDS Container

CONSTANTS
    Creators,   \* create RPCs
    Waiters,    \* wait RPCs
    Ends,       \* how the daemon may end
    MayRestart  \* whether it is started again

ASSUME EndsAssumption == Ends \subseteq {"crash", "ctrl_c"}
ASSUME RestartAssumption == MayRestart \in BOOLEAN
ASSUME ClientsAssumption == Creators \cap Waiters = {}

VARIABLES
    daemon,   \* down, recovered (event.sk not yet bound), up or closing
    entry,    \* the ContainerEntry of the id
    rpc,      \* where each create and wait RPC is
    chan,     \* the oneshot channel of each of them
    exit      \* the exit code a wait RPC was sent

dVars == <<daemon, entry, rpc, chan, exit>>
allVars == <<vars, dVars>>

Clients == Creators \cup Waiters

\* created_waiter is an Option: a set of at most one sender.
NoEntry == [state |-> "absent", created |-> {}, waiters |-> {}]
Present == entry # NoEntry

DInit ==
    /\ Init
    /\ daemon = "up"
    /\ entry = NoEntry
    /\ rpc = [k \in Clients |-> "idle"]
    /\ chan = [k \in Clients |-> "none"]
    /\ exit = [w \in Waiters |-> 0]

\* What becomes of the channels of the senders in S.
Settle(S, how) == [k \in Clients |-> IF k \in S THEN how ELSE chan[k]]

-----------------------------------------------------------------------------
(* create and wait.                                                        *)

\* entry().or_insert(): an entry that exists is kept and the new sender is
\* dropped with the entry it came in.
CreateInsert(k) ==
    /\ daemon = "up" /\ rpc[k] = "idle"
    /\ entry' = IF Present THEN entry
                ELSE [state |-> "creating", created |-> {k}, waiters |-> {}]
    /\ chan' = Settle({k}, IF Present THEN "dropped" ELSE "open")
    /\ rpc' = [rpc EXCEPT ![k] = "spawn"]
    /\ UNCHANGED <<vars, daemon, exit>>

\* The shim is spawned whether or not the entry was new.
CreateSpawn(k) ==
    /\ rpc[k] = "spawn"
    /\ \/ /\ \E s \in Shims : Spawn(s)
          /\ rpc' = [rpc EXCEPT ![k] = "await"]
       \/ /\ MayFail
          /\ rpc' = [rpc EXCEPT ![k] = "err"]
          /\ UNCHANGED vars
    /\ UNCHANGED <<daemon, entry, chan, exit>>

WaitRegister(w) ==
    /\ daemon = "up" /\ rpc[w] = "idle"
    /\ \/ /\ Present
          /\ entry' = [entry EXCEPT !.waiters = @ \cup {w}]
          /\ chan' = Settle({w}, "open")
          /\ rpc' = [rpc EXCEPT ![w] = "await"]
       \/ /\ ~Present
          /\ rpc' = [rpc EXCEPT ![w] = "err"]
          /\ UNCHANGED <<entry, chan>>
    /\ UNCHANGED <<vars, daemon, exit>>

\* The await ends when the sender was used or dropped.
Reply(k) ==
    /\ rpc[k] = "await" /\ chan[k] \in {"fired", "dropped"}
    /\ rpc' = [rpc EXCEPT ![k] = IF chan[k] = "fired" THEN "ok" ELSE "err"]
    /\ UNCHANGED <<vars, daemon, entry, chan, exit>>

-----------------------------------------------------------------------------
(* Events.                                                                 *)

\* Mutant: only Created wakes the create RPC.
WokenOnCreated(e) ==
    (IF e.state = "created" THEN entry.created ELSE {}) \cup
    (IF e.state = "stopped" THEN entry.waiters ELSE {})

\* Whoever waits for Created is told, whatever the event is, unless it is
\* Creating; whoever waits for the exit is told on Stopped.
Woken(e) ==
    (IF e.state # "creating" THEN entry.created ELSE {}) \cup
    (IF e.state = "stopped" THEN entry.waiters ELSE {})

\* Mutant: the code of the event is lost.
NotifyNoCode(e) ==
    /\ entry' = [state |-> e.state, created |-> entry.created \ Woken(e),
                 waiters |-> entry.waiters \ Woken(e)]
    /\ chan' = Settle(Woken(e), "fired")
    /\ UNCHANGED exit

\* update_status() on an entry that is there.
Notify(e) ==
    /\ entry' = [state |-> e.state, created |-> entry.created \ Woken(e),
                 waiters |-> entry.waiters \ Woken(e)]
    /\ chan' = Settle(Woken(e), "fired")
    /\ exit' = [w \in Waiters |-> IF w \in Woken(e) THEN e.code ELSE exit[w]]

\* Mutant: the event loop ends with the server.
HandleEventUp(e) ==
    /\ daemon = "up" /\ e \in events
    /\ events' = events \ {e}
    /\ IF Present THEN Notify(e) ELSE UNCHANGED <<entry, chan, exit>>
    /\ UNCHANGED <<shim, childVars, conns, fsVars, cgVars, veth, evOpen, call,
                   daemon, rpc>>

\* One task per connection: the events of one shim may be handled out of
\* order.  Without an entry the event is dropped.  The event loop goes on
\* while the server shuts down.
HandleEvent(e) ==
    /\ daemon \in {"up", "closing"} /\ e \in events
    /\ events' = events \ {e}
    /\ IF Present THEN Notify(e) ELSE UNCHANGED <<entry, chan, exit>>
    /\ UNCHANGED <<shim, childVars, conns, fsVars, cgVars, veth, evOpen, call,
                   daemon, rpc>>

-----------------------------------------------------------------------------
(* start, kill, delete, pause and resume: the call, then the map.          *)

RpcBegin(c, op) ==
    /\ daemon = "up"
    /\ Begin(c, op)
    /\ UNCHANGED dVars

MapStatus == Result

\* delete removes the entry only if the map says Stopped, and the senders in
\* it are dropped.
MapUpdate(op) ==
    IF op \in DOMAIN MapStatus THEN
        /\ entry' = IF Present THEN [entry EXCEPT !.state = MapStatus[op]] ELSE entry
        /\ UNCHANGED chan
    ELSE IF entry.state = "stopped" THEN
        /\ entry' = NoEntry
        /\ chan' = Settle(entry.created \cup entry.waiters, "dropped")
    ELSE UNCHANGED <<entry, chan>>

RpcReturn(c) ==
    /\ Return(c)
    /\ IF call[c].pc = "ok" THEN MapUpdate(call[c].op) ELSE UNCHANGED <<entry, chan>>
    /\ UNCHANGED <<daemon, rpc, exit>>

-----------------------------------------------------------------------------
(* Crash, shutdown and recovery.                                           *)

\* The process is gone: the map, the handlers wherever they are, and the
\* events it had not read.
ProcessEnds ==
    /\ daemon' = "down"
    /\ entry' = NoEntry
    /\ rpc' = [k \in Clients |-> IF rpc[k] \in {"spawn", "await"} THEN "lost" ELSE rpc[k]]
    /\ chan' = Settle({k \in Clients : chan[k] = "open"}, "dropped")
    /\ events' = {}
    /\ evOpen' = FALSE
    /\ call' = [c \in Callers |-> Idle]
    /\ fds' = fds \ Callers
    /\ UNCHANGED <<shim, childVars, conns, bundle, file, sock, cgVars, veth, exit>>

DaemonCrash ==
    /\ "crash" \in Ends /\ daemon # "down"
    /\ ProcessEnds

\* After ctrl_c the server takes no new RPC ...
Shutdown ==
    /\ "ctrl_c" \in Ends /\ daemon = "up"
    /\ daemon' = "closing"
    /\ UNCHANGED <<vars, entry, rpc, chan, exit>>

\* ... and main goes on when those under way have been answered.
UnderWay == {k \in Clients : rpc[k] \in {"spawn", "await"}}
ShutdownDone ==
    /\ daemon = "closing"
    /\ UnderWay = {} /\ \A c \in Callers : call[c] = Idle
    /\ ProcessEnds

\* /proc/<pid> is there until the process has been reaped.
ProcExists(p) == child[p] # "reaped"

\* Mutant: the check of /proc is the wrong way round.
RecoveredInverted ==
    IF file.pid # NoPid
    THEN IF ProcExists(file.pid) THEN "stopped" ELSE file.status
    ELSE IF file.status = "running" THEN "stopped" ELSE file.status

\* What recover() makes of a state file it can read.
RecoveredState ==
    IF file.pid # NoPid
    THEN IF ProcExists(file.pid) THEN file.status ELSE "stopped"
    ELSE IF file.status = "running" THEN "stopped" ELSE file.status

\* Mutant: the text of state.json is not checked.
RecoverUnparsed ==
    /\ MayRestart /\ daemon = "down"
    /\ daemon' = "recovered"
    /\ entry' = [state |-> RecoveredState, created |-> {}, waiters |-> {}]
    /\ UNCHANGED <<vars, rpc, chan, exit>>

\* The scan of /run/clonebox, before anything can be served.
Recover ==
    /\ MayRestart /\ daemon = "down"
    /\ daemon' = "recovered"
    /\ entry' = IF bundle /\ Readable
                THEN [state |-> RecoveredState, created |-> {}, waiters |-> {}]
                ELSE NoEntry
    /\ UNCHANGED <<vars, rpc, chan, exit>>

\* event.sk is bound, then the server runs.
Serve ==
    /\ daemon = "recovered"
    /\ daemon' = "up"
    /\ evOpen' = TRUE
    /\ UNCHANGED <<shim, childVars, conns, fsVars, cgVars, veth, events, call,
                   entry, rpc, chan, exit>>

-----------------------------------------------------------------------------

DNext ==
    \/ ProcessStep /\ UNCHANGED dVars
    \/ \E k \in Creators : CreateInsert(k) \/ CreateSpawn(k)
    \/ \E w \in Waiters : WaitRegister(w)
    \/ \E k \in Clients : Reply(k)
    \/ \E e \in events : HandleEvent(e)
    \/ \E c \in Callers : RpcReturn(c) \/ \E op \in Ops : RpcBegin(c, op)
    \/ DaemonCrash \/ Shutdown \/ ShutdownDone \/ Recover \/ Serve

DSpec == DInit /\ [][DNext]_allVars

\* As in Container; the runtime polls every task that is ready, and a daemon
\* that was started again gets through its recovery.
DFairness ==
    /\ \A s \in Shims : /\ WF_allVars(ShimStep(s) /\ UNCHANGED dVars)
                        /\ WF_allVars(ChildSetup(s) /\ UNCHANGED dVars)
                        /\ WF_allVars(ChildExec(s) /\ UNCHANGED dVars)
                        /\ WF_allVars(KillTakes(s) /\ UNCHANGED dVars)
                        /\ WF_allVars(VethGone(s) /\ UNCHANGED dVars)
                        /\ WF_allVars(InitReaps(s) /\ UNCHANGED dVars)
    /\ \A c \in Callers : /\ WF_allVars(CallStep(c) /\ UNCHANGED dVars)
                          /\ WF_allVars(RpcReturn(c))
    /\ \A k \in Clients : WF_allVars(Reply(k))
    /\ \A k \in Creators : WF_allVars(CreateSpawn(k))
    /\ WF_allVars(\E e \in events : HandleEvent(e))
    /\ WF_allVars(ShutdownDone)
    /\ WF_allVars(Serve)

DFairSpec == DSpec /\ DFairness

-----------------------------------------------------------------------------
(* Properties.                                                             *)

\* The types of the daemon's variables.
DTypeOK ==
    /\ daemon \in {"down", "recovered", "up", "closing"}
    /\ entry \in [state : Status \cup {"absent"}, created : SUBSET Creators,
                  waiters : SUBSET Waiters]
    /\ rpc \in [Clients -> {"idle", "spawn", "await", "ok", "err", "lost"}]
    /\ chan \in [Clients -> {"none", "open", "fired", "dropped"}]
    /\ exit \in [Waiters -> ExitCodes \cup {-1, 0, 1}]

\* While an id has been created once the daemon's map, like state.json, claims
\* neither a start that was not delivered nor an end that has not come and is
\* not on its way, except for a create() that failed: with calls that return
\* late, events in any order, and a map that recover() built from a file
\* somebody was writing to.
MapTruthful ==
    \A s \in Shims : OneCreate(s) =>
        /\ entry.state \in {"running", "paused"} => conns[s] > 0
        /\ entry.state = "stopped" => Doomed(s) \/ shim[s] = "dead"

\* An exit code that wait reports is the code of a child that ended; -1 is
\* the report of a create() that failed.
ExitCodeTruthful ==
    \A w \in Waiters : rpc[w] = "ok" =>
        \E s \in Shims :
            \/ exit[w] = -1 /\ shim[s] = "dead"
            \/ child[s] \in {"zombie", "reaped"} /\ exit[w] = ReportedCode(s)

\* Every create RPC is answered, unless its shim panicked where the id is cut:
\* then no event comes, and there is no timeout.
CreateAnswered ==
    \A k \in Creators :
        rpc[k] = "await" ~> rpc[k] # "await" \/ \E s \in Shims : shim[s] = "panicked"

\* A wait that was registered while the container ran is answered once it
\* has ended.
WaitAnswered ==
    \A w \in Waiters, s \in Shims :
        rpc[w] = "await" /\ child[s] = "zombie" /\ conns[s] > 0 ~> rpc[w] # "await"

\* create answers Ok only for a container that exists.
CreateOkExists ==
    \A k \in Creators : rpc[k] = "ok" => \E s \in Shims : child[s] # "none"

\* A wait on a container that has exited returns.
WaitReturns ==
    \A w \in Waiters :
        rpc[w] = "await" /\ (\E s \in Shims : shim[s] = "done")
            ~> rpc[w] # "await"

\* An RPC whose handler may wait for ever: a wait for the end of a container
\* that goes on, or whose end was reported before; a create whose shim
\* panicked; a start that found the backlog full.
Parked ==
    \/ \E w \in Waiters : rpc[w] = "await"
    \/ \E k \in Creators : rpc[k] = "await" /\ \E s \in Shims : shim[s] = "panicked"
    \/ \E c \in Callers : BlockedStart(c)

\* A shutdown waits for the handlers under way, and these wait for events, for
\* files and for sockets.  It ends, unless it finds a handler that is parked
\* for good.
ShutdownEnds == daemon = "closing" ~> daemon # "closing" \/ []Parked

=============================================================================
