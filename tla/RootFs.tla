------------------------------ MODULE RootFs -------------------------------
(***************************************************************************)
(* The child of create() between clone3 and freeze_child(): it makes its   *)
(* mounts private, mounts the new root, pivots into it, gets rid of the    *)
(* old root and mounts the rest.  Several children may do this at once on  *)
(* the same root.path, the base, which is then a directory they share.     *)
(*                                                                         *)
(* A tree is what a directory of the mount table belongs to: the host's    *)
(* file system, the base, or the overlay of one child, which goes by the   *)
(* child's name.                                                           *)
(***************************************************************************)
EXTENDS Integers, Sequences, SequencesExt

CONSTANTS
    Children,   \* containers that are being created
    Configs,    \* mounts arrays of their config.json files
    MayBreak    \* whether a system call may fail for reasons outside the model

ASSUME BreakAssumption == MayBreak \in BOOLEAN

\* The trees of the host and of the base are not those of a child.
ASSUME TreesAssumption == {"host", "base"} \cap Children = {}

VARIABLES
    mounts,     \* the mounts array of each config
    kid,        \* program counter of the child
    shared,     \* children whose mounts still propagate to the host
    root,       \* the tree at / of each child
    table,      \* the mounts in the namespace of each child
    hostTable,  \* the mounts that reached the host's namespace
    oldDir      \* the trees that have a directory put_old

rVars == <<mounts, kid, shared, root, table, hostTable, oldDir>>

Mount(fs, tree, dest) == [fs |-> fs, tree |-> tree, dest |-> dest]
IsBind(m) == m.bind
IsTmpfs(m) == m.tmpfs

\* The tree the child of i will pivot into: pre_pivot_mount() makes an overlay
\* unless the config has a bind mount.
HasBind(i) == \E n \in DOMAIN mounts[i] : IsBind(mounts[i][n])
NewRoot(i) == IF HasBind(i) THEN "base" ELSE i

RInit ==
    /\ mounts \in [Children -> Configs]
    /\ kid = [i \in Children |-> "private"]
    /\ shared = Children
    /\ root = [i \in Children |-> "host"]
    /\ table = [i \in Children |-> {}]
    /\ hostTable = {}
    /\ oldDir = {}

-----------------------------------------------------------------------------

\* A call in the child: child_try! exits with 1 when it fails.
ChildTry(i, from, ok, to) ==
    /\ kid[i] = from
    /\ kid' = [kid EXCEPT ![i] = IF ok THEN to ELSE "dead"]

\* Mounts of child i; without MS_PRIVATE the host sees them too.
AddMounts(i, M) ==
    /\ table' = [table EXCEPT ![i] = @ \cup M]
    /\ hostTable' = hostTable \cup (IF i \in shared THEN M ELSE {})

\* Mutant: the mount propagation is left as it is.
LeaveShared(i) ==
    /\ ChildTry(i, "private", TRUE, "bindRoot")
    /\ UNCHANGED <<mounts, shared, root, table, hostTable, oldDir>>

\* make_child_private(), and the host name.
MakePrivate(i) ==
    /\ ChildTry(i, "private", TRUE, "bindRoot")
    /\ shared' = shared \ {i}
    /\ UNCHANGED <<mounts, root, table, hostTable, oldDir>>

\* pre_pivot_mount(): root.path on itself, which pivot_root asks for ...
BindRoot(i) ==
    /\ ChildTry(i, "bindRoot", TRUE, "prePivot")
    /\ AddMounts(i, {Mount("base", "host", "rootfs")})
    /\ UNCHANGED <<mounts, shared, root, oldDir>>

\* ... then the first bind mount of the config, after which it returns, or an
\* overlay with upper and work in the bundle over the base.
PrePivotMount(i) ==
    /\ ChildTry(i, "prePivot", TRUE, "mkOld")
    /\ AddMounts(i, IF HasBind(i)
                    THEN {Mount("bind", "base", SelectSeq(mounts[i], IsBind)[1].dest)}
                    ELSE {Mount(i, "host", "merged")})
    /\ UNCHANGED <<mounts, shared, root, oldDir>>

\* do_pivot_root(), call by call.  put_old is a directory of the new root.
MakeOldDir(i) ==
    /\ ChildTry(i, "mkOld", TRUE, "pivot")
    /\ oldDir' = oldDir \cup {NewRoot(i)}
    /\ UNCHANGED <<mounts, shared, root, table, hostTable>>

PivotRoot(i) ==
    LET ok == NewRoot(i) \in oldDir IN
    /\ ChildTry(i, "pivot", ok, "unmountOld")
    /\ root' = [root EXCEPT ![i] = IF ok THEN NewRoot(i) ELSE @]
    /\ IF ok THEN AddMounts(i, {Mount("host", NewRoot(i), "put_old")})
       ELSE UNCHANGED <<table, hostTable>>
    /\ UNCHANGED <<mounts, shared, oldDir>>

OldRoot(i) == {m \in table[i] : m.fs = "host"}

\* Mutant: the old root is not cleaned up.
KeepOldRoot(i) ==
    /\ ChildTry(i, "unmountOld", TRUE, "postPivot")
    /\ UNCHANGED <<mounts, shared, root, table, hostTable, oldDir>>

\* chdir("/") and umount2 with MNT_DETACH, through the path /put_old.
UnmountOld(i) ==
    LET ok == OldRoot(i) # {} /\ NewRoot(i) \in oldDir IN
    /\ ChildTry(i, "unmountOld", ok, "removeOld")
    /\ table' = [table EXCEPT ![i] = IF ok THEN @ \ OldRoot(i) ELSE @]
    /\ UNCHANGED <<mounts, shared, root, hostTable, oldDir>>

\* remove_dir("/put_old"): refused while the caller has a mount on it; what
\* others have mounted on a directory that is removed is detached.
RemoveOld(i) ==
    LET ok == NewRoot(i) \in oldDir /\ OldRoot(i) = {} IN
    /\ ChildTry(i, "removeOld", ok, "postPivot")
    /\ oldDir' = IF ok THEN oldDir \ {NewRoot(i)} ELSE oldDir
    /\ table' = IF ok THEN [j \in Children |-> {m \in table[j] :
                              ~(m.tree = NewRoot(i) /\ m.dest = "put_old")}]
                ELSE table
    /\ UNCHANGED <<mounts, shared, root, hostTable>>

\* post_pivot_mount(): every tmpfs, on what is now the root.
PostPivotMount(i) ==
    /\ ChildTry(i, "postPivot", TRUE, "defaults")
    /\ AddMounts(i, {Mount("tmpfs", root[i], m.dest) :
                        m \in ToSet(SelectSeq(mounts[i], IsTmpfs))})
    /\ UNCHANGED <<mounts, shared, root, oldDir>>

Defaults == {"proc", "sys", "dev"}

\* do_default_mounts(); then freeze_child() blocks.
DefaultMounts(i) ==
    /\ ChildTry(i, "defaults", TRUE, "blocked")
    /\ AddMounts(i, {Mount(d, root[i], d) : d \in Defaults})
    /\ UNCHANGED <<mounts, shared, root, oldDir>>

\* A call fails for a reason outside the model, a signal ends the child, or
\* the program was started and exits.
ChildBreaks(i) ==
    /\ MayBreak
    /\ kid[i] # "dead"
    /\ kid' = [kid EXCEPT ![i] = "dead"]
    /\ UNCHANGED <<mounts, shared, root, table, hostTable, oldDir>>

ChildMounts(i) ==
    \/ MakePrivate(i) \/ BindRoot(i) \/ PrePivotMount(i) \/ MakeOldDir(i)
    \/ PivotRoot(i) \/ UnmountOld(i) \/ RemoveOld(i) \/ PostPivotMount(i)
    \/ DefaultMounts(i)

-----------------------------------------------------------------------------
(* Properties.                                                             *)

\* Nothing a child mounts is ever seen on the host.
HostMountsUntouched == hostTable = {}

\* A child that has come to its freeze sees nothing of the host's root: it is
\* at the root of its own tree, the old root is not mounted anywhere in its
\* namespace, and /proc, /sys and /dev are mounted there, also when children
\* that share a base make and remove the one put_old directory under each
\* other.  (What devtmpfs shows in /dev is the host's, by its nature.)
OldRootGone ==
    \A i \in Children : kid[i] = "blocked" =>
        /\ root[i] = NewRoot(i)
        /\ OldRoot(i) = {}
        /\ \A d \in Defaults : Mount(d, root[i], d) \in table[i]

\* The inductive invariant behind the two: a child that has come to its
\* mounts no longer propagates them; the old root is mounted between
\* pivot_root and umount2 only, whatever children that share the base do to
\* its put_old; from pivot_root on the child is in its own tree, and at its
\* freeze the default mounts are there.
Pivoted == {"unmountOld", "removeOld", "postPivot", "defaults", "blocked"}
KidSteps == Pivoted \cup {"private", "bindRoot", "prePivot", "mkOld", "pivot", "dead"}

RootInv ==
    /\ kid \in [Children -> KidSteps]
    /\ root \in [Children -> Children \cup {"host", "base"}]
    /\ table = [i \in Children |-> table[i]]
    /\ \A i \in Children :
          /\ kid[i] \notin {"private", "dead"} => i \notin shared
          /\ kid[i] \notin {"unmountOld", "dead"} => OldRoot(i) = {}
          /\ kid[i] \in Pivoted => root[i] = NewRoot(i)
          /\ kid[i] = "blocked" => \A d \in Defaults : Mount(d, root[i], d) \in table[i]
    /\ HostMountsUntouched
=============================================================================
