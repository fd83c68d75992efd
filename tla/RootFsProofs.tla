---------------------------- MODULE RootFsProofs ----------------------------
(* Proofs about the mounts of the children, beside the network setup of    *)
(* their supervisors: for any number of children and any mounts arrays.    *)
EXTENDS Setup, TLAPS

\* Nothing is mounted in the initial state.
LEMMA RootInit == Init => RootInv
BY DEF Init, RInit, RootInv, KidSteps, Pivoted, OldRoot, HostMountsUntouched

\* A call of the child leaves one of its program counters.
LEMMA ChildTryType ==
    ASSUME RootInv, NEW i \in Children, NEW from, NEW ok, NEW to \in KidSteps,
           ChildTry(i, from, ok, to)
    PROVE  kid' \in [Children -> KidSteps]
BY DEF RootInv, ChildTry, KidSteps

\* The trees to pivot into depend on the configs alone, which no step changes.
LEMMA NewRootStable ==
    ASSUME UNCHANGED mounts, NEW j \in Children
    PROVE  HasBind(j)' = HasBind(j) /\ NewRoot(j)' = NewRoot(j)
BY DEF HasBind, NewRoot

\* Mounts of a child that made its namespace private stay in its own table.
LEMMA AddMountsPrivate ==
    ASSUME RootInv, NEW i \in Children, kid[i] \notin {"private", "dead"},
           NEW M, AddMounts(i, M)
    PROVE  /\ HostMountsUntouched'
           /\ table' = [j \in Children |-> table'[j]]
           /\ table'[i] = table[i] \cup M
           /\ \A j \in Children \ {i} : table'[j] = table[j]
BY DEF RootInv, AddMounts, HostMountsUntouched

\* A step of one child keeps the invariant, of its own mounts and of those of
\* the children it shares the base with.
LEMMA RootStep ==
    ASSUME RootInv, NEW i \in Children, ChildMounts(i) \/ ChildBreaks(i)
    PROVE  RootInv'
<1>U. UNCHANGED mounts
  BY DEF ChildMounts, ChildBreaks, MakePrivate, BindRoot, PrePivotMount, MakeOldDir,
         PivotRoot, UnmountOld, RemoveOld, PostPivotMount, DefaultMounts
<1>N. \A j \in Children : HasBind(j)' = HasBind(j) /\ NewRoot(j)' = NewRoot(j)
  BY <1>U, NewRootStable
<1>H. "host" \notin Children /\ "base" \notin Children
  BY TreesAssumption
<1>M. ASSUME NEW M, AddMounts(i, M), kid[i] \notin {"private", "unmountOld", "dead"},
             \A m \in M : m.fs # "host", UNCHANGED <<shared, root>>,
             NEW to \in KidSteps \ {"private", "unmountOld"},
             kid' = [kid EXCEPT ![i] = to],
             to \in Pivoted => kid[i] \in Pivoted,
             to = "blocked" => \A d \in Defaults : Mount(d, root[i], d) \in M
      PROVE  RootInv'
  <2>1. /\ HostMountsUntouched'
        /\ table' = [j \in Children |-> table'[j]]
        /\ table'[i] = table[i] \cup M
        /\ \A j \in Children \ {i} : table'[j] = table[j]
    BY <1>M, AddMountsPrivate
  <2>2. kid' \in [Children -> KidSteps]
    BY <1>M DEF RootInv
  <2>3. ASSUME NEW j \in Children, kid'[j] \notin {"unmountOld", "dead"}
        PROVE  OldRoot(j)' = {}
    <3>1. CASE j = i
      BY <1>M, <2>1, <3>1 DEF RootInv, OldRoot
    <3>2. CASE j # i
      BY <1>M, <2>1, <2>3, <3>2 DEF RootInv, OldRoot
    <3> QED BY <3>1, <3>2
  <2>4. ASSUME NEW j \in Children
        PROVE  /\ kid'[j] \notin {"private", "dead"} => j \notin shared'
               /\ kid'[j] \in Pivoted => root'[j] = NewRoot(j)'
               /\ kid'[j] = "blocked"
                    => \A d \in Defaults : Mount(d, root'[j], d) \in table'[j]
    <3>1. CASE j = i
      BY <1>M, <1>N, <2>1, <3>1 DEF RootInv
    <3>2. CASE j # i
      BY <1>M, <1>N, <2>1, <3>2 DEF RootInv
    <3> QED BY <3>1, <3>2
  <2>5. root' \in [Children -> Children \cup {"host", "base"}]
    BY <1>M DEF RootInv
  <2> QED BY <2>1, <2>2, <2>3, <2>4, <2>5 DEF RootInv
<1>1. CASE MakePrivate(i)
  <2>1. kid' \in [Children -> KidSteps]
    BY <1>1, ChildTryType DEF MakePrivate, KidSteps
  <2> QED BY <1>1, <2>1, <1>N DEF MakePrivate, ChildTry, RootInv, OldRoot, Pivoted,
                                  HostMountsUntouched
<1>2. CASE BindRoot(i)
  <2>1. PICK M : AddMounts(i, M) /\ \A m \in M : m.fs # "host"
    BY <1>2 DEF BindRoot, Mount
  <2> QED BY <1>2, <2>1, <1>M DEF BindRoot, ChildTry, KidSteps, Pivoted
<1>3. CASE PrePivotMount(i)
  <2>1. PICK M : AddMounts(i, M) /\ \A m \in M : m.fs # "host"
    <3>1. CASE HasBind(i)
      BY <1>3, <3>1 DEF PrePivotMount, Mount
    <3>2. CASE ~HasBind(i)
      BY <1>3, <3>2, <1>H DEF PrePivotMount, Mount
    <3> QED BY <3>1, <3>2
  <2> QED BY <1>3, <2>1, <1>M DEF PrePivotMount, ChildTry, KidSteps, Pivoted
<1>4. CASE MakeOldDir(i)
  <2>1. kid' \in [Children -> KidSteps]
    BY <1>4, ChildTryType DEF MakeOldDir, KidSteps
  <2> QED BY <1>4, <2>1, <1>N DEF MakeOldDir, ChildTry, RootInv, OldRoot, Pivoted,
                                        HostMountsUntouched
<1>5. CASE PivotRoot(i)
  <2>1. kid' \in [Children -> KidSteps]
    BY <1>5, ChildTryType DEF PivotRoot, KidSteps, Pivoted
  <2>2. NewRoot(i) \in Children \cup {"host", "base"}
    BY DEF NewRoot
  <2>3. CASE NewRoot(i) \in oldDir
    <3> DEFINE M == {Mount("host", NewRoot(i), "put_old")}
    <3>1. /\ kid[i] = "pivot" /\ kid' = [kid EXCEPT ![i] = "unmountOld"]
          /\ root' = [root EXCEPT ![i] = NewRoot(i)]
          /\ AddMounts(i, M) /\ shared' = shared
      BY <1>5, <2>3 DEF PivotRoot, ChildTry
    <3> HIDE DEF M
    <3>2. /\ HostMountsUntouched'
          /\ table' = [j \in Children |-> table'[j]]
          /\ \A j \in Children \ {i} : table'[j] = table[j]
      BY <3>1, AddMountsPrivate
    <3> QED BY <2>1, <2>2, <3>1, <3>2, <1>N DEF RootInv, OldRoot
  <2>4. CASE NewRoot(i) \notin oldDir
    BY <1>5, <2>1, <2>4, <1>N DEF PivotRoot, ChildTry, RootInv, OldRoot, Pivoted,
                                        HostMountsUntouched
  <2> QED BY <2>3, <2>4
<1>6. CASE UnmountOld(i)
  <2>1. kid' \in [Children -> KidSteps]
    BY <1>6, ChildTryType DEF UnmountOld, KidSteps, Pivoted
  <2>2. \A j \in Children : j # i => table'[j] = table[j]
    BY <1>6 DEF UnmountOld, RootInv
  <2>3. table' = [j \in Children |-> table'[j]]
    BY <1>6 DEF UnmountOld, RootInv
  <2>4. kid'[i] = "removeOld" => OldRoot(i)' = {}
    BY <1>6 DEF UnmountOld, RootInv, OldRoot, ChildTry
  <2> QED BY <1>6, <2>1, <2>2, <2>3, <2>4, <1>N
          DEF UnmountOld, ChildTry, RootInv, OldRoot, Pivoted, HostMountsUntouched
<1>7. CASE RemoveOld(i)
  <2>1. kid' \in [Children -> KidSteps]
    BY <1>7, ChildTryType DEF RemoveOld, KidSteps, Pivoted
  <2>2. table' = [j \in Children |-> table'[j]]
    BY <1>7 DEF RemoveOld, RootInv
  <2>3. \A j \in Children : OldRoot(j) = {} => OldRoot(j)' = {}
    BY <1>7 DEF RemoveOld, OldRoot
  <2>4. ASSUME NEW j \in Children, NEW d \in Defaults, Mount(d, root[j], d) \in table[j]
        PROVE  Mount(d, root[j], d) \in table'[j]
    BY <1>7, <2>4 DEF RemoveOld, Mount, Defaults
  <2> QED BY <1>7, <2>1, <2>2, <2>3, <2>4, <1>N
          DEF RemoveOld, ChildTry, RootInv, Pivoted, HostMountsUntouched
<1>8. CASE PostPivotMount(i)
  <2>1. PICK M : AddMounts(i, M) /\ \A m \in M : m.fs # "host"
    BY <1>8 DEF PostPivotMount, Mount
  <2> QED BY <1>8, <2>1, <1>M DEF PostPivotMount, ChildTry, KidSteps, Pivoted
<1>9. CASE DefaultMounts(i)
  <2> DEFINE M == {Mount(d, root[i], d) : d \in Defaults}
  <2>1. \A m \in M : m.fs # "host"
    BY DEF Mount, Defaults
  <2>2. \A d \in Defaults : Mount(d, root[i], d) \in M
    OBVIOUS
  <2>3. AddMounts(i, M)
    BY <1>9 DEF DefaultMounts
  <2> HIDE DEF M
  <2> QED BY <1>9, <2>1, <2>2, <2>3, <1>M DEF DefaultMounts, ChildTry, KidSteps, Pivoted
<1>10. CASE ChildBreaks(i)
  BY <1>10, <1>N DEF ChildBreaks, RootInv, KidSteps, OldRoot, Pivoted,
                     HostMountsUntouched
<1>11. QED
  BY <1>1, <1>2, <1>3, <1>4, <1>5, <1>6, <1>7, <1>8, <1>9, <1>10 DEF ChildMounts

\* The inductive step: a child steps, or its supervisor does and leaves the
\* mounts alone.
LEMMA RootNext == RootInv /\ [Next]_vars => RootInv'
<1> SUFFICES ASSUME RootInv, [Next]_vars PROVE RootInv'
  OBVIOUS
<1>1. ASSUME NEW i \in Ids, Child(i) PROVE RootInv'
  BY <1>1, RootStep, ChildrenAssumption DEF Child
<1>2. CASE UNCHANGED rVars
  BY <1>2 DEF rVars, RootInv, OldRoot, NewRoot, HasBind, HostMountsUntouched
<1>3. QED
  BY <1>1, <1>2 DEF Next, Parent, vars

\* What is known of the mounts of each child at each of its steps.
THEOREM RootInvariant == Spec => []RootInv
BY RootInit, RootNext, PTL DEF Spec

\* MS_PRIVATE comes before every mount, on every path: nothing a child mounts,
\* the old root included, is ever seen on the host.
THEOREM HostNeverMounted == Spec => []HostMountsUntouched
<1>1. RootInv => HostMountsUntouched
  BY DEF RootInv
<1>2. QED
  BY <1>1, RootInvariant, PTL

\* No child gets to its freeze with the host's root still mounted, also when
\* others make and remove the same put_old.
THEOREM OldRootAlwaysGone == Spec => []OldRootGone
<1>1. RootInv => OldRootGone
  BY DEF RootInv, OldRootGone, Pivoted
<1>2. QED
  BY <1>1, RootInvariant, PTL

=============================================================================
