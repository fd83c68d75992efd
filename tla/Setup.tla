------------------------------- MODULE Setup -------------------------------
(***************************************************************************)
(* The two halves of create() that run side by side after clone3: the      *)
(* supervisor configures the network of the child from outside while the   *)
(* child mounts its root.  Neither waits for the other, the child may be   *)
(* gone at any step of the supervisor, and other containers are set up at  *)
(* the same time on the same host and the same root.path.                  *)
(***************************************************************************)
EXTENDS Network, RootFs

ASSUME ChildrenAssumption == Children = Ids

vars == <<alive, nVars, rVars>>

Init == NInit /\ RInit

\* The child steps; it leaves its namespaces when it ends.
Child(i) ==
    /\ ChildMounts(i) \/ ChildBreaks(i)
    /\ alive' = {j \in alive : kid'[j] # "dead"}
    /\ UNCHANGED nVars

\* The supervisor and the kernel.
Parent(i) == (CreateNetwork(i) \/ NetnsGone(i)) /\ UNCHANGED rVars

Next == \E i \in Ids : Child(i) \/ Parent(i)

Spec == Init /\ [][Next]_vars
=============================================================================
