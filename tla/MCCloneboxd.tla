---------------------------- MODULE MCCloneboxd ----------------------------
(* Instances of Cloneboxd for TLC.  A liveness run has no symmetry, and in *)
(* the others there is one RPC of each kind.                               *)
EXTENDS Cloneboxd
=============================================================================
