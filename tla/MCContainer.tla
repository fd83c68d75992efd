---------------------------- MODULE MCContainer ----------------------------
(* Instances of Container for TLC.  Callers are interchangeable, and so    *)
(* are shims: a pid matters only as an identity.                           *)
EXTENDS Container, TLC

CallerSymmetry == Permutations(Callers)
ShimSymmetry == Permutations(Shims)
=============================================================================
