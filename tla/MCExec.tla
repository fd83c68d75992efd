------------------------------- MODULE MCExec ------------------------------
(* An instance of Exec for TLC, with one invocation that may be repeated.  *)
EXTENDS Exec
=============================================================================
