------------------------------ MODULE MCSetup ------------------------------
(* An instance of Setup for TLC: two ids that agree in their first 9 bytes, *)
(* and configs with no bind mount and with two.                             *)
EXTENDS Setup, TLC

CONSTANTS a, b

Hosts == a :> "container" @@ b :> "container"
Peers == a :> "container_peer" @@ b :> "container_peer"

Entry(d, isBind, isTmpfs) == [dest |-> d, bind |-> isBind, tmpfs |-> isTmpfs]
Plain == <<Entry("tmp", FALSE, TRUE)>>
Bound == <<Entry("home", TRUE, FALSE), Entry("tmp", FALSE, TRUE), Entry("data", TRUE, FALSE)>>
MountArrays == {Plain, Bound}
=============================================================================
