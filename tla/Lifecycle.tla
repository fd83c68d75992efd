----------------------------- MODULE Lifecycle -----------------------------
(***************************************************************************)
(* What clonebox promises about one container id, whatever is done to it:  *)
(* every create holds its program back until a start reached it, at most   *)
(* one program of the id runs, and an ended one is never run again.        *)
(* Container implements this specification.                                *)
(***************************************************************************)
CONSTANT Creates

VARIABLES
    phase,    \* of the program of each create
    started   \* the creates a start was delivered to

Init ==
    /\ phase = [c \in Creates |-> "none"]
    /\ started = {}

\* The process exists and is held back.
Hold(c) ==
    /\ phase[c] = "none"
    /\ phase' = [phase EXCEPT ![c] = "held"]
    /\ UNCHANGED started

\* A start is delivered once the process exists, and may come too late.
Start(c) ==
    /\ phase[c] # "none"
    /\ started' = started \cup {c}
    /\ UNCHANGED phase

\* The program is let go.
Release(c) ==
    /\ phase[c] = "held" /\ c \in started
    /\ \A d \in Creates : phase[d] # "running"
    /\ phase' = [phase EXCEPT ![c] = "running"]
    /\ UNCHANGED started

\* It exits or is killed, or its setup fails before it ever ran.
End(c) ==
    /\ phase[c] \in {"held", "running"}
    /\ phase' = [phase EXCEPT ![c] = "ended"]
    /\ UNCHANGED started

Next == \E c \in Creates : Hold(c) \/ Start(c) \/ Release(c) \/ End(c)

Spec == Init /\ [][Next]_<<phase, started>>
=============================================================================
