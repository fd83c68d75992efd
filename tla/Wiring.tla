------------------------------- MODULE Wiring -------------------------------
(***************************************************************************)
(* What create() promises about the networks of the containers of a host:  *)
(* a name is held by one veth pair at a time, the far end of a pair is     *)
(* given to the container it was made for and to no other, create() goes   *)
(* on only with a container that has it, and what a container has been     *)
(* given goes only after the container has ended, for good.  Network       *)
(* implements this request by request for many ids, and Container in three *)
(* steps for the many creates of one id.                                   *)
(***************************************************************************)
CONSTANTS
    Creates,   \* creates under way or over
    NameOf     \* what the host end of the pair of each is called

VARIABLES
    pair,      \* of each create: none yet, made, joined to it, gone
    stage,     \* of each create: at work, ready to go on, failed
    living     \* creates whose container has not ended

Init ==
    /\ pair = [c \in Creates |-> "none"]
    /\ stage = [c \in Creates |-> "work"]
    /\ living = Creates

Exists(c) == pair[c] \in {"made", "joined"}

\* The name must be free.
Make(c) ==
    /\ stage[c] = "work" /\ pair[c] = "none"
    /\ \A d \in Creates : Exists(d) => NameOf[d] # NameOf[c]
    /\ pair' = [pair EXCEPT ![c] = "made"]
    /\ UNCHANGED <<stage, living>>

Join(c) ==
    /\ stage[c] = "work" /\ pair[c] = "made"
    /\ pair' = [pair EXCEPT ![c] = "joined"]
    /\ UNCHANGED <<stage, living>>

Ready(c) ==
    /\ stage[c] = "work" /\ pair[c] = "joined"
    /\ stage' = [stage EXCEPT ![c] = "ready"]
    /\ UNCHANGED <<pair, living>>

\* create() gives up, also after the network was ready.  It makes no pair any
\* more, and leaves the one it has made where it is.
Fail(c) ==
    /\ stage[c] # "failed"
    /\ stage' = [stage EXCEPT ![c] = "failed"]
    /\ pair' = [pair EXCEPT ![c] = IF @ = "none" THEN "gone" ELSE @]
    /\ UNCHANGED living

\* A pair that joined a container goes with it, one that did not stays.
Lose(c) ==
    /\ c \notin living /\ stage[c] # "work" /\ pair[c] = "joined"
    /\ pair' = [pair EXCEPT ![c] = "gone"]
    /\ UNCHANGED <<stage, living>>

End ==
    /\ living' \subseteq living
    /\ UNCHANGED <<pair, stage>>

Next ==
    \/ End
    \/ \E c \in Creates : Make(c) \/ Join(c) \/ Ready(c) \/ Fail(c) \/ Lose(c)

Spec == Init /\ [][Next]_<<pair, stage, living>>
=============================================================================
