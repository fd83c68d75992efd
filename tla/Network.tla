------------------------------ MODULE Network ------------------------------
(***************************************************************************)
(* create_network() of several containers at once, one rtnetlink request   *)
(* after the other on the network namespace of the host that they share.   *)
(* Interfaces are named after a prefix of the id, so the names of two      *)
(* containers may be equal, or the peer of one may be called like the host *)
(* end of another.  A link is known by its creator and its end: that is    *)
(* what its interface index stands for.                                    *)
(***************************************************************************)
EXTENDS Integers, Sequences, FiniteSets

CONSTANTS
    Ids,        \* containers that are being created
    HostName,   \* name of the host end of each: the first 9 bytes of the id
    PeerName,   \* name of the other end: the same followed by _peer
    MayRefuse,  \* whether a request may fail for reasons outside the model
    MayPanic    \* whether an id may have a character across its 9th byte

ASSUME NamesAssumption ==
    DOMAIN HostName = Ids /\ DOMAIN PeerName = Ids
ASSUME PeerAssumption == \A i \in Ids : HostName[i] # PeerName[i]
ASSUME RefuseAssumption == MayRefuse \in BOOLEAN /\ MayPanic \in BOOLEAN

\* A namespace that goes by the name of its container is neither the host's
\* nor none.
ASSUME IdsAssumption == {"host", "none"} \cap Ids = {}

VARIABLES
    alive,   \* the child of each id that has not ended
    net,     \* program counter of create_network()
    queue,   \* replies in the receive queue of the netlink socket in use
    ix,      \* host_i_id and child_i_id
    link,    \* the two ends of each pair: namespace, address, up
    netns,   \* loopback and default route in the child's namespace
    nat      \* MASQUERADE rules in the POSTROUTING chain

nVars == <<net, queue, ix, link, netns, nat>>

Ends == {"host", "peer"}
Links == Ids \X Ends
NoLink == [ns |-> "none", addr |-> FALSE, up |-> FALSE]
NoIndex == <<"none", "none">>
Name(k) == IF k[2] = "host" THEN HostName[k[1]] ELSE PeerName[k[1]]

\* The calls of create_network(), in order.
Then == [open |-> "pair", pair |-> "hostIx", hostIx |-> "hostAddr",
         hostAddr |-> "hostUp", hostUp |-> "peerIx", peerIx |-> "move",
         move |-> "enter", enter |-> "peerAddr", peerAddr |-> "peerUp",
         peerUp |-> "loUp", loUp |-> "route", route |-> "back", back |-> "nat",
         nat |-> "ok"]
NetFailed == {"err", "panic"}
NetOver == {"ok"} \cup NetFailed

NInit ==
    /\ alive = Ids
    /\ net = [i \in Ids |-> "open"]
    /\ queue = [i \in Ids |-> <<>>]
    /\ ix = [i \in Ids |-> [host |-> NoIndex, peer |-> NoIndex]]
    /\ link = [k \in Links |-> NoLink]
    /\ netns = [i \in Ids |-> [lo |-> FALSE, route |-> FALSE]]
    /\ nat = 0

-----------------------------------------------------------------------------
(* The netlink socket.                                                     *)

\* Mutant: a request to set a link up asks for no acknowledgement.
AckedFew == {"newlink", "newaddr", "newroute"}

\* The requests that carry NLM_F_ACK.
Acked == {"newlink", "setlink", "newaddr", "newroute"}

\* Mutant: the pair is requested without NLM_F_EXCL.
ExclusiveFew == {"newaddr", "newroute"}

\* The requests that carry NLM_F_EXCL.
Exclusive == {"newlink", "newaddr", "newroute"}

\* An error is always answered, a success if it was asked for; RTM_GETLINK is
\* answered with the link, before the acknowledgement if there is one.
Replies(kind, done, k) ==
    IF ~done THEN <<[ok |-> FALSE, link |-> NoIndex]>>
    ELSE (IF kind = "getlink" THEN <<[ok |-> TRUE, link |-> k]>> ELSE <<>>) \o
         (IF kind \in Acked THEN <<[ok |-> TRUE, link |-> NoIndex]>> ELSE <<>>)

\* What may become of a call that can succeed, or cannot.
Outcomes(possible) == {possible, possible /\ ~MayRefuse}

\* Send a request, which the kernel carries out at once, and receive one
\* reply: the first in the queue, whichever request it answers.  links and ns
\* are what the request makes of link and netns.
Request(i, st, kind, possible, links, ns, k) ==
    /\ net[i] = st
    /\ \E done \in Outcomes(possible) :
        LET q == queue[i] \o Replies(kind, done, k) IN
        /\ link' = IF done THEN links ELSE link
        /\ netns' = IF done THEN ns ELSE netns
        /\ queue' = [queue EXCEPT ![i] = IF q = <<>> THEN q ELSE Tail(q)]
        /\ net' = [net EXCEPT ![i] = IF q = <<>> THEN "recv"
                                     ELSE IF Head(q).ok THEN Then[st] ELSE "err"]
        /\ ix' = CASE q = <<>> -> ix
                   [] st = "hostIx" -> [ix EXCEPT ![i].host = Head(q).link]
                   [] st = "peerIx" -> [ix EXCEPT ![i].peer = Head(q).link]
                   [] OTHER -> ix
    /\ UNCHANGED <<alive, nat>>

-----------------------------------------------------------------------------
(* The requests.                                                           *)

InHost(n) == {k \in Links : link[k].ns = "host" /\ Name(k) = n}
There(k, ns) == k \in Links /\ link[k].ns = ns
At(k, f, v) == IF k \in Links THEN [link EXCEPT ![k][f] = v] ELSE link

\* The name of either end must be free; without NLM_F_EXCL a link of the host
\* end's name would be taken for the one to change.
CreateVethPair(i) ==
    LET named == InHost(HostName[i]) # {}
        free  == ~named /\ InHost(PeerName[i]) = {}
        pair  == {<<i, "host">>, <<i, "peer">>}
    IN  Request(i, "pair", "newlink",
                free \/ (named /\ "newlink" \notin Exclusive),
                [k \in Links |-> IF k \in pair /\ free
                                 THEN [ns |-> "host", addr |-> FALSE, up |-> FALSE]
                                 ELSE link[k]],
                netns, NoIndex)

GetInterfaceIndex(i, st, n) ==
    Request(i, st, "getlink", InHost(n) # {}, link, netns,
            IF InHost(n) = {} THEN NoIndex ELSE CHOOSE k \in InHost(n) : TRUE)

SetIpAddr(i, st, k, ns) ==
    Request(i, st, "newaddr", There(k, ns) /\ ~link[k].addr,
            At(k, "addr", TRUE), netns, NoIndex)

SetInterfaceUp(i, st, k, ns) ==
    Request(i, st, "setlink", There(k, ns), At(k, "up", TRUE), netns, NoIndex)

\* Index 1 is the loopback, which every network namespace has.
SetLoopbackUp(i) ==
    Request(i, "loUp", "setlink", TRUE, link, [netns EXCEPT ![i].lo = TRUE], NoIndex)

\* peer_ns_fd keeps the namespace, whether or not the child still lives.
MoveToNetns(i, k) ==
    Request(i, "move", "setlink", There(k, "host"), At(k, "ns", i), netns, NoIndex)

\* Mutant: the answer to the last request is not awaited.
AddRouteUnread(i) ==
    /\ net[i] = "route"
    /\ net' = [net EXCEPT ![i] = "back"]
    /\ \E done \in Outcomes(~netns[i].route) : netns' = [netns EXCEPT ![i].route = done]
    /\ UNCHANGED <<alive, queue, ix, link, nat>>

\* The gateway must be reachable through a link that is up and addressed.
AddDefaultRoute(i) ==
    Request(i, "route", "newroute",
            (\E k \in Links : link[k] = [ns |-> i, addr |-> TRUE, up |-> TRUE])
                /\ ~netns[i].route,
            link, [netns EXCEPT ![i].route = TRUE], NoIndex)

-----------------------------------------------------------------------------
(* create_network().                                                       *)

\* A step that is not a request.
NetTry(i, from, ok, to) ==
    /\ net[i] = from
    /\ \E done \in Outcomes(ok) : net' = [net EXCEPT ![i] = IF done THEN to ELSE "err"]

\* Both namespaces are opened; a zombie has none.
OpenNetns(i) ==
    /\ NetTry(i, "open", i \in alive, "pair")
    /\ UNCHANGED <<alive, queue, ix, link, netns, nat>>

\* Then the id is cut at its 9th byte, for the names of the links.  When that
\* byte lies inside a character the slice panics, and create_network() is left
\* without an error, before the first request.
CutPanics(i) ==
    /\ MayPanic
    /\ net[i] = "open" /\ i \in alive
    /\ net' = [net EXCEPT ![i] = "panic"]
    /\ UNCHANGED <<alive, queue, ix, link, netns, nat>>

\* setns to the child's namespace and a new socket there.
EnterNetns(i) ==
    /\ NetTry(i, "enter", TRUE, "peerAddr")
    /\ queue' = [queue EXCEPT ![i] = <<>>]
    /\ UNCHANGED <<alive, ix, link, netns, nat>>

LeaveNetns(i) ==
    /\ NetTry(i, "back", TRUE, "nat")
    /\ UNCHANGED <<alive, queue, ix, link, netns, nat>>

\* ip_forward and iptables -A; its exit status is not looked at.
Masquerade(i) ==
    /\ NetTry(i, "nat", TRUE, "ok")
    /\ nat' \in {nat + 1} \cup (IF MayRefuse THEN {nat} ELSE {})
    /\ UNCHANGED <<alive, queue, ix, link, netns>>

CreateNetwork(i) ==
    \/ OpenNetns(i)
    \/ CutPanics(i)
    \/ CreateVethPair(i)
    \/ GetInterfaceIndex(i, "hostIx", HostName[i])
    \/ SetIpAddr(i, "hostAddr", ix[i].host, "host")
    \/ SetInterfaceUp(i, "hostUp", ix[i].host, "host")
    \/ GetInterfaceIndex(i, "peerIx", PeerName[i])
    \/ MoveToNetns(i, ix[i].peer)
    \/ EnterNetns(i)
    \/ SetIpAddr(i, "peerAddr", ix[i].peer, i)
    \/ SetInterfaceUp(i, "peerUp", ix[i].peer, i)
    \/ SetLoopbackUp(i)
    \/ AddDefaultRoute(i)
    \/ LeaveNetns(i)
    \/ Masquerade(i)

\* A namespace nobody holds goes, the links in it and their other ends too.
NetnsGone(i) ==
    LET lost == {k \in Links : link[k].ns = i} IN
    /\ i \notin alive /\ net[i] \in NetOver /\ lost # {}
    /\ link' = [k \in Links |-> IF \E l \in lost : l[1] = k[1] THEN NoLink ELSE link[k]]
    /\ UNCHANGED <<alive, net, queue, ix, netns, nat>>

-----------------------------------------------------------------------------
(* Properties.                                                             *)

Networked(i) ==
    /\ link[<<i, "host">>] = [ns |-> "host", addr |-> TRUE, up |-> TRUE]
    /\ link[<<i, "peer">>] = [ns |-> i, addr |-> TRUE, up |-> TRUE]
    /\ netns[i] = [lo |-> TRUE, route |-> TRUE]

\* create_network() returns Ok only if every request was carried out on this
\* container's own pair, and what it set up stays while the container lives:
\* no error is lost among the replies, and no container with a similar id
\* changes it.
OkMeansNetworked ==
    \A i \in Ids : net[i] = "ok" /\ i \in alive => Networked(i)

\* A container never gets the link of another: a link is in the host's
\* namespace, or in that of the container it was made for.
LinksStayHome ==
    \A k \in Links : link[k].ns \in {"none", "host", k[1]}

\* create_network() is never left in recv with no reply to come.
AlwaysAnswered == \A i \in Ids : net[i] # "recv"

\* The inductive invariant behind the three: between two requests no reply is
\* left over, no two links in the host's namespace have the same name, and at
\* each step the indexes are those of the container's own pair, which is where
\* create_network() has put it with what it has set so far.
NetType ==
    /\ alive \subseteq Ids
    /\ net \in [Ids -> DOMAIN Then \cup NetOver]
    /\ ix \in [Ids -> [host : Links \cup {NoIndex}, peer : Links \cup {NoIndex}]]
    /\ link \in [Links -> [ns : Ids \cup {"none", "host"}, addr : BOOLEAN, up : BOOLEAN]]
    /\ netns \in [Ids -> [lo : BOOLEAN, route : BOOLEAN]]
    /\ queue = [i \in Ids |-> <<>>]

NamesUnique ==
    \A k, l \in Links :
        link[k].ns = "host" /\ link[l].ns = "host" /\ Name(k) = Name(l) => k = l

AtHost == {"hostIx", "hostAddr", "hostUp", "peerIx", "move"}
Moved == {"enter", "peerAddr", "peerUp", "loUp", "route", "back", "nat", "ok"}

PairInv(i) ==
    LET h  == link[<<i, "host">>]
        p  == link[<<i, "peer">>]
        st == net[i]
    IN  /\ st \in {"open", "pair"} => h.ns = "none" /\ p.ns = "none"
        /\ st \in AtHost => h.ns = "host" /\ p.ns = "host"
        /\ st \in (AtHost \ {"hostIx"}) \cup Moved => ix[i].host = <<i, "host">>
        /\ st \in {"move"} \cup Moved => ix[i].peer = <<i, "peer">>
        /\ st = "ok" /\ i \in alive => Networked(i)
        /\ st \in Moved \ {"ok"} => h.ns = "host" /\ p.ns = i
        /\ st \in ({"hostUp", "peerIx", "move"} \cup Moved) \ {"ok"} => h.addr
        /\ st \in ({"peerIx", "move"} \cup Moved) \ {"ok"} => h.up
        /\ st \in {"peerUp", "loUp", "route", "back", "nat"} => p.addr
        /\ st \in {"loUp", "route", "back", "nat"} => p.up
        /\ st \in {"route", "back", "nat"} => netns[i].lo
        /\ st \in {"back", "nat"} => netns[i].route

NetInv ==
    /\ NetType
    /\ NamesUnique
    /\ LinksStayHome
    /\ \A i \in Ids : PairInv(i)

\* The pairs and the creates as Wiring sees them.  A far end elsewhere than in
\* its container, or a container that was told Ok and lives without what was
\* set up for it, is a state that Wiring does not have.
PairOf(i) ==
    LET p == link[<<i, "peer">>].ns IN
    CASE p = "none" -> IF net[i] \in NetOver THEN "gone" ELSE "none"
      [] p = "host" -> "made"
      [] p = i /\ (net[i] = "ok" /\ i \in alive => Networked(i)) -> "joined"
      [] OTHER -> "broken"
StageOf(i) == CASE net[i] = "ok" -> "ready" [] net[i] \in NetFailed -> "failed"
                [] OTHER -> "work"

W == INSTANCE Wiring WITH
        Creates <- Ids,
        NameOf  <- HostName,
        pair    <- [i \in Ids |-> PairOf(i)],
        stage   <- [i \in Ids |-> StageOf(i)],
        living  <- alive

\* create_network() implements Wiring: of containers whose ids agree in their
\* first 9 bytes one at a time has a pair, it keeps it configured for as long
\* as it lives, and a refused or failed one never comes by a pair again.
ImplementsWiring == W!Spec
=============================================================================
