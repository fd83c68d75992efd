--------------------------- MODULE NetlinkReader ---------------------------
(***************************************************************************)
(* The reference for the messages of Netlink: how the kernel reads them,   *)
(* attribute by attribute, and what create_network() means them to say.    *)
(***************************************************************************)
EXTENDS Netlink

Min2(m, n) == IF m < n THEN m ELSE n
Drop(b, n) == SubSeq(b, n + 1, Len(b))

\* An attribute that does not fit ends the list, and makes it malformed.
Malformed == {<<"malformed">>}

\* The attributes in b: a set of paths of types with values.  The attributes
\* at the paths of NestedIn hold others, behind a fixed part of that length.
NestedIn == {<<LinkInfo>>, <<LinkInfo, InfoData>>, <<LinkInfo, InfoData, VethInfoPeer>>}
FixedPart(path) == IF path = <<LinkInfo, InfoData, VethInfoPeer>> THEN 16 ELSE 0

RECURSIVE Attributes(_, _)
Attributes(b, path) ==
    IF b = <<>> THEN {}
    ELSE IF Len(b) < 4 \/ Get16(b, 1) < 4 \/ Get16(b, 1) > Len(b) THEN Malformed
    ELSE LET len   == Get16(b, 1)
             here  == Append(path, Get16(b, 3))
             value == SubSeq(b, 5, len)
         IN  (IF here \in NestedIn
              THEN IF Len(value) < FixedPart(here) THEN Malformed
                   ELSE Attributes(Drop(value, FixedPart(here)), here)
              ELSE {<<here, value>>})
             \cup Attributes(Drop(b, Min2(Align4(len), Len(b))), path)

BodyLen(type) == IF type = RTM["newaddr"] THEN 8 ELSE IF type = RTM["newroute"] THEN 12 ELSE 16

Understood(b) ==
    LET type == Get16(b, 5)
        end  == 16 + BodyLen(type)
    IN  [len |-> Get32(b, 1), type |-> type, flags |-> Get16(b, 7),
         body |-> SubSeq(b, 17, end),
         attrs |-> Attributes(SubSeq(b, end + 1, Get32(b, 1)), <<>>)]

-----------------------------------------------------------------------------
(* Properties.                                                             *)

\* What each of the ten requests is meant to say.
NewPair == {<<<<IfName>>, CString(host)>>, <<<<LinkInfo, InfoKind>>, Veth>>,
            <<<<LinkInfo, InfoData, VethInfoPeer, IfName>>, CString(Peer)>>}
LinkNamed(name) == {<<<<ExtMask>>, U32(9)>>, <<<<IfName>>, CString(name)>>}
Address(ip) == {<<<<IfaLocal>>, ip>>, <<<<IfaAddress>>, ip>>}

Meant ==
    << <<"newlink", RequestNew, IfInfo(0, 0, 0), NewPair>>,
       <<"getlink", Request, IfInfo(0, 0, 0), LinkNamed(host)>>,
       <<"newaddr", RequestNew, IfAddr(24, ix.host), Address(HostAddress)>>,
       <<"newlink", RequestAck, IfInfo(ix.host, 1, 1), {}>>,
       <<"getlink", Request, IfInfo(0, 0, 0), LinkNamed(Peer)>>,
       <<"newlink", RequestAck, IfInfo(ix.peer, 0, 0), {<<<<NetNsFd>>, U32(fd)>>}>>,
       <<"newaddr", RequestNew, IfAddr(24, ix.peer), Address(PeerAddress)>>,
       <<"newlink", RequestAck, IfInfo(ix.peer, 1, 1), {}>>,
       <<"newlink", RequestAck, IfInfo(1, 1, 1), {}>>,
       <<"newroute", RequestNew, Rtmsg, {<<<<RtaGateway>>, HostAddress>>}>> >>

\* Every message that create_network() sends is read by the kernel as the
\* request that was meant: its length is that of the whole buffer and nothing
\* of an earlier message is in it, every attribute, nested or not, is found
\* at its place and with its value, whatever the length of the id, and the
\* names that the cut of the id leaves fit the kernel's limit.
MessageUnderstood ==
    done > 0 =>
        LET m == Meant[done] IN
        /\ GoodName(CString(host)) /\ GoodName(CString(Peer))
        /\ Understood(sent) = [len |-> Len(sent), type |-> RTM[m[1]], flags |-> m[2],
                               body |-> m[3], attrs |-> m[4]]
=============================================================================
