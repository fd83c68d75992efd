------------------------------ MODULE Netlink ------------------------------
(***************************************************************************)
(* The messages of create_network(), byte by byte: one Writer whose buffer *)
(* is filled, sent and cleared ten times, attributes that are padded to 4  *)
(* bytes, and nested attributes whose length is patched in when they end.  *)
(* How the kernel reads them is NetlinkReader.  Integers are little endian, *)
(* as on the machines the program is built for.                            *)
(***************************************************************************)
EXTENDS Integers, Sequences

CONSTANTS
    Ids,        \* container ids, as sequences of bytes
    Indices,    \* interface indices the kernel may have given
    Fds         \* descriptors of the child's network namespace

Byte == 0..255
Half == 256 * 256    \* one more than fits in 16 bits
Word == {n \in Nat : n \div Half < Half}    \* what fits in 32
ASSUME IdsAssumption == \A id \in Ids : id \in Seq(Byte \ {0}) /\ id # <<>>
ASSUME NumbersAssumption == \A n \in Indices \cup Fds : n \in Word

VARIABLES
    host,   \* name of the host end of the veth pair
    ix,     \* indices of the two ends
    fd,     \* peer_ns_fd
    done,   \* requests that were sent
    w,      \* the buffer of the Writer
    sent    \* the message that was sent last

nlVars == <<host, ix, fd, done, w, sent>>

-----------------------------------------------------------------------------
(* Writer and the builders of the fixed parts.                             *)

U16(n) == <<n % 256, n \div 256>>
U32(n) == U16(n % Half) \o U16(n \div Half)
Zeros(n) == [i \in 1..n |-> 0]

\* The bytes of v, written over those of b from offset pos on.
Patch(b, pos, v) ==
    [i \in DOMAIN b |-> IF i - pos \in DOMAIN v THEN v[i - pos] ELSE b[i]]

PadToAlign(b) == b \o Zeros((4 - (Len(b) % 4)) % 4)

\* Mutant: the buffer is not cleared after a message.
FlushNot(b) == b

Flush(b) == <<>>

\* Mutant: a nest is measured from behind its header.
NestEndShort(b, pos) == PadToAlign(Patch(b, pos, U16(Len(b) - pos - 4)))

NestStart(b, type) == b \o U16(0) \o U16(type)
NestEnd(b, pos) == PadToAlign(Patch(b, pos, U16(Len(b) - pos)))

RTM == [newlink |-> 16, getlink |-> 18, newaddr |-> 20, newroute |-> 24]
Request == 1
RequestAck == 5
RequestNew == 1541          \* NLM_F_REQUEST, ACK, EXCL and CREATE
IfName == 3
LinkInfo == 18
InfoKind == 1
InfoData == 2
VethInfoPeer == 1
NetNsFd == 28
ExtMask == 29
IfaLocal == 2
IfaAddress == 1
RtaGateway == 5

Header(type, flags) == U32(0) \o U16(RTM[type]) \o U16(flags) \o U32(0) \o U32(0)
IfInfo(index, flags, change) == U32(0) \o U32(index) \o U32(flags) \o U32(change)
IfAddr(prefix, index) == <<2, prefix, 0, 0>> \o U32(index)
Rtmsg == <<2, 0, 0, 0, 254, 3, 0, 1>> \o U32(0)
Rtattr(type, value) == U16(4 + Len(value)) \o U16(type) \o value

\* The length of the whole buffer goes to its first four bytes.
Finish(b) == Patch(b, 0, U32(Len(b)))

-----------------------------------------------------------------------------
(* The messages, appended to what the buffer holds.                        *)

Veth == <<118, 101, 116, 104>>
PeerSuffix == <<95, 112, 101, 101, 114>>
HostAddress == <<10, 0, 0, 1>>
PeerAddress == <<10, 0, 0, 2>>

Peer == host \o PeerSuffix
CString(name) == Append(name, 0)

CreateVethPair(b) ==
    LET named == PadToAlign(b \o Header("newlink", RequestNew) \o IfInfo(0, 0, 0)
                              \o Rtattr(IfName, CString(host)))
        kind  == PadToAlign(NestStart(named, LinkInfo) \o Rtattr(InfoKind, Veth))
        data  == NestStart(kind, InfoData)
        peer  == PadToAlign(NestStart(data, VethInfoPeer) \o IfInfo(0, 0, 0)
                              \o Rtattr(IfName, CString(Peer)))
    IN  Finish(NestEnd(NestEnd(NestEnd(peer, Len(data)), Len(kind)), Len(named)))

SetInterfaceUp(b, index) ==
    Finish(b \o Header("newlink", RequestAck) \o IfInfo(index, 1, 1))

SetIpAddr(b, index, ip) ==
    Finish(b \o Header("newaddr", RequestNew) \o IfAddr(24, index)
             \o Rtattr(IfaLocal, ip) \o Rtattr(IfaAddress, ip))

MoveToNetns(b, index) ==
    Finish(PadToAlign(b \o Header("newlink", RequestAck) \o IfInfo(index, 0, 0)
                        \o Rtattr(NetNsFd, U32(fd))))

GetInterfaceIndex(b, name) ==
    Finish(PadToAlign(PadToAlign(b \o Header("getlink", Request) \o IfInfo(0, 0, 0)
                                   \o Rtattr(ExtMask, U32(9)))
                        \o Rtattr(IfName, CString(name))))

AddDefaultRoute(b, ip) ==
    Finish(PadToAlign(b \o Header("newroute", RequestNew) \o Rtmsg \o Rtattr(RtaGateway, ip)))

\* create_network(), as far as it writes messages.
Messages(b) ==
    << CreateVethPair(b), GetInterfaceIndex(b, host),
       SetIpAddr(b, ix.host, HostAddress), SetInterfaceUp(b, ix.host),
       GetInterfaceIndex(b, Peer), MoveToNetns(b, ix.peer),
       SetIpAddr(b, ix.peer, PeerAddress), SetInterfaceUp(b, ix.peer),
       SetInterfaceUp(b, 1), AddDefaultRoute(b, HostAddress) >>

\* container_id[..container_id.len().min(9)]
Cut(id) == SubSeq(id, 1, IF Len(id) < 9 THEN Len(id) ELSE 9)

NLInit ==
    /\ host \in {Cut(id) : id \in Ids}
    /\ ix \in [{"host", "peer"} -> Indices]
    /\ fd \in Fds
    /\ done = 0
    /\ w = <<>>
    /\ sent = <<>>

\* A send that fails ends create_network(), and the Writer with it.
SendNext ==
    /\ done < 10
    /\ sent' = Messages(w)[done + 1]
    /\ w' = Flush(sent')
    /\ done' = done + 1
    /\ UNCHANGED <<host, ix, fd>>

NLSpec == NLInit /\ [][SendNext]_nlVars

-----------------------------------------------------------------------------
(* Properties.                                                             *)

Get16(b, i) == b[i] + 256 * b[i + 1]
Get32(b, i) == Get16(b, i) + Half * Get16(b, i + 2)
Align4(n) == 4 * ((n + 3) \div 4)

\* A name that the kernel takes: it ends in its only NUL and fits IFNAMSIZ.
GoodName(name) ==
    /\ Len(name) \in 2..16
    /\ \A n \in DOMAIN name : name[n] = 0 <=> n = Len(name)

\* Where IFLA_LINKINFO begins in the first message, behind the padded name.
LinkInfoAt == 32 + Align4(4 + Len(CString(host)))

\* Whatever the id, every message that create_network() sends is framed as the
\* kernel expects: it says its own length, which is a multiple of 4 and which
\* no byte of it overflows; the names that the cut of the id leaves fit the
\* kernel's limit; and of the attributes that Writer nests in the first
\* message each encloses the next and reaches to the end.
Framed ==
    done > 0 =>
        /\ sent \in Seq(Byte)
        /\ Len(sent) % 4 = 0 /\ Get32(sent, 1) = Len(sent)
        /\ GoodName(CString(host)) /\ GoodName(CString(Peer))
        /\ done = 1 => \A at \in {LinkInfoAt, LinkInfoAt + 12, LinkInfoAt + 16} :
                           Get16(sent, at + 1) = Len(sent) - at
=============================================================================
