--------------------------- MODULE NetlinkProofs ---------------------------
(* Proofs about the framing of the messages of create_network(), for every *)
(* id, interface index and descriptor.                                     *)
EXTENDS Netlink, SequenceTheorems, TLAPS

-----------------------------------------------------------------------------
(* Byte sequences of a known length.                                       *)

Bytes(b, n) == b \in Seq(Byte) /\ Len(b) = n

USE DEF Bytes

\* Appending adds up the lengths.
LEMMA Joined ==
    ASSUME NEW a \in Seq(Byte), NEW b \in Seq(Byte)
    PROVE  a \o b \in Seq(Byte) /\ Len(a \o b) = Len(a) + Len(b)
BY ConcatProperties

\* The same of three parts.
LEMMA JoinedThree ==
    ASSUME NEW a \in Seq(Byte), NEW b \in Seq(Byte), NEW c \in Seq(Byte)
    PROVE  a \o b \o c \in Seq(Byte) /\ Len(a \o b \o c) = Len(a) + Len(b) + Len(c)
<1> DEFINE ab == a \o b
<1>1. ab \in Seq(Byte) /\ Len(ab) = Len(a) + Len(b)
  BY Joined
<1> HIDE DEF ab
<1>2. ab \o c \in Seq(Byte) /\ Len(ab \o c) = Len(ab) + Len(c)
  BY <1>1, Joined
<1>3. QED
  BY <1>1, <1>2 DEF ab

\* The same of four.
LEMMA JoinedFour ==
    ASSUME NEW a \in Seq(Byte), NEW b \in Seq(Byte), NEW c \in Seq(Byte), NEW d \in Seq(Byte)
    PROVE  /\ a \o b \o c \o d \in Seq(Byte)
           /\ Len(a \o b \o c \o d) = Len(a) + Len(b) + Len(c) + Len(d)
<1> DEFINE abc == a \o b \o c
<1>1. abc \in Seq(Byte) /\ Len(abc) = Len(a) + Len(b) + Len(c)
  BY JoinedThree
<1> HIDE DEF abc
<1>2. abc \o d \in Seq(Byte) /\ Len(abc \o d) = Len(abc) + Len(d)
  BY <1>1, Joined
<1>3. QED
  BY <1>1, <1>2 DEF abc

\* A number below 2^16 takes two bytes, or four with zeros behind it.
LEMMA Numbers ==
    ASSUME NEW n \in Nat, n < Half
    PROVE  /\ Bytes(U16(n), 2) /\ U16(n) = <<n % 256, n \div 256>>
           /\ Bytes(U32(n), 4) /\ U32(n)[1] = n % 256 /\ U32(n)[2] = n \div 256
           /\ U32(n)[3] = 0 /\ U32(n)[4] = 0
<1> DEFINE lo == n % 256
           hi == n \div 256
           u == U16(n)
           z == U16(0)
<1>1. lo \in Byte /\ hi \in Byte /\ 0 \in Byte
  BY SMT DEF Byte, Half
<1>2. n % Half = n /\ n \div Half = 0
  BY SMT DEF Half
<1>3. z = <<0, 0>> /\ u = <<lo, hi>>
  BY DEF U16
<1>4. U32(n) = u \o z
  BY <1>2 DEF U32
<1> HIDE DEF lo, hi, u, z
<1>5. /\ Bytes(u, 2) /\ u[1] = lo /\ u[2] = hi
      /\ Bytes(z, 2) /\ z[1] = 0 /\ z[2] = 0
  BY <1>1, <1>3
<1> DEFINE q == u \o z
<1>6. /\ q \in Seq(Byte) /\ Len(q) = Len(u) + Len(z)
      /\ \A i \in 1 .. Len(u) + Len(z) : q[i] = IF i <= Len(u) THEN u[i] ELSE z[i - Len(u)]
  BY <1>5, ConcatProperties
<1> HIDE DEF q
<1>7. Bytes(q, 4) /\ q[1] = lo /\ q[2] = hi /\ q[3] = 0 /\ q[4] = 0
  BY <1>5, <1>6
<1>8. QED
  BY <1>3, <1>4, <1>5, <1>7 DEF lo, hi, u, q

\* The numbers that the program writes itself fit in 32 bits.
LEMMA Small == 0 \in Word /\ 1 \in Word
BY SMT DEF Word, Half

\* Whatever fits in 32 bits takes four bytes.
LEMMA Wide ==
    ASSUME NEW n \in Word
    PROVE  Bytes(U32(n), 4)
<1> DEFINE lo == n % Half
           hi == n \div Half
<1>1. lo \in Nat /\ lo < Half /\ hi \in Nat /\ hi < Half
  BY SMT DEF Word, Half
<1>2. Bytes(U16(lo), 2) /\ Bytes(U16(hi), 2)
  BY <1>1, Numbers
<1>3. U32(n) = U16(lo) \o U16(hi)
  BY DEF U32
<1> DEFINE u == U16(lo)
           v == U16(hi)
<1> HIDE DEF lo, hi, u, v
<1>4. u \o v \in Seq(Byte) /\ Len(u \o v) = Len(u) + Len(v)
  BY <1>2, Joined DEF u, v
<1>5. Bytes(u \o v, 4)
  BY <1>2, <1>4 DEF u, v
<1>6. QED
  BY <1>3, <1>5 DEF u, v

\* Padding rounds the length up to a multiple of 4 and changes no byte.
LEMMA Padded ==
    ASSUME NEW n \in Nat, NEW b, Bytes(b, n)
    PROVE  /\ Bytes(PadToAlign(b), Align4(n)) /\ Align4(n) \in Nat /\ Align4(n) % 4 = 0
           /\ n <= Align4(n) /\ Align4(n) <= n + 3
           /\ n % 4 = 0 => PadToAlign(b) = b /\ Align4(n) = n
           /\ \A i \in 1..n : PadToAlign(b)[i] = b[i]
<1> DEFINE z == (4 - (n % 4)) % 4
<1>1. /\ z \in Nat /\ n + z = Align4(n) /\ z <= 3 /\ (n % 4 = 0 => z = 0)
      /\ Align4(n) \in Nat /\ Align4(n) % 4 = 0
  BY DEF Align4
<1>2. PadToAlign(b) = b \o Zeros(z)
  BY DEF PadToAlign, Bytes
<1> HIDE DEF z
<1>3. Bytes(Zeros(z), z)
  <2>1. \A i \in 1..z : 0 \in Byte
    BY DEF Byte
  <2>2. Zeros(z) \in [1..z -> Byte]
    BY <2>1 DEF Zeros
  <2>3. Zeros(z) \in Seq(Byte)
    BY <1>1, <2>2, SeqDef
  <2>4. Len(Zeros(z)) = z
    BY <1>1, <2>2, <2>3, LenProperties
  <2> QED BY <2>3, <2>4 DEF Bytes
<1>4. Bytes(PadToAlign(b), n + z)
  <2> DEFINE y == Zeros(z)
  <2> HIDE DEF y
  <2>1. Bytes(y, z)
    BY <1>3 DEF y
  <2>2. b \o y \in Seq(Byte) /\ Len(b \o y) = Len(b) + Len(y)
    BY <2>1, Joined
  <2> QED BY <1>1, <1>2, <2>1, <2>2 DEF y
<1>5. \A i \in 1..n : PadToAlign(b)[i] = b[i]
  BY <1>2, <1>3, ConcatProperties DEF Bytes
<1>6. z = 0 => PadToAlign(b) = b
  <2> SUFFICES ASSUME z = 0 PROVE PadToAlign(b) = b
    OBVIOUS
  <2>1. Bytes(PadToAlign(b), n)
    BY <1>4
  <2> QED BY <1>5, <2>1, SeqEqual DEF Bytes
<1>7. QED
  BY <1>1, <1>4, <1>5, <1>6

\* A patch keeps the length and every byte that it is not about.
LEMMA Patched ==
    ASSUME NEW b \in Seq(Byte), NEW v \in Seq(Byte), NEW pos \in Nat
    PROVE  /\ Patch(b, pos, v) \in Seq(Byte) /\ Len(Patch(b, pos, v)) = Len(b)
           /\ \A i \in 1..Len(b) : Patch(b, pos, v)[i] =
                  IF pos < i /\ i <= pos + Len(v) THEN v[i - pos] ELSE b[i]
<1> DEFINE n == Len(b)
           m == Len(v)
<1>1. /\ b \in [1..n -> Byte] /\ DOMAIN b = 1..n /\ n \in Nat
      /\ v \in [1..m -> Byte] /\ DOMAIN v = 1..m /\ m \in Nat
  BY LenProperties
<1> HIDE DEF n, m
<1>2. Patch(b, pos, v) = [i \in 1..n |-> IF i - pos \in 1..m THEN v[i - pos] ELSE b[i]]
  BY <1>1 DEF Patch
<1>3. Patch(b, pos, v) \in [1..n -> Byte]
  BY <1>1, <1>2
<1>4. Patch(b, pos, v) \in Seq(Byte)
  BY <1>1, <1>3, SeqDef
<1>5. Len(Patch(b, pos, v)) = n
  BY <1>1, <1>3, <1>4, LenProperties
<1>6. \A i \in 1..n : Patch(b, pos, v)[i] = IF pos < i /\ i <= pos + m THEN v[i - pos] ELSE b[i]
  BY <1>1, <1>2
<1>7. QED
  BY <1>4, <1>5, <1>6 DEF n, m

\* A nest that ends says how far it is from its start to the end of the buffer.
LEMMA NestEnded ==
    ASSUME NEW b \in Seq(Byte), Len(b) < Half, Len(b) % 4 = 0,
           NEW pos \in Nat, pos + 4 <= Len(b)
    PROVE  /\ NestEnd(b, pos) \in Seq(Byte) /\ Len(NestEnd(b, pos)) = Len(b)
           /\ Get16(NestEnd(b, pos), pos + 1) = Len(b) - pos
           /\ \A i \in (1..Len(b)) \ {pos + 1, pos + 2} : NestEnd(b, pos)[i] = b[i]
<1> DEFINE n == Len(b)
           v == U16(n - pos)
           p == Patch(b, pos, v)
<1>0. n \in Nat /\ Bytes(b, n) /\ n < Half /\ n % 4 = 0 /\ pos + 4 <= n
  BY LenProperties
<1> HIDE DEF n
<1>1. n - pos \in Nat /\ n - pos < Half
  BY <1>0, SMT DEF Half
<1>2. Bytes(v, 2) /\ v[1] = (n - pos) % 256 /\ v[2] = (n - pos) \div 256
  BY SMTT(30), <1>1, Numbers
<1> HIDE DEF v
<1>3. /\ Bytes(p, n)
      /\ \A i \in 1..n : p[i] = IF pos < i /\ i <= pos + 2 THEN v[i - pos] ELSE b[i]
  <2>1. /\ p \in Seq(Byte) /\ Len(p) = Len(b)
        /\ \A i \in 1..Len(b) : p[i] = IF pos < i /\ i <= pos + Len(v) THEN v[i - pos] ELSE b[i]
    BY ZenonT(60), <1>2, Patched
  <2> HIDE DEF p
  <2> QED BY <1>0, <1>2, <2>1
<1>4. NestEnd(b, pos) = PadToAlign(p)
  BY <1>0 DEF NestEnd, v
<1> HIDE DEF p
<1>5. NestEnd(b, pos) = p
  BY <1>0, <1>3, <1>4, Padded
<1>6. p[pos + 1] = v[1] /\ p[pos + 2] = v[2]
  <2>1. pos + 1 \in 1..n /\ (pos + 1) - pos = 1
    BY <1>0
  <2>2. pos + 2 \in 1..n /\ (pos + 2) - pos = 2
    BY <1>0
  <2>3. p[pos + 1] = v[1]
    BY <1>3, <2>1
  <2>4. p[pos + 2] = v[2]
    BY <1>3, <2>2
  <2> QED BY <2>3, <2>4
<1>7. Get16(p, pos + 1) = n - pos
  <2>1. (pos + 1) + 1 = pos + 2
    OBVIOUS
  <2>2. Get16(p, pos + 1) = p[pos + 1] + 256 * p[pos + 2]
    BY <2>1 DEF Get16
  <2>3. ((n - pos) % 256) + 256 * ((n - pos) \div 256) = n - pos
    BY <1>1
  <2> QED BY <1>2, <1>6, <2>2, <2>3
<1>8. \A i \in (1..n) \ {pos + 1, pos + 2} : p[i] = b[i]
  BY <1>0, <1>3
<1>9. QED
  BY <1>3, <1>5, <1>7, <1>8 DEF n

\* A finished message says its own length.
LEMMA Finished ==
    ASSUME NEW n \in Nat, 16 <= n, n < Half, NEW b, Bytes(b, n)
    PROVE  /\ Bytes(Finish(b), n) /\ Get32(Finish(b), 1) = n
           /\ \A i \in 5..n : Finish(b)[i] = b[i]
<1> DEFINE v == U32(n)
<1>1. Bytes(v, 4) /\ v[1] = n % 256 /\ v[2] = n \div 256 /\ v[3] = 0 /\ v[4] = 0
  BY Numbers
<1>2. Finish(b) = Patch(b, 0, v)
  BY DEF Finish, Bytes
<1> HIDE DEF v
<1> DEFINE x == 0
           p == Patch(b, x, v)
<1>3. /\ Bytes(p, n)
      /\ \A i \in 1..n : p[i] = IF i <= 4 THEN v[i] ELSE b[i]
  <2>1. /\ p \in Seq(Byte) /\ Len(p) = Len(b)
        /\ \A i \in 1..Len(b) : p[i] = IF x < i /\ i <= x + Len(v) THEN v[i - x] ELSE b[i]
    <3>1. x \in Nat
      OBVIOUS
    <3>2. v \in Seq(Byte) /\ b \in Seq(Byte)
      BY <1>1
    <3> HIDE DEF x
    <3> QED BY <3>1, <3>2, Patched, ZenonT(60)
  <2> HIDE DEF p
  <2> QED BY <1>1, <2>1
<1> HIDE DEF p
<1>4. p[1] = v[1] /\ p[2] = v[2] /\ p[3] = v[3] /\ p[4] = v[4]
  BY <1>3
<1>5. Get32(p, 1) = n
  BY <1>1, <1>4, SMT DEF Get32, Get16, Half
<1>6. \A i \in 5..n : p[i] = b[i]
  BY <1>3
<1>7. QED
  BY <1>2, <1>3, <1>5, <1>6 DEF p

-----------------------------------------------------------------------------
(* The parts of a message.                                                 *)

\* The fixed parts have the lengths of the kernel's structures.
LEMMA FixedParts ==
    ASSUME NEW type \in DOMAIN RTM, NEW flags \in {Request, RequestAck, RequestNew},
           NEW index \in Word, NEW bit \in {0, 1}
    PROVE  /\ Bytes(Header(type, flags), 16)
           /\ Bytes(IfInfo(index, bit, bit), 16)
           /\ Bytes(IfAddr(24, index), 8)
           /\ Bytes(Rtmsg, 12)
<1>0. /\ RTM[type] \in Nat /\ RTM[type] < Half /\ flags \in Nat /\ flags < Half
      /\ bit \in Nat /\ bit < Half /\ 0 \in Nat /\ 0 < Half
  BY DEF RTM, Request, RequestAck, RequestNew, Half
<1> DEFINE o == U32(0)
           t == U16(RTM[type])
           f == U16(flags)
           x == U32(index)
           y == U32(bit)
<1>1. Bytes(o, 4) /\ Bytes(t, 2) /\ Bytes(f, 2) /\ Bytes(x, 4) /\ Bytes(y, 4)
  BY <1>0, Numbers, Wide
<1> HIDE DEF o, t, f, x, y
<1>2. Bytes(Header(type, flags), 16)
  <2> DEFINE q == o \o t \o f \o o
  <2>1. q \in Seq(Byte) /\ Len(q) = Len(o) + Len(t) + Len(f) + Len(o)
    <3>1. o \in Seq(Byte) /\ t \in Seq(Byte) /\ f \in Seq(Byte)
      BY <1>1
    <3> QED BY <3>1, JoinedFour, ZenonT(60)
  <2> HIDE DEF q
  <2>2. q \o o \in Seq(Byte) /\ Len(q \o o) = Len(q) + Len(o)
    BY <1>1, <2>1, Joined
  <2> DEFINE h == q \o o
  <2> HIDE DEF h
  <2>3. Bytes(h, 16)
    BY <1>1, <2>1, <2>2 DEF h
  <2> QED BY <2>3 DEF Header, h, q, o, t, f
<1>3. Bytes(IfInfo(index, bit, bit), 16)
  <2> DEFINE q == o \o x \o y \o y
  <2>1. q \in Seq(Byte) /\ Len(q) = Len(o) + Len(x) + Len(y) + Len(y)
    <3>1. o \in Seq(Byte) /\ x \in Seq(Byte) /\ y \in Seq(Byte)
      BY <1>1
    <3> QED BY <3>1, JoinedFour, ZenonT(60)
  <2> HIDE DEF q
  <2>2. Bytes(q, 16)
    BY <1>1, <2>1
  <2> QED BY <2>2 DEF IfInfo, q, o, x, y
<1>4. Bytes(IfAddr(24, index), 8)
  <2> DEFINE q == <<2, 24, 0, 0>>
  <2>1. Bytes(q, 4)
    BY DEF Byte
  <2> HIDE DEF q
  <2> DEFINE r == q \o x
  <2>2. r \in Seq(Byte) /\ Len(r) = Len(q) + Len(x)
    BY <1>1, <2>1, Joined
  <2> HIDE DEF r
  <2>3. Bytes(r, 8)
    BY <1>1, <2>1, <2>2
  <2> QED BY <2>3 DEF IfAddr, r, q, x
<1>5. Bytes(Rtmsg, 12)
  <2> DEFINE q == <<2, 0, 0, 0, 254, 3, 0, 1>>
  <2>1. Bytes(q, 8)
    BY DEF Byte
  <2> HIDE DEF q
  <2> DEFINE r == q \o o
  <2>2. r \in Seq(Byte) /\ Len(r) = Len(q) + Len(o)
    BY <1>1, <2>1, Joined
  <2> HIDE DEF r
  <2>3. Bytes(r, 12)
    BY <1>1, <2>1, <2>2
  <2> QED BY <2>3 DEF Rtmsg, r, q, o
<1>6. QED
  BY <1>2, <1>3, <1>4, <1>5

\* An attribute is its value behind a header of four bytes.
LEMMA Attribute ==
    ASSUME NEW type \in Nat, type < Half, NEW v \in Seq(Byte), Len(v) <= 256
    PROVE  Rtattr(type, v) \in Seq(Byte) /\ Len(Rtattr(type, v)) = 4 + Len(v)
<1> DEFINE l == U16(4 + Len(v))
           t == U16(type)
<1>1. 4 + Len(v) \in Nat /\ 4 + Len(v) < Half
  BY LenProperties DEF Half
<1>2. Bytes(l, 2) /\ Bytes(t, 2)
  BY <1>1, Numbers
<1> HIDE DEF l, t
<1> DEFINE q == l \o t \o v
<1>3. q \in Seq(Byte) /\ Len(q) = Len(l) + Len(t) + Len(v)
  BY <1>2, JoinedThree
<1> HIDE DEF q
<1>4. q \in Seq(Byte) /\ Len(q) = 4 + Len(v)
  BY <1>2, <1>3
<1>5. QED
  BY <1>4 DEF Rtattr, q, l, t

\* A nest starts with a header of four bytes.
LEMMA NestStarted ==
    ASSUME NEW type \in Nat, type < Half, NEW b \in Seq(Byte)
    PROVE  /\ NestStart(b, type) \in Seq(Byte) /\ Len(NestStart(b, type)) = Len(b) + 4
<1> DEFINE o == U16(0)
           t == U16(type)
<1>1. 0 \in Nat /\ 0 < Half
  BY DEF Half
<1>2. Bytes(o, 2) /\ Bytes(t, 2)
  BY <1>1, Numbers
<1> HIDE DEF o, t
<1> DEFINE q == b \o o \o t
<1>3. q \in Seq(Byte) /\ Len(q) = Len(b) + Len(o) + Len(t)
  BY <1>2, JoinedThree
<1> HIDE DEF q
<1>4. q \in Seq(Byte) /\ Len(q) = Len(b) + 4
  BY <1>2, <1>3
<1>5. QED
  BY <1>4 DEF NestStart, q, o, t

\* A message begins with its header and a fixed part, in a buffer that is clear.
LEMMA Begun ==
    ASSUME NEW b, Bytes(b, 0), NEW type \in DOMAIN RTM,
           NEW flags \in {Request, RequestAck, RequestNew}, NEW body \in Seq(Byte)
    PROVE  /\ b \o Header(type, flags) \o body \in Seq(Byte)
           /\ Len(b \o Header(type, flags) \o body) = 16 + Len(body)
<1> DEFINE h == Header(type, flags)
           q == b \o h \o body
<1>1. Bytes(h, 16)
  <2>1. 0 \in Word
    BY Small
  <2> QED BY <2>1, FixedParts
<1> HIDE DEF h
<1>2. q \in Seq(Byte) /\ Len(q) = Len(b) + Len(h) + Len(body)
  BY <1>1, JoinedThree
<1> HIDE DEF q
<1>3. q \in Seq(Byte) /\ Len(q) = 16 + Len(body)
  BY <1>1, <1>2
<1>4. QED
  BY <1>3 DEF q, h

\* An attribute is added at the end.
LEMMA Added ==
    ASSUME NEW b \in Seq(Byte), NEW type \in Nat, type < Half, NEW v \in Seq(Byte), Len(v) <= 256
    PROVE  /\ b \o Rtattr(type, v) \in Seq(Byte)
           /\ Len(b \o Rtattr(type, v)) = Len(b) + 4 + Len(v)
<1> DEFINE r == Rtattr(type, v)
           q == b \o r
<1>1. r \in Seq(Byte) /\ Len(r) = 4 + Len(v)
  BY Attribute
<1> HIDE DEF r
<1>2. q \in Seq(Byte) /\ Len(q) = Len(b) + Len(r)
  BY <1>1, Joined
<1> HIDE DEF q
<1>3. q \in Seq(Byte) /\ Len(q) = Len(b) + 4 + Len(v)
  BY <1>1, <1>2
<1>4. QED
  BY <1>3 DEF q, r

\* The message says its length, a multiple of 4, and is made of bytes.
GoodFrame(m) == m \in Seq(Byte) /\ Len(m) % 4 = 0 /\ Get32(m, 1) = Len(m)

\* What Finish makes of a padded buffer.
LEMMA FrameMade ==
    ASSUME NEW b \in Seq(Byte), 16 <= Len(b), Len(b) < Half, Len(b) % 4 = 0
    PROVE  GoodFrame(Finish(b)) /\ Len(Finish(b)) = Len(b)
<1> DEFINE n == Len(b)
           m == Finish(b)
<1>1. n \in Nat
  BY LenProperties
<1>2. m \in Seq(Byte) /\ Len(m) = n /\ Get32(m, 1) = n
  BY <1>1, Finished
<1> HIDE DEF m
<1>3. GoodFrame(m) /\ Len(m) = n
  BY <1>2 DEF GoodFrame
<1>4. QED
  BY <1>3 DEF m

-----------------------------------------------------------------------------
(* The messages.                                                           *)

\* The types of attributes fit their field.
LEMMA Types ==
    /\ \A t \in {IfName, LinkInfo, InfoKind, InfoData, VethInfoPeer, NetNsFd, ExtMask,
                 IfaLocal, IfaAddress, RtaGateway} : t \in Nat /\ t < Half
    /\ 0 \in Nat /\ 1 \in Nat /\ 9 \in Nat /\ 0 < Half /\ 1 < Half /\ 9 < Half
BY DEF IfName, LinkInfo, InfoKind, InfoData, VethInfoPeer, NetNsFd, ExtMask, IfaLocal,
       IfaAddress, RtaGateway, Half

\* The types of the messages.
LEMMA Kinds ==
    /\ "newlink" \in DOMAIN RTM /\ "getlink" \in DOMAIN RTM
    /\ "newaddr" \in DOMAIN RTM /\ "newroute" \in DOMAIN RTM
BY DEF RTM

\* A link is brought up.
LEMMA UpFramed ==
    ASSUME NEW b, Bytes(b, 0), NEW index \in Word
    PROVE  GoodFrame(SetInterfaceUp(b, index))
<1> DEFINE f == IfInfo(index, 1, 1)
           q == b \o Header("newlink", RequestAck) \o f
<1>1. Bytes(f, 16)
  BY FixedParts DEF RTM
<1> HIDE DEF f
<1>2. q \in Seq(Byte) /\ Len(q) = 16 + Len(f)
  <2>1. f \in Seq(Byte)
    BY <1>1
  <2>2. RequestAck \in {Request, RequestAck, RequestNew} /\ "newlink" \in DOMAIN RTM
    BY Kinds
  <2> QED BY <2>1, <2>2, Begun, ZenonT(60)
<1> HIDE DEF q
<1>3. q \in Seq(Byte) /\ 16 <= Len(q) /\ Len(q) < Half /\ Len(q) % 4 = 0
  BY <1>1, <1>2 DEF Half
<1>4. GoodFrame(Finish(q))
  BY <1>3, FrameMade
<1>5. QED
  BY <1>4 DEF SetInterfaceUp, q, f

\* An address is set.
LEMMA AddrFramed ==
    ASSUME NEW b, Bytes(b, 0), NEW index \in Word, NEW ip, Bytes(ip, 4)
    PROVE  GoodFrame(SetIpAddr(b, index, ip))
<1> DEFINE f == IfAddr(24, index)
           q == b \o Header("newaddr", RequestNew) \o f
           r == q \o Rtattr(IfaLocal, ip)
           m == r \o Rtattr(IfaAddress, ip)
<1>0. ip \in Seq(Byte) /\ Len(ip) <= 256
  OBVIOUS
<1>1. Bytes(f, 8)
  BY FixedParts DEF RTM
<1> HIDE DEF f
<1>2. q \in Seq(Byte) /\ Len(q) = 16 + Len(f)
  <2>1. f \in Seq(Byte)
    BY <1>1
  <2>2. RequestNew \in {Request, RequestAck, RequestNew} /\ "newaddr" \in DOMAIN RTM
    BY Kinds
  <2> QED BY <2>1, <2>2, Begun, ZenonT(60)
<1> HIDE DEF q
<1>3. r \in Seq(Byte) /\ Len(r) = Len(q) + 4 + Len(ip)
  BY <1>0, <1>2, Added, Types, ZenonT(60)
<1> HIDE DEF r
<1>4. m \in Seq(Byte) /\ Len(m) = Len(r) + 4 + Len(ip)
  BY <1>0, <1>3, Added, Types, ZenonT(60)
<1> HIDE DEF m
<1>5. m \in Seq(Byte) /\ 16 <= Len(m) /\ Len(m) < Half /\ Len(m) % 4 = 0
  BY <1>1, <1>2, <1>3, <1>4 DEF Half
<1>6. GoodFrame(Finish(m))
  BY <1>5, FrameMade
<1>7. QED
  BY <1>6 DEF SetIpAddr, m, r, q, f

\* The peer is moved to the namespace behind a descriptor.
LEMMA MoveFramed ==
    ASSUME NEW b, Bytes(b, 0), NEW index \in Word, fd \in Word
    PROVE  GoodFrame(MoveToNetns(b, index))
<1> DEFINE f == IfInfo(index, 0, 0)
           v == U32(fd)
           q == b \o Header("newlink", RequestAck) \o f
           r == q \o Rtattr(NetNsFd, v)
<1>0. Bytes(v, 4)
  BY Wide
<1>1. Bytes(f, 16)
  BY FixedParts DEF RTM
<1> HIDE DEF f, v
<1>2. q \in Seq(Byte) /\ Len(q) = 16 + Len(f)
  <2>1. f \in Seq(Byte)
    BY <1>1
  <2>2. RequestAck \in {Request, RequestAck, RequestNew} /\ "newlink" \in DOMAIN RTM
    BY Kinds
  <2> QED BY <2>1, <2>2, Begun, ZenonT(60)
<1> HIDE DEF q
<1>3. r \in Seq(Byte) /\ Len(r) = Len(q) + 4 + Len(v)
  <2>1. v \in Seq(Byte) /\ Len(v) <= 256
    BY <1>0
  <2> QED BY <2>1, <1>2, Added, Types, ZenonT(60)
<1> HIDE DEF r
<1>4. Bytes(r, 40)
  BY <1>0, <1>1, <1>2, <1>3
<1>5. PadToAlign(r) = r
  <2>1. 40 \in Nat /\ 40 % 4 = 0
    OBVIOUS
  <2> QED BY <1>4, <2>1, Padded
<1>6. GoodFrame(Finish(r))
  <2>1. r \in Seq(Byte) /\ 16 <= Len(r) /\ Len(r) < Half /\ Len(r) % 4 = 0
    BY <1>4 DEF Half
  <2> QED BY <2>1, FrameMade
<1>7. QED
  BY <1>5, <1>6 DEF MoveToNetns, r, q, f, v

\* The default route is added.
LEMMA RouteFramed ==
    ASSUME NEW b, Bytes(b, 0), NEW ip, Bytes(ip, 4)
    PROVE  GoodFrame(AddDefaultRoute(b, ip))
<1> DEFINE q == b \o Header("newroute", RequestNew) \o Rtmsg
           r == q \o Rtattr(RtaGateway, ip)
<1>0. ip \in Seq(Byte) /\ Len(ip) <= 256
  OBVIOUS
<1>1. Bytes(Rtmsg, 12)
  BY FixedParts, Small, Types DEF RTM
<1>2. q \in Seq(Byte) /\ Len(q) = 16 + Len(Rtmsg)
  <2>1. Rtmsg \in Seq(Byte)
    BY <1>1
  <2>2. RequestNew \in {Request, RequestAck, RequestNew} /\ "newroute" \in DOMAIN RTM
    BY Kinds
  <2> QED BY <2>1, <2>2, Begun, ZenonT(60)
<1> HIDE DEF q
<1>3. r \in Seq(Byte) /\ Len(r) = Len(q) + 4 + Len(ip)
  BY <1>0, <1>2, Added, Types, ZenonT(60)
<1> HIDE DEF r
<1>4. Bytes(r, 36)
  BY <1>0, <1>1, <1>2, <1>3
<1>5. PadToAlign(r) = r
  <2>1. 36 \in Nat /\ 36 % 4 = 0
    OBVIOUS
  <2> QED BY <1>4, <2>1, Padded
<1>6. GoodFrame(Finish(r))
  <2>1. r \in Seq(Byte) /\ 16 <= Len(r) /\ Len(r) < Half /\ Len(r) % 4 = 0
    BY <1>4 DEF Half
  <2> QED BY <2>1, FrameMade
<1>7. QED
  BY <1>5, <1>6 DEF AddDefaultRoute, r, q

\* An index is asked for by name.
LEMMA IndexFramed ==
    ASSUME NEW b, Bytes(b, 0), NEW name, NEW s \in Seq(Byte), s = CString(name), Len(s) <= 16
    PROVE  GoodFrame(GetInterfaceIndex(b, name))
<1> DEFINE f == IfInfo(0, 0, 0)
           v == U32(9)
           q == b \o Header("getlink", Request) \o f
           r == q \o Rtattr(ExtMask, v)
           p == PadToAlign(r)
           m == p \o Rtattr(IfName, s)
           x == PadToAlign(m)
<1>0. Bytes(v, 4)
  BY Types, Numbers
<1>1. Bytes(f, 16)
  BY FixedParts, Small, Types DEF RTM
<1> HIDE DEF f, v
<1>2. q \in Seq(Byte) /\ Len(q) = 16 + Len(f)
  <2>1. f \in Seq(Byte)
    BY <1>1
  <2>2. Request \in {Request, RequestAck, RequestNew} /\ "getlink" \in DOMAIN RTM
    BY Kinds
  <2> QED BY <2>1, <2>2, Begun, ZenonT(60)
<1> HIDE DEF q
<1>3. r \in Seq(Byte) /\ Len(r) = Len(q) + 4 + Len(v)
  <2>1. v \in Seq(Byte) /\ Len(v) <= 256
    BY <1>0
  <2> QED BY <2>1, <1>2, Added, Types, ZenonT(60)
<1> HIDE DEF r
<1>4. Bytes(r, 40)
  BY <1>0, <1>1, <1>2, <1>3
<1>5. p = r
  <2>1. 40 \in Nat /\ 40 % 4 = 0
    OBVIOUS
  <2> QED BY <1>4, <2>1, Padded
<1> HIDE DEF p
<1>6. m \in Seq(Byte) /\ Len(m) = Len(p) + 4 + Len(s)
  <2>1. p \in Seq(Byte)
    BY <1>4, <1>5
  <2>2. Len(s) <= 256
    BY LenProperties
  <2>3. IfName \in Nat /\ IfName < Half
    BY Types
  <2> QED BY <2>1, <2>2, <2>3, Added, ZenonT(60)
<1> HIDE DEF m
<1>7. Len(s) \in Nat /\ Len(m) \in Nat /\ Len(m) = 44 + Len(s)
  BY <1>4, <1>5, <1>6, LenProperties
<1>8. /\ x \in Seq(Byte) /\ Len(x) % 4 = 0 /\ Len(x) \in Nat
      /\ Len(m) <= Len(x) /\ Len(x) <= Len(m) + 3
  BY <1>6, <1>7, Padded
<1> HIDE DEF x
<1>9. GoodFrame(Finish(x))
  <2>1. 16 <= Len(x) /\ Len(x) < Half
    BY <1>7, <1>8 DEF Half
  <2> QED BY <1>8, <2>1, FrameMade
<1>10. QED
  BY <1>9 DEF GetInterfaceIndex, x, m, p, r, q, f, v

\* The three nests of the first message, each around the next, with all that
\* Writer does between the first name and Finish.
LEMMA PairFramed ==
    ASSUME NEW b, Bytes(b, 0), NEW hs \in Seq(Byte), hs = CString(host), Len(hs) <= 16,
           NEW ps \in Seq(Byte), ps = CString(Peer), Len(ps) <= 16
    PROVE  /\ GoodFrame(CreateVethPair(b))
           /\ \A at \in {LinkInfoAt, LinkInfoAt + 12, LinkInfoAt + 16} :
                 Get16(CreateVethPair(b), at + 1) = Len(CreateVethPair(b)) - at
<1> DEFINE f == IfInfo(0, 0, 0)
           q == b \o Header("newlink", RequestNew) \o f
           r == q \o Rtattr(IfName, hs)
           named == PadToAlign(r)
           k1 == NestStart(named, LinkInfo)
           k2 == k1 \o Rtattr(InfoKind, Veth)
           kind == PadToAlign(k2)
           data == NestStart(kind, InfoData)
           d1 == NestStart(data, VethInfoPeer)
           d2 == d1 \o f
           d3 == d2 \o Rtattr(IfName, ps)
           peer == PadToAlign(d3)
           e1 == NestEnd(peer, Len(data))
           e2 == NestEnd(e1, Len(kind))
           e3 == NestEnd(e2, Len(named))
<1>0. CreateVethPair(b) = Finish(e3)
  BY DEF CreateVethPair
<1>1. Bytes(f, 16)
  BY FixedParts, Small, Types DEF RTM
<1>2. Len(hs) \in Nat /\ Len(ps) \in Nat /\ Len(hs) <= 256 /\ Len(ps) <= 256
  BY LenProperties
<1>3. Bytes(Veth, 4)
  BY DEF Veth, Byte
<1>4. \A t \in {IfName, LinkInfo, InfoKind, InfoData, VethInfoPeer} : t \in Nat /\ t < Half
  BY Types
<1> HIDE DEF f
<1>5. q \in Seq(Byte) /\ Len(q) = 16 + Len(f)
  <2>1. f \in Seq(Byte)
    BY <1>1
  <2>2. RequestNew \in {Request, RequestAck, RequestNew} /\ "newlink" \in DOMAIN RTM
    BY Kinds
  <2> QED BY <2>1, <2>2, Begun, ZenonT(60)
<1> HIDE DEF q
<1>6. r \in Seq(Byte) /\ Len(r) = Len(q) + 4 + Len(hs)
  BY <1>2, <1>4, <1>5, Added, ZenonT(60)
<1> HIDE DEF r
<1> DEFINE n == Len(named)
<1>7. /\ named \in Seq(Byte) /\ n = Align4(Len(r)) /\ n \in Nat /\ n % 4 = 0
      /\ Len(r) <= n /\ n <= Len(r) + 3 /\ Len(r) = 36 + Len(hs)
  <2>1. Len(r) \in Nat /\ Len(r) = 36 + Len(hs)
    BY <1>1, <1>2, <1>5, <1>6
  <2> QED BY <1>6, <2>1, Padded
<1>N. Len(named) = n /\ named \in Seq(Byte) /\ n \in Nat /\ n % 4 = 0 /\ 36 <= n /\ n <= 55
  BY <1>2, <1>7
<1> HIDE DEF named, n
<1>8. k1 \in Seq(Byte) /\ Len(k1) = n + 4
  <2>1. k1 \in Seq(Byte) /\ Len(k1) = Len(named) + 4
    BY <1>4, <1>N, NestStarted
  <2> QED BY <1>N, <2>1
<1> HIDE DEF k1
<1>9. k2 \in Seq(Byte) /\ Len(k2) = Len(k1) + 4 + Len(Veth)
  <2>1. Veth \in Seq(Byte) /\ Len(Veth) <= 256
    BY <1>3
  <2> QED BY <1>4, <1>8, <2>1, Added, ZenonT(60)
<1> HIDE DEF k2
<1>10. Bytes(kind, n + 12) /\ n + 12 \in Nat
  <2>1. Len(k2) \in Nat /\ Len(k2) = n + 12 /\ Len(k2) % 4 = 0
    BY <1>3, <1>N, <1>8, <1>9
  <2>2. kind = k2
    BY <1>9, <2>1, Padded
  <2> QED BY <1>9, <2>1, <2>2
<1> HIDE DEF kind
<1>11. Bytes(data, n + 16)
  <2>1. data \in Seq(Byte) /\ Len(data) = Len(kind) + 4
    BY <1>4, <1>10, NestStarted
  <2> HIDE DEF data
  <2> QED BY <1>N, <1>10, <2>1
<1> HIDE DEF data
<1>12. Bytes(d1, n + 20)
  <2>1. d1 \in Seq(Byte) /\ Len(d1) = Len(data) + 4
    BY <1>4, <1>11, NestStarted
  <2> HIDE DEF d1
  <2> QED BY <1>N, <1>11, <2>1
<1> HIDE DEF d1
<1>13. Bytes(d2, n + 36)
  <2>1. d2 \in Seq(Byte) /\ Len(d2) = Len(d1) + Len(f)
    BY <1>1, <1>12, Joined
  <2> HIDE DEF d2
  <2> QED BY <1>1, <1>N, <1>12, <2>1
<1> HIDE DEF d2
<1>14. d3 \in Seq(Byte) /\ Len(d3) = n + 40 + Len(ps)
  <2>1. d3 \in Seq(Byte) /\ Len(d3) = Len(d2) + 4 + Len(ps)
    <3>1. d2 \in Seq(Byte)
      BY <1>13
    <3> QED BY <1>2, <1>4, <3>1, Added, ZenonT(60)
  <2> HIDE DEF d3
  <2> QED BY <1>2, <1>N, <1>13, <2>1
<1> HIDE DEF d3
<1> DEFINE l == Len(peer)
<1>15. Bytes(peer, l) /\ l \in Nat /\ l % 4 = 0 /\ n + 40 <= l /\ l <= 114
  <2>1. Len(d3) \in Nat
    BY <1>2, <1>N, <1>14
  <2>2. peer \in Seq(Byte) /\ l \in Nat /\ l % 4 = 0 /\ Len(d3) <= l /\ l <= Len(d3) + 3
    BY <1>14, <2>1, Padded
  <2>3. Bytes(peer, l)
    BY <2>2
  <2> HIDE DEF peer, l
  <2>4. n + 40 <= l /\ l <= 114
    <3> DEFINE c == Len(ps)
    <3>1. c \in Nat /\ c <= 16 /\ n + 40 + c <= l /\ l <= n + 40 + c + 3
      BY <1>2, <1>14, <2>2
    <3> HIDE DEF c
    <3> QED BY <1>N, <2>2, <3>1
  <2> QED BY <2>2, <2>3, <2>4
<1> HIDE DEF peer, l
<1>L. l < Half
  BY <1>15, SMT DEF Half
<1> DEFINE x == Len(data)
           y == Len(kind)
<1>16. x \in Nat /\ y \in Nat /\ x = n + 16 /\ y = n + 12
  BY <1>N, <1>10, <1>11
<1>17. n = LinkInfoAt
  <2>1. LinkInfoAt = 32 + Align4(4 + Len(hs))
    BY DEF LinkInfoAt
  <2>2. n = Align4(36 + Len(hs))
    BY <1>7
  <2> QED BY <1>2, <2>1, <2>2, SMT DEF Align4
<1> HIDE DEF x, y
<1>18. /\ Bytes(e1, l) /\ Get16(e1, x + 1) = l - x
       /\ \A i \in (1..l) \ {x + 1, x + 2} : e1[i] = peer[i]
  <2>1. /\ peer \in Seq(Byte) /\ Len(peer) < Half /\ Len(peer) % 4 = 0
        /\ x \in Nat /\ x + 4 <= Len(peer)
    BY <1>N, <1>15, <1>16, <1>L
  <2>2. e1 = NestEnd(peer, x)
    BY DEF x
  <2>3. /\ NestEnd(peer, x) \in Seq(Byte) /\ Len(NestEnd(peer, x)) = Len(peer)
        /\ Get16(NestEnd(peer, x), x + 1) = Len(peer) - x
        /\ \A i \in (1..Len(peer)) \ {x + 1, x + 2} : NestEnd(peer, x)[i] = peer[i]
    BY <2>1, NestEnded
  <2> HIDE DEF e1
  <2> QED BY <1>15, <2>2, <2>3, ZenonT(60)
<1> HIDE DEF e1
<1>19. /\ Bytes(e2, l) /\ Get16(e2, y + 1) = l - y
       /\ \A i \in (1..l) \ {y + 1, y + 2} : e2[i] = e1[i]
  <2>1. /\ e1 \in Seq(Byte) /\ Len(e1) < Half /\ Len(e1) % 4 = 0
        /\ y \in Nat /\ y + 4 <= Len(e1)
    BY <1>N, <1>15, <1>16, <1>18, <1>L
  <2>2. e2 = NestEnd(e1, y)
    BY DEF y
  <2>3. /\ NestEnd(e1, y) \in Seq(Byte) /\ Len(NestEnd(e1, y)) = Len(e1)
        /\ Get16(NestEnd(e1, y), y + 1) = Len(e1) - y
        /\ \A i \in (1..Len(e1)) \ {y + 1, y + 2} : NestEnd(e1, y)[i] = e1[i]
    BY <2>1, NestEnded
  <2> HIDE DEF e2
  <2> QED BY <1>18, <2>2, <2>3, ZenonT(60)
<1> HIDE DEF e2
<1>20. /\ Bytes(e3, l) /\ Get16(e3, n + 1) = l - n
       /\ \A i \in (1..l) \ {n + 1, n + 2} : e3[i] = e2[i]
  <2>1. /\ e2 \in Seq(Byte) /\ Len(e2) < Half /\ Len(e2) % 4 = 0
        /\ n \in Nat /\ n + 4 <= Len(e2)
    BY <1>N, <1>15, <1>19, <1>L
  <2>2. e3 = NestEnd(e2, n)
    BY <1>N
  <2>3. /\ NestEnd(e2, n) \in Seq(Byte) /\ Len(NestEnd(e2, n)) = Len(e2)
        /\ Get16(NestEnd(e2, n), n + 1) = Len(e2) - n
        /\ \A i \in (1..Len(e2)) \ {n + 1, n + 2} : NestEnd(e2, n)[i] = e2[i]
    BY <2>1, NestEnded
  <2> HIDE DEF e3
  <2> QED BY <1>19, <2>2, <2>3, ZenonT(60)
<1> HIDE DEF e3
<1> DEFINE m == Finish(e3)
<1>21. n \in Nat /\ 36 <= n /\ n + 40 <= l /\ 16 <= l
  BY <1>N, <1>15
<1>22. GoodFrame(m) /\ Len(m) = l /\ \A i \in 5..l : m[i] = e3[i]
  <2>1. e3 \in Seq(Byte) /\ 16 <= Len(e3) /\ Len(e3) < Half /\ Len(e3) % 4 = 0
    BY <1>15, <1>20, <1>21, <1>L
  <2>2. GoodFrame(m) /\ Len(m) = l
    BY <1>20, <2>1, FrameMade
  <2>3. \A i \in 5..l : m[i] = e3[i]
    BY <1>15, <1>20, <1>21, <1>L, Finished, ZenonT(60)
  <2> QED BY <2>2, <2>3
<1> HIDE DEF m
<1>23. Get16(m, n + 1) = l - n
  <2>1. m[n + 1] = e3[n + 1] /\ m[n + 1 + 1] = e3[n + 1 + 1]
    BY <1>15, <1>21, <1>22
  <2> QED BY <1>20, <2>1 DEF Get16
<1>24. Get16(m, y + 1) = l - y
  <2>1. m[y + 1] = e2[y + 1] /\ m[y + 1 + 1] = e2[y + 1 + 1]
    BY <1>15, <1>16, <1>20, <1>21, <1>22
  <2> QED BY <1>19, <2>1 DEF Get16
<1>25. Get16(m, x + 1) = l - x
  <2>1. m[x + 1] = e1[x + 1] /\ m[x + 1 + 1] = e1[x + 1 + 1]
    BY <1>15, <1>16, <1>19, <1>20, <1>21, <1>22
  <2> QED BY <1>18, <2>1 DEF Get16
<1>26. \A at \in {n, n + 12, n + 16} : Get16(m, at + 1) = Len(m) - at
  BY <1>16, <1>22, <1>23, <1>24, <1>25
<1>27. QED
  <2>1. CreateVethPair(b) = m
    BY <1>0 DEF m
  <2> QED BY <1>17, <1>22, <1>26, <2>1

-----------------------------------------------------------------------------
(* The names.                                                              *)

NLType ==
    /\ host \in Seq(Byte \ {0}) /\ Len(host) \in Nat /\ 1 <= Len(host) /\ Len(host) <= 9
    /\ \A n \in {ix.host, ix.peer, fd} : n \in Word
    /\ done \in 0..10
    /\ w = <<>>

\* A name of at most 15 bytes other than NUL is one the kernel takes.
LEMMA NameGood ==
    ASSUME NEW name \in Seq(Byte \ {0}), Len(name) \in Nat, 1 <= Len(name), Len(name) <= 15
    PROVE  /\ CString(name) \in Seq(Byte) /\ Len(CString(name)) <= 16
           /\ GoodName(CString(name))
<1> DEFINE s == CString(name)
           n == Len(name)
<1>1. /\ s \in Seq(Byte) /\ Len(s) = n + 1 /\ DOMAIN s = 1 .. n + 1
      /\ s[n + 1] = 0 /\ \A i \in 1..n : s[i] = name[i] /\ s[i] # 0
  <2>1. name \in Seq(Byte) /\ 0 \in Byte
    BY SeqMonotonic DEF Byte
  <2>2. \A i \in 1..n : name[i] # 0
    BY ElementOfSeq
  <2>3. s = Append(name, 0)
    BY DEF CString
  <2> QED BY <2>1, <2>2, <2>3, AppendProperties
<1> HIDE DEF s
<1>2. Len(s) \in 2..16 /\ Len(s) <= 16
  BY SMTT(30), <1>1
<1>3. \A i \in DOMAIN s : s[i] = 0 <=> i = Len(s)
  BY <1>1
<1>4. QED
  BY <1>1, <1>2, <1>3 DEF GoodName, s

\* The name of the peer fits too: five bytes more than at most nine.
LEMMA PeerNamed ==
    ASSUME NLType
    PROVE  /\ Peer \in Seq(Byte \ {0}) /\ Len(Peer) \in Nat
           /\ 1 <= Len(Peer) /\ Len(Peer) <= 15
<1> DEFINE q == host \o PeerSuffix
<1>1. PeerSuffix \in Seq(Byte \ {0}) /\ Len(PeerSuffix) = 5
  BY DEF PeerSuffix, Byte
<1>2. q \in Seq(Byte \ {0}) /\ Len(q) = Len(host) + Len(PeerSuffix)
  BY <1>1, ConcatProperties DEF NLType
<1> HIDE DEF q
<1>3. Len(q) \in Nat /\ 1 <= Len(q) /\ Len(q) <= 15
  BY <1>1, <1>2 DEF NLType
<1>4. QED
  BY <1>2, <1>3 DEF Peer, q

\* The cut of an id leaves between one and nine of its bytes.
LEMMA CutFits ==
    ASSUME NEW id \in Ids
    PROVE  /\ Cut(id) \in Seq(Byte \ {0}) /\ Len(Cut(id)) \in Nat
           /\ 1 <= Len(Cut(id)) /\ Len(Cut(id)) <= 9
<1> DEFINE n == IF Len(id) < 9 THEN Len(id) ELSE 9
           q == SubSeq(id, 1, n)
<1>1. id \in Seq(Byte \ {0}) /\ id # <<>>
  BY IdsAssumption
<1>2. Len(id) \in Nat /\ 1 <= Len(id)
  BY <1>1, EmptySeq, LenProperties
<1>3. n \in Nat /\ 1 <= n /\ n <= 9 /\ n <= Len(id)
  BY <1>2
<1> HIDE DEF n
<1>4. q \in Seq(Byte \ {0}) /\ Len(q) = n
  <2>1. Len(q) = IF 1 <= n THEN n - 1 + 1 ELSE 0
    BY <1>1, <1>2, <1>3, SubSeqProperties
  <2>2. q \in Seq(Byte \ {0})
    BY <1>1, <1>2, <1>3, SubSeqProperties
  <2> HIDE DEF q
  <2> QED BY <1>3, <2>1, <2>2
<1>5. Cut(id) = q
  BY DEF Cut, n
<1> HIDE DEF q
<1>6. QED
  BY <1>3, <1>4, <1>5

-----------------------------------------------------------------------------
(* The theorem.                                                            *)

\* Each of the ten messages.
LEMMA AllFramed ==
    ASSUME NLType, NEW b, Bytes(b, 0)
    PROVE  /\ \A k \in 1..10 : GoodFrame(Messages(b)[k])
           /\ Messages(b)[1] = CreateVethPair(b)
           /\ \A at \in {LinkInfoAt, LinkInfoAt + 12, LinkInfoAt + 16} :
                 Get16(CreateVethPair(b), at + 1) = Len(CreateVethPair(b)) - at
<1>1. /\ CString(host) \in Seq(Byte) /\ Len(CString(host)) <= 16
      /\ CString(Peer) \in Seq(Byte) /\ Len(CString(Peer)) <= 16
  <2>1. Len(host) <= 15
    BY DEF NLType
  <2> QED BY <2>1, NameGood, PeerNamed DEF NLType
<1>2. ix.host \in Word /\ ix.peer \in Word /\ fd \in Word
  BY DEF NLType
<1>3. Bytes(HostAddress, 4) /\ Bytes(PeerAddress, 4)
  BY DEF HostAddress, PeerAddress, Byte
<1>4. /\ GoodFrame(CreateVethPair(b))
      /\ \A at \in {LinkInfoAt, LinkInfoAt + 12, LinkInfoAt + 16} :
            Get16(CreateVethPair(b), at + 1) = Len(CreateVethPair(b)) - at
  BY <1>1, PairFramed
<1>5. GoodFrame(GetInterfaceIndex(b, host)) /\ GoodFrame(GetInterfaceIndex(b, Peer))
  BY <1>1, IndexFramed
<1>6. GoodFrame(SetIpAddr(b, ix.host, HostAddress)) /\ GoodFrame(SetIpAddr(b, ix.peer, PeerAddress))
  BY <1>2, <1>3, AddrFramed
<1>7. /\ GoodFrame(SetInterfaceUp(b, ix.host)) /\ GoodFrame(SetInterfaceUp(b, ix.peer))
      /\ GoodFrame(SetInterfaceUp(b, 1))
  BY <1>2, Small, UpFramed
<1>8. GoodFrame(MoveToNetns(b, ix.peer))
  BY <1>2, MoveFramed
<1>9. GoodFrame(AddDefaultRoute(b, HostAddress))
  BY <1>3, RouteFramed
<1>10. /\ GoodFrame(Messages(b)[1]) /\ GoodFrame(Messages(b)[2]) /\ GoodFrame(Messages(b)[3])
       /\ GoodFrame(Messages(b)[4]) /\ GoodFrame(Messages(b)[5]) /\ GoodFrame(Messages(b)[6])
       /\ GoodFrame(Messages(b)[7]) /\ GoodFrame(Messages(b)[8]) /\ GoodFrame(Messages(b)[9])
       /\ GoodFrame(Messages(b)[10]) /\ Messages(b)[1] = CreateVethPair(b)
  BY <1>4, <1>5, <1>6, <1>7, <1>8, <1>9 DEF Messages
<1>11. ASSUME NEW k \in 1..10 PROVE GoodFrame(Messages(b)[k])
  BY <1>10, <1>11
<1>12. QED
  BY <1>4, <1>10, <1>11

\* The buffer is clear between two messages, and the names fit: what Framed
\* rests on.
LEMMA TypeInit == NLInit => NLType
<1> SUFFICES ASSUME NLInit PROVE NLType
  OBVIOUS
<1>1. PICK id \in Ids : host = Cut(id)
  BY DEF NLInit
<1>2. /\ host \in Seq(Byte \ {0}) /\ Len(host) \in Nat /\ 1 <= Len(host) /\ Len(host) <= 9
  BY <1>1, CutFits
<1>3. ix.host \in Indices /\ ix.peer \in Indices /\ fd \in Fds
  BY DEF NLInit
<1>4. QED
  BY <1>2, <1>3, NumbersAssumption DEF NLInit, NLType

\* Framed is kept by every message that is sent.
LEMMA FramedNext ==
    ASSUME NLType, Framed, [SendNext]_nlVars
    PROVE  NLType' /\ Framed'
<1>1. CASE UNCHANGED nlVars
  BY <1>1 DEF nlVars, NLType, Framed, LinkInfoAt, Peer
<1>2. CASE SendNext
  <2>1. /\ done \in 0..10 /\ done < 10 /\ done' = done + 1 /\ sent' = Messages(w)[done + 1]
        /\ w' = <<>> /\ UNCHANGED <<host, ix, fd>>
    BY <1>2 DEF SendNext, Flush, NLType
  <2>2. NLType'
    BY <2>1 DEF NLType
  <2>3. Bytes(w, 0)
    BY EmptySeq DEF NLType
  <2>4. done + 1 \in 1..10
    BY <2>1
  <2>5. GoodFrame(sent')
    BY <2>1, <2>3, <2>4, AllFramed
  <2>6. done' = 1 => \A at \in {LinkInfoAt, LinkInfoAt + 12, LinkInfoAt + 16} :
                        Get16(sent', at + 1) = Len(sent') - at
    <3>1. done' = 1 => done + 1 = 1
      BY <2>1
    <3> QED BY ZenonT(60), <2>1, <2>3, <3>1, AllFramed
  <2>7. GoodName(CString(host)) /\ GoodName(CString(Peer))
    <3>1. Len(host) <= 15
      BY DEF NLType
    <3> QED BY <3>1, NameGood, PeerNamed DEF NLType
  <2>8. LinkInfoAt' = LinkInfoAt /\ Peer' = Peer /\ host' = host
    BY <2>1 DEF LinkInfoAt, Peer
  <2> QED BY <2>2, <2>5, <2>6, <2>7, <2>8 DEF Framed, GoodFrame
<1>3. QED
  BY <1>1, <1>2

\* For ids of any length, and any interface index and descriptor: every message
\* that Writer sends says its own length, is padded, closes each nest where the
\* message ends, and names links by names that the kernel takes.
THEOREM AlwaysFramed == NLSpec => []Framed
<1>1. NLInit => NLType /\ Framed
  BY TypeInit DEF NLInit, Framed
<1>2. NLType /\ Framed /\ [SendNext]_nlVars => NLType' /\ Framed'
  BY FramedNext
<1>3. QED
  BY <1>1, <1>2, PTL DEF NLSpec
=============================================================================
