--------------------------- MODULE NetworkProofs ---------------------------
(* Proofs about create_network() of any number of containers at once on    *)
(* one host, whatever their names, while their children come and go.       *)
EXTENDS Setup, TLAPS

-----------------------------------------------------------------------------
(* The netlink socket.                                                     *)

\* The kernel answers every request of create_network() with one message.
LEMMA OneReply ==
    ASSUME NEW kind \in Acked \cup {"getlink"}, NEW done \in BOOLEAN, NEW k
    PROVE  \E r : /\ Replies(kind, done, k) = <<r>>
                  /\ r.ok = done
                  /\ done /\ kind = "getlink" => r.link = k
                  /\ r.link \in {k, NoIndex}
<1>1. CASE ~done
  <2> DEFINE r == [ok |-> FALSE, link |-> NoIndex]
  <2>1. Replies(kind, done, k) = <<r>>
    BY <1>1 DEF Replies
  <2>2. r.ok = done /\ r.link = NoIndex
    BY <1>1
  <2> HIDE DEF r
  <2> QED BY <1>1, <2>1, <2>2
<1>2. CASE done /\ kind = "getlink"
  <2> DEFINE r == [ok |-> TRUE, link |-> k]
  <2>1. Replies(kind, done, k) = <<r>> \o <<>>
    BY <1>2 DEF Replies, Acked
  <2>2. r.ok = done /\ r.link = k
    BY <1>2
  <2> HIDE DEF r
  <2>3. Replies(kind, done, k) = <<r>>
    BY <2>1
  <2> QED BY <2>2, <2>3
<1>3. CASE done /\ kind # "getlink"
  <2> DEFINE r == [ok |-> TRUE, link |-> NoIndex]
  <2>1. Replies(kind, done, k) = <<>> \o <<r>>
    BY <1>3 DEF Replies
  <2>2. r.ok = done /\ r.link = NoIndex
    BY <1>3
  <2> HIDE DEF r
  <2>3. Replies(kind, done, k) = <<r>>
    BY <2>1
  <2> QED BY <1>3, <2>2, <2>3
<1>4. QED
  BY <1>1, <1>2, <1>3

\* With nothing left over in the queue, a request is followed by its own reply:
\* it succeeds and goes on, or it fails, changes nothing and ends in an error.
LEMMA RequestEffect ==
    ASSUME NetType, NEW i \in Ids, NEW st \in DOMAIN Then,
           NEW kind \in Acked \cup {"getlink"}, NEW possible \in BOOLEAN,
           NEW links, NEW ns, NEW k,
           Request(i, st, kind, possible, links, ns, k)
    PROVE  /\ net[i] = st /\ UNCHANGED <<alive, nat, queue>>
           /\ \E done \in BOOLEAN, x \in {k, NoIndex} :
                /\ done => possible
                /\ link' = IF done THEN links ELSE link
                /\ netns' = IF done THEN ns ELSE netns
                /\ net' = [net EXCEPT ![i] = IF done THEN Then[st] ELSE "err"]
                /\ done /\ kind = "getlink" => x = k
                /\ ix' = CASE st = "hostIx" -> [ix EXCEPT ![i].host = x]
                           [] st = "peerIx" -> [ix EXCEPT ![i].peer = x]
                           [] OTHER -> ix
<1>1. PICK done \in Outcomes(possible) :
        LET q == queue[i] \o Replies(kind, done, k) IN
        /\ link' = IF done THEN links ELSE link
        /\ netns' = IF done THEN ns ELSE netns
        /\ queue' = [queue EXCEPT ![i] = IF q = <<>> THEN q ELSE Tail(q)]
        /\ net' = [net EXCEPT ![i] = IF q = <<>> THEN "recv"
                                     ELSE IF Head(q).ok THEN Then[st] ELSE "err"]
        /\ ix' = CASE q = <<>> -> ix
                   [] st = "hostIx" -> [ix EXCEPT ![i].host = Head(q).link]
                   [] st = "peerIx" -> [ix EXCEPT ![i].peer = Head(q).link]
                   [] OTHER -> ix
  BY DEF Request
<1>2. done \in BOOLEAN /\ (done => possible)
  BY RefuseAssumption DEF Outcomes
<1>3. PICK r : /\ Replies(kind, done, k) = <<r>>
               /\ r.ok = done
               /\ done /\ kind = "getlink" => r.link = k
               /\ r.link \in {k, NoIndex}
  BY <1>2, OneReply
<1>4. queue[i] = <<>>
  BY DEF NetType
<1>5. queue[i] \o Replies(kind, done, k) = <<r>>
  <2>1. queue[i] \o Replies(kind, done, k) = <<>> \o <<r>>
    BY <1>3, <1>4
  <2> QED BY <2>1
<1>6. <<r>> # <<>> /\ Head(<<r>>) = r /\ Tail(<<r>>) = <<>>
  OBVIOUS
<1>7. queue' = queue
  <2>1. queue' = [queue EXCEPT ![i] = <<>>]
    BY <1>1, <1>5, <1>6
  <2> QED BY <2>1 DEF NetType
<1>8. net' = [net EXCEPT ![i] = IF done THEN Then[st] ELSE "err"]
  BY <1>1, <1>3, <1>5, <1>6
<1>9. ix' = CASE st = "hostIx" -> [ix EXCEPT ![i].host = r.link]
              [] st = "peerIx" -> [ix EXCEPT ![i].peer = r.link]
              [] OTHER -> ix
  BY <1>1, <1>3, <1>5, <1>6
<1>10. QED
  BY <1>1, <1>2, <1>3, <1>7, <1>8, <1>9 DEF Request

-----------------------------------------------------------------------------
(* Links.                                                                  *)

LinkType == [ns : Ids \cup {"none", "host"}, addr : BOOLEAN, up : BOOLEAN]

\* The two ends of a pair, and their names.
LEMMA OwnPair ==
    ASSUME NEW i \in Ids
    PROVE  /\ <<i, "host">> \in Links /\ <<i, "peer">> \in Links
           /\ Name(<<i, "host">>) = HostName[i] /\ Name(<<i, "peer">>) = PeerName[i]
           /\ \A k \in Links : k[1] = i => k \in {<<i, "host">>, <<i, "peer">>}
           /\ \A k \in Links : k[1] \in Ids
BY DEF Links, Ends, Name

\* Setting one field of a link leaves the others, and every other link, alone.
LEMMA AtAddr ==
    ASSUME NetType, NEW k \in Links
    PROVE  /\ At(k, "addr", TRUE) \in [Links -> LinkType]
           /\ \A l \in Links \ {k} : At(k, "addr", TRUE)[l] = link[l]
           /\ At(k, "addr", TRUE)[k] = [link[k] EXCEPT !.addr = TRUE]
BY ZenonT(60) DEF At, NetType, LinkType

\* The same of the flag that brings a link up.
LEMMA AtUp ==
    ASSUME NetType, NEW k \in Links
    PROVE  /\ At(k, "up", TRUE) \in [Links -> LinkType]
           /\ \A l \in Links \ {k} : At(k, "up", TRUE)[l] = link[l]
           /\ At(k, "up", TRUE)[k] = [link[k] EXCEPT !.up = TRUE]
BY ZenonT(60) DEF At, NetType, LinkType

\* The same of the move of a link into the namespace of a container.
LEMMA AtNs ==
    ASSUME NetType, NEW k \in Links, NEW i \in Ids
    PROVE  /\ At(k, "ns", i) \in [Links -> LinkType]
           /\ \A l \in Links \ {k} : At(k, "ns", i)[l] = link[l]
           /\ At(k, "ns", i)[k] = [link[k] EXCEPT !.ns = i]
BY ZenonT(60) DEF At, NetType, LinkType

\* Of the links in the host's namespace only one has the name of a given end.
LEMMA OnlyNamed ==
    ASSUME NamesUnique, NEW k \in Links, link[k].ns = "host"
    PROVE  InHost(Name(k)) # {} /\ (CHOOSE l \in InHost(Name(k)) : TRUE) = k
<1>1. InHost(Name(k)) = {k}
  BY DEF InHost, NamesUnique
<1>2. (CHOOSE l \in {k} : TRUE) = k
  OBVIOUS
<1>3. QED
  BY <1>1, <1>2

\* Names stay unique when no link comes into the host's namespace.
LEMMA NamesStay ==
    ASSUME NamesUnique, \A k \in Links : link'[k].ns = "host" => link[k].ns = "host"
    PROVE  NamesUnique'
BY DEF NamesUnique

\* What is known of a pair survives every step that leaves the pair and the
\* place of its create_network() alone, also the end of the child.
LEMMA OtherPair ==
    ASSUME NEW j \in Ids, PairInv(j), net'[j] = net[j], ix'[j] = ix[j],
           netns'[j] = netns[j], j \in alive' => j \in alive,
           link'[<<j, "host">>] = link[<<j, "host">>],
           link'[<<j, "peer">>] = link[<<j, "peer">>]
    PROVE  PairInv(j)'
BY DEF PairInv, Networked

\* A step of one container has to be looked at for that container only.
LEMMA Frame ==
    ASSUME NetInv, NEW i \in Ids, NetType', NamesUnique', PairInv(i)',
           alive' \subseteq alive,
           \A j \in Ids \ {i} : net'[j] = net[j] /\ ix'[j] = ix[j] /\ netns'[j] = netns[j],
           \A k \in Links : k[1] # i => link'[k] = link[k],
           \A k \in Links : k[1] = i => link'[k].ns \in {"none", "host", i}
    PROVE  NetInv'
<1>1. LinksStayHome'
  BY DEF NetInv, LinksStayHome
<1>2. ASSUME NEW j \in Ids \ {i} PROVE PairInv(j)'
  <2>1. <<j, "host">> \in Links /\ <<j, "peer">> \in Links
    BY OwnPair
  <2>2. link'[<<j, "host">>] = link[<<j, "host">>] /\ link'[<<j, "peer">>] = link[<<j, "peer">>]
    BY <2>1
  <2> QED BY <2>2, OtherPair DEF NetInv
<1>3. QED
  BY <1>1, <1>2 DEF NetInv

-----------------------------------------------------------------------------
(* The steps of create_network().                                          *)

\* An error or a panic ends create_network() and leaves everything as it is.
LEMMA NetFails ==
    ASSUME NetInv, NEW i \in Ids, NEW st \in NetFailed, net' = [net EXCEPT ![i] = st],
           UNCHANGED <<alive, queue, link, netns>>,
           ix' \in [Ids -> [host : Links \cup {NoIndex}, peer : Links \cup {NoIndex}]],
           \A j \in Ids \ {i} : ix'[j] = ix[j]
    PROVE  NetInv'
<1>1. NetType'
  BY DEF NetInv, NetType, NetOver, NetFailed
<1>2. PairInv(i)'
  BY DEF NetInv, NetType, PairInv, AtHost, Moved, NetFailed
<1>3. NamesUnique' /\ \A k \in Links : k[1] = i => link'[k].ns \in {"none", "host", i}
  BY DEF NetInv, NamesUnique, LinksStayHome
<1>4. QED
  BY <1>1, <1>2, <1>3, Frame DEF NetInv, NetType

\* A request that fails keeps the invariant; one that succeeds was possible
\* and has done what it asks for.
LEMMA RequestCases ==
    ASSUME NetInv, NEW i \in Ids, NEW st \in DOMAIN Then,
           NEW kind \in Acked \cup {"getlink"}, NEW possible \in BOOLEAN,
           NEW links, NEW ns, NEW k \in Links \cup {NoIndex},
           Request(i, st, kind, possible, links, ns, k)
    PROVE  \/ NetInv'
           \/ /\ possible /\ link' = links /\ netns' = ns
              /\ net[i] = st /\ net' = [net EXCEPT ![i] = Then[st]]
              /\ UNCHANGED <<alive, queue>>
              /\ st \notin {"hostIx", "peerIx"} => ix' = ix
              /\ st = "hostIx" /\ kind = "getlink" => ix' = [ix EXCEPT ![i].host = k]
              /\ st = "peerIx" /\ kind = "getlink" => ix' = [ix EXCEPT ![i].peer = k]
<1>1. /\ net[i] = st /\ UNCHANGED <<alive, nat, queue>>
      /\ \E done \in BOOLEAN, x \in {k, NoIndex} :
            /\ done => possible
            /\ link' = IF done THEN links ELSE link
            /\ netns' = IF done THEN ns ELSE netns
            /\ net' = [net EXCEPT ![i] = IF done THEN Then[st] ELSE "err"]
            /\ done /\ kind = "getlink" => x = k
            /\ ix' = CASE st = "hostIx" -> [ix EXCEPT ![i].host = x]
                       [] st = "peerIx" -> [ix EXCEPT ![i].peer = x]
                       [] OTHER -> ix
  BY RequestEffect DEF NetInv
<1>2. PICK done \in BOOLEAN, x \in {k, NoIndex} :
            /\ done => possible
            /\ link' = IF done THEN links ELSE link
            /\ netns' = IF done THEN ns ELSE netns
            /\ net' = [net EXCEPT ![i] = IF done THEN Then[st] ELSE "err"]
            /\ done /\ kind = "getlink" => x = k
            /\ ix' = CASE st = "hostIx" -> [ix EXCEPT ![i].host = x]
                       [] st = "peerIx" -> [ix EXCEPT ![i].peer = x]
                       [] OTHER -> ix
  BY <1>1
<1>3. CASE done
  BY <1>1, <1>2, <1>3
<1>4. CASE ~done
  <2>1. net' = [net EXCEPT ![i] = "err"] /\ UNCHANGED <<alive, queue, link, netns>>
    BY <1>1, <1>2, <1>4
  <2>2. ix' \in [Ids -> [host : Links \cup {NoIndex}, peer : Links \cup {NoIndex}]]
    BY <1>2 DEF NetInv, NetType
  <2>3. \A j \in Ids \ {i} : ix'[j] = ix[j]
    BY <1>2 DEF NetInv, NetType
  <2> QED BY <2>1, <2>2, <2>3, NetFails DEF NetFailed
<1>5. QED
  BY <1>3, <1>4

\* The kernel makes the pair only if both names are free, so that they stay
\* unique; a name that is taken ends this create_network().
LEMMA PairStep ==
    ASSUME NetInv, NEW i \in Ids, CreateVethPair(i)
    PROVE  NetInv'
<1> DEFINE named == InHost(HostName[i]) # {}
           free  == ~named /\ InHost(PeerName[i]) = {}
           pair  == {<<i, "host">>, <<i, "peer">>}
           new   == [ns |-> "host", addr |-> FALSE, up |-> FALSE]
           links == [k \in Links |-> IF k \in pair /\ free THEN new ELSE link[k]]
           can   == free \/ (named /\ "newlink" \notin Exclusive)
<1>1. Request(i, "pair", "newlink", can, links, netns, NoIndex)
  BY DEF CreateVethPair
<1>2. can = free
  BY DEF Exclusive
<1>3. \/ NetInv'
      \/ /\ free /\ link' = links /\ netns' = netns /\ net[i] = "pair"
         /\ net' = [net EXCEPT ![i] = "hostIx"] /\ UNCHANGED <<alive, queue, ix>>
  <2> HIDE DEF links, free, named
  <2> QED BY ZenonT(60), <1>1, <1>2, RequestCases DEF Then, Acked
<1> SUFFICES ASSUME free, link' = links, netns' = netns, net[i] = "pair",
                    net' = [net EXCEPT ![i] = "hostIx"], UNCHANGED <<alive, queue, ix>>
             PROVE  NetInv'
  BY <1>3
<1>4. /\ link' \in [Links -> LinkType]
      /\ \A k \in Links : k[1] # i => link'[k] = link[k]
      /\ \A k \in Links : k[1] = i => link'[k] = new /\ k \in pair
      /\ link'[<<i, "host">>] = new /\ link'[<<i, "peer">>] = new
  BY OwnPair DEF NetInv, NetType, LinkType
<1>5. NetType'
  BY <1>4 DEF NetInv, NetType, LinkType, Then
<1>6. PairInv(i)'
  BY <1>4 DEF NetInv, NetType, PairInv, AtHost, Moved
<1>7. NamesUnique'
  <2> SUFFICES ASSUME NEW k \in Links, NEW l \in Links, link'[k].ns = "host",
                      link'[l].ns = "host", Name(k) = Name(l)
               PROVE  k = l
    BY DEF NamesUnique, Name
  <2>1. \A m \in Links : link[m].ns = "host" => Name(m) \notin {HostName[i], PeerName[i]}
    BY DEF InHost
  <2>2. \A m \in pair : Name(m) \in {HostName[i], PeerName[i]}
    BY OwnPair
  <2>3. CASE k[1] = i /\ l[1] = i
    BY <1>4, <2>3, OwnPair, PeerAssumption
  <2>4. CASE k[1] # i /\ l[1] # i
    BY <1>4, <2>4 DEF NetInv, NamesUnique
  <2>5. CASE k[1] = i /\ l[1] # i
    BY SMTT(30), <1>4, <2>1, <2>2, <2>5
  <2>6. CASE k[1] # i /\ l[1] = i
    BY SMTT(30), <1>4, <2>1, <2>2, <2>6
  <2> QED BY <2>3, <2>4, <2>5, <2>6
<1>8. \A k \in Links : k[1] = i => link'[k].ns \in {"none", "host", i}
  BY <1>4
<1>9. QED
  BY <1>4, <1>5, <1>6, <1>7, <1>8, Frame DEF NetInv, NetType

\* The index of either end that RTM_GETLINK answers by name is that of the
\* container's own link.
LEMMA IndexStep ==
    ASSUME NetInv, NEW i \in Ids,
           \/ GetInterfaceIndex(i, "hostIx", HostName[i])
           \/ GetInterfaceIndex(i, "peerIx", PeerName[i])
    PROVE  NetInv'
<1> DEFINE At0(n) == IF InHost(n) = {} THEN NoIndex ELSE CHOOSE k \in InHost(n) : TRUE
<1>T. ASSUME NEW n PROVE At0(n) \in Links \cup {NoIndex}
  <2>1. CASE InHost(n) = {}
    BY <2>1
  <2>2. CASE InHost(n) # {}
    <3>1. (CHOOSE k \in InHost(n) : TRUE) \in InHost(n)
      BY <2>2
    <3> QED BY <2>2, <3>1 DEF InHost
  <2> QED BY <2>1, <2>2
<1>F. ASSUME NEW to, NetType', PairInv(i)', net' = [net EXCEPT ![i] = to],
             UNCHANGED <<alive, queue, link, netns>>, \A j \in Ids \ {i} : ix'[j] = ix[j]
      PROVE  NetInv'
  <2>1. NamesUnique' /\ \A k \in Links : k[1] = i => link'[k].ns \in {"none", "host", i}
    BY <1>F DEF NetInv, NamesUnique, LinksStayHome
  <2> QED BY <1>F, <2>1, Frame DEF NetInv, NetType
<1>1. CASE GetInterfaceIndex(i, "hostIx", HostName[i])
  <2> DEFINE k == At0(HostName[i])
             can == InHost(HostName[i]) # {}
  <2>1. Request(i, "hostIx", "getlink", can, link, netns, k)
    BY <1>1 DEF GetInterfaceIndex
  <2>2. k \in Links \cup {NoIndex}
    BY <1>T
  <2>3. net[i] = "hostIx" => k = <<i, "host">>
    <3> SUFFICES ASSUME net[i] = "hostIx" PROVE k = <<i, "host">>
      OBVIOUS
    <3>1. link[<<i, "host">>].ns = "host"
      BY DEF NetInv, PairInv, AtHost
    <3>2. <<i, "host">> \in Links /\ Name(<<i, "host">>) = HostName[i]
      BY OwnPair
    <3>3. InHost(HostName[i]) # {} /\ (CHOOSE l \in InHost(HostName[i]) : TRUE) = <<i, "host">>
      BY <3>1, <3>2, OnlyNamed DEF NetInv
    <3> QED BY <3>3
  <2> HIDE DEF k, can
  <2>4. \/ NetInv'
        \/ /\ net[i] = "hostIx" /\ net' = [net EXCEPT ![i] = "hostAddr"]
           /\ ix' = [ix EXCEPT ![i].host = k] /\ UNCHANGED <<alive, queue, link, netns>>
    <3>1. can \in BOOLEAN
      BY DEF can
    <3>2. "hostIx" \in DOMAIN Then /\ Then["hostIx"] = "hostAddr"
      BY DEF Then
    <3> QED BY <2>1, <2>2, <3>1, <3>2, RequestCases
  <2> SUFFICES ASSUME net[i] = "hostIx", net' = [net EXCEPT ![i] = "hostAddr"],
                      ix' = [ix EXCEPT ![i].host = k], UNCHANGED <<alive, queue, link, netns>>
               PROVE  NetInv'
    BY <2>4
  <2>5. NetType'
    BY <2>2 DEF NetInv, NetType, Then
  <2>6. PairInv(i)'
    BY <2>3 DEF NetInv, NetType, PairInv, AtHost, Moved
  <2> QED BY <2>5, <2>6, <1>F DEF NetInv, NetType
<1>2. CASE GetInterfaceIndex(i, "peerIx", PeerName[i])
  <2> DEFINE k == At0(PeerName[i])
             can == InHost(PeerName[i]) # {}
  <2>1. Request(i, "peerIx", "getlink", can, link, netns, k)
    BY <1>2 DEF GetInterfaceIndex
  <2>2. k \in Links \cup {NoIndex}
    BY <1>T
  <2>3. net[i] = "peerIx" => k = <<i, "peer">>
    <3> SUFFICES ASSUME net[i] = "peerIx" PROVE k = <<i, "peer">>
      OBVIOUS
    <3>1. link[<<i, "peer">>].ns = "host"
      BY DEF NetInv, PairInv, AtHost
    <3>2. <<i, "peer">> \in Links /\ Name(<<i, "peer">>) = PeerName[i]
      BY OwnPair
    <3>3. InHost(PeerName[i]) # {} /\ (CHOOSE l \in InHost(PeerName[i]) : TRUE) = <<i, "peer">>
      BY <3>1, <3>2, OnlyNamed DEF NetInv
    <3> QED BY <3>3
  <2> HIDE DEF k, can
  <2>4. \/ NetInv'
        \/ /\ net[i] = "peerIx" /\ net' = [net EXCEPT ![i] = "move"]
           /\ ix' = [ix EXCEPT ![i].peer = k] /\ UNCHANGED <<alive, queue, link, netns>>
    <3>1. can \in BOOLEAN
      BY DEF can
    <3>2. "peerIx" \in DOMAIN Then /\ Then["peerIx"] = "move"
      BY DEF Then
    <3> QED BY <2>1, <2>2, <3>1, <3>2, RequestCases
  <2> SUFFICES ASSUME net[i] = "peerIx", net' = [net EXCEPT ![i] = "move"],
                      ix' = [ix EXCEPT ![i].peer = k], UNCHANGED <<alive, queue, link, netns>>
               PROVE  NetInv'
    BY <2>4
  <2>5. NetType'
    BY <2>2 DEF NetInv, NetType, Then
  <2>6. PairInv(i)'
    <3>1. net'[i] = "move" /\ ix'[i].peer = <<i, "peer">> /\ ix'[i].host = ix[i].host
      BY <2>3 DEF NetInv, NetType
    <3>2. PairInv(i)
      BY DEF NetInv
    <3> QED BY <3>1, <3>2 DEF PairInv, AtHost, Moved
  <2> QED BY <2>5, <2>6, <1>F DEF NetInv, NetType
<1>3. QED
  BY <1>1, <1>2

\* A step that sets something on the container's own pair or in its own
\* namespace, and brings no link into the host's.
LEMMA OwnStep ==
    ASSUME NetInv, NEW i \in Ids, NEW to \in DOMAIN Then \cup NetOver,
           net' = [net EXCEPT ![i] = to], UNCHANGED <<alive, queue, ix>>,
           link' \in [Links -> LinkType], netns' \in [Ids -> [lo : BOOLEAN, route : BOOLEAN]],
           \A j \in Ids \ {i} : netns'[j] = netns[j],
           \A k \in Links : k[1] # i => link'[k] = link[k],
           \A k \in Links : k[1] = i => link'[k].ns \in {link[k].ns, i},
           PairInv(i)'
    PROVE  NetInv'
<1>1. NetType'
  BY DEF NetInv, NetType, LinkType
<1>2. \A k \in Links : link'[k].ns = "host" => link[k].ns = "host"
  BY IdsAssumption
<1>3. NamesUnique'
  BY <1>2, NamesStay DEF NetInv
<1>4. \A k \in Links : k[1] = i => link'[k].ns \in {"none", "host", i}
  BY DEF NetInv, LinksStayHome
<1>5. QED
  BY <1>1, <1>3, <1>4, Frame DEF NetInv, NetType

\* Such a step when it changes no link.
LEMMA QuietStep ==
    ASSUME NetInv, NEW i \in Ids, NEW to \in DOMAIN Then \cup NetOver,
           net' = [net EXCEPT ![i] = to], UNCHANGED <<alive, queue, ix, link>>,
           netns' \in [Ids -> [lo : BOOLEAN, route : BOOLEAN]],
           \A j \in Ids \ {i} : netns'[j] = netns[j],
           PairInv(i)'
    PROVE  NetInv'
<1>1. link' \in [Links -> LinkType]
  BY DEF NetInv, NetType, LinkType
<1>2. QED
  BY <1>1, OwnStep

\* Addresses: the host end in the host's namespace, the peer in the child's.
LEMMA AddrStep ==
    ASSUME NetInv, NEW i \in Ids,
           \/ SetIpAddr(i, "hostAddr", ix[i].host, "host")
           \/ SetIpAddr(i, "peerAddr", ix[i].peer, i)
    PROVE  NetInv'
<1>0. PairInv(i) /\ net[i] \in DOMAIN Then \cup NetOver
  BY DEF NetInv, NetType
<1>1. ASSUME NEW st \in {"hostAddr", "peerAddr"}, NEW k, NEW ns, SetIpAddr(i, st, k, ns),
             k = <<i, IF st = "hostAddr" THEN "host" ELSE "peer">>
      PROVE  NetInv'
  <2> DEFINE can == There(k, ns) /\ ~link[k].addr
             links == At(k, "addr", TRUE)
  <2>1. Request(i, st, "newaddr", can, links, netns, NoIndex)
    BY <1>1 DEF SetIpAddr
  <2>2. k \in Links /\ k[1] = i /\ can \in BOOLEAN
    BY <1>1, OwnPair
  <2>3. /\ links \in [Links -> LinkType]
        /\ \A l \in Links \ {k} : links[l] = link[l]
        /\ links[k] = [link[k] EXCEPT !.addr = TRUE]
    BY <2>2, AtAddr DEF NetInv
  <2>4. link[k] \in LinkType
    BY <2>2 DEF NetInv, NetType, LinkType
  <2>5. "newaddr" \in Acked /\ st \in DOMAIN Then \ {"hostIx", "peerIx"}
    BY <1>1 DEF Acked, Then
  <2> HIDE DEF can, links
  <2>6. \/ NetInv'
        \/ /\ link' = links /\ netns' = netns /\ net[i] = st
           /\ net' = [net EXCEPT ![i] = Then[st]] /\ UNCHANGED <<alive, queue, ix>>
    BY <2>1, <2>2, <2>5, RequestCases
  <2> SUFFICES ASSUME link' = links, netns' = netns, net[i] = st,
                      net' = [net EXCEPT ![i] = Then[st]], UNCHANGED <<alive, queue, ix>>
               PROVE  NetInv'
    BY <2>6
  <2>7. /\ link'[k].ns = link[k].ns /\ link'[k].up = link[k].up /\ link'[k].addr
        /\ \A l \in Links \ {k} : link'[l] = link[l]
    BY <2>3, <2>4 DEF LinkType
  <2>8. Then[st] = (IF st = "hostAddr" THEN "hostUp" ELSE "peerUp")
        /\ Then[st] \in DOMAIN Then \cup NetOver
    BY <1>1 DEF Then
  <2>9. net'[i] = Then[st]
    BY DEF NetInv, NetType
  <2>10. PairInv(i)'
    <3>1. <<i, "host">> \in Links /\ <<i, "peer">> \in Links /\ <<i, "host">> # <<i, "peer">>
      BY OwnPair
    <3>2. CASE st = "hostAddr"
      BY <1>0, <1>1, <2>7, <2>8, <2>9, <3>1, <3>2 DEF PairInv, AtHost, Moved
    <3>3. CASE st = "peerAddr"
      BY <1>0, <1>1, <2>7, <2>8, <2>9, <3>1, <3>3 DEF PairInv, AtHost, Moved
    <3> QED BY <1>1, <3>2, <3>3
  <2>11. \A l \in Links : (l[1] # i => link'[l] = link[l])
                          /\ (l[1] = i => link'[l].ns \in {link[l].ns, i})
    BY <2>2, <2>7
  <2>12. link' \in [Links -> LinkType] /\ netns' \in [Ids -> [lo : BOOLEAN, route : BOOLEAN]]
    BY <2>3 DEF NetInv, NetType
  <2> QED BY <2>8, <2>10, <2>11, <2>12, OwnStep
<1>2. net[i] = "hostAddr" => ix[i].host = <<i, "host">>
  BY <1>0 DEF PairInv, AtHost
<1>3. net[i] = "peerAddr" => ix[i].peer = <<i, "peer">>
  BY <1>0 DEF PairInv, Moved
<1>4. QED
  BY <1>1, <1>2, <1>3 DEF SetIpAddr, Request

\* IFF_UP of the two ends.
LEMMA UpStep ==
    ASSUME NetInv, NEW i \in Ids,
           \/ SetInterfaceUp(i, "hostUp", ix[i].host, "host")
           \/ SetInterfaceUp(i, "peerUp", ix[i].peer, i)
    PROVE  NetInv'
<1>0. PairInv(i) /\ net[i] \in DOMAIN Then \cup NetOver
  BY DEF NetInv, NetType
<1>1. ASSUME NEW st \in {"hostUp", "peerUp"}, NEW k, NEW ns, SetInterfaceUp(i, st, k, ns),
             k = <<i, IF st = "hostUp" THEN "host" ELSE "peer">>
      PROVE  NetInv'
  <2> DEFINE can == There(k, ns)
             links == At(k, "up", TRUE)
  <2>1. Request(i, st, "setlink", can, links, netns, NoIndex)
    BY <1>1 DEF SetInterfaceUp
  <2>2. k \in Links /\ k[1] = i /\ can \in BOOLEAN
    BY <1>1, OwnPair DEF There
  <2>3. /\ links \in [Links -> LinkType]
        /\ \A l \in Links \ {k} : links[l] = link[l]
        /\ links[k] = [link[k] EXCEPT !.up = TRUE]
    BY <2>2, AtUp DEF NetInv
  <2>4. link[k] \in LinkType
    BY <2>2 DEF NetInv, NetType, LinkType
  <2>5. "setlink" \in Acked /\ st \in DOMAIN Then \ {"hostIx", "peerIx"}
    BY <1>1 DEF Acked, Then
  <2> HIDE DEF can, links
  <2>6. \/ NetInv'
        \/ /\ link' = links /\ netns' = netns /\ net[i] = st
           /\ net' = [net EXCEPT ![i] = Then[st]] /\ UNCHANGED <<alive, queue, ix>>
    BY <2>1, <2>2, <2>5, RequestCases
  <2> SUFFICES ASSUME link' = links, netns' = netns, net[i] = st,
                      net' = [net EXCEPT ![i] = Then[st]], UNCHANGED <<alive, queue, ix>>
               PROVE  NetInv'
    BY <2>6
  <2>7. /\ link'[k].ns = link[k].ns /\ link'[k].addr = link[k].addr /\ link'[k].up
        /\ \A l \in Links \ {k} : link'[l] = link[l]
    BY <2>3, <2>4 DEF LinkType
  <2>8. Then[st] = (IF st = "hostUp" THEN "peerIx" ELSE "loUp")
        /\ Then[st] \in DOMAIN Then \cup NetOver
    BY <1>1 DEF Then
  <2>9. net'[i] = Then[st]
    BY DEF NetInv, NetType
  <2>10. PairInv(i)'
    <3>1. <<i, "host">> \in Links /\ <<i, "peer">> \in Links /\ <<i, "host">> # <<i, "peer">>
      BY OwnPair
    <3>2. CASE st = "hostUp"
      BY <1>0, <1>1, <2>7, <2>8, <2>9, <3>1, <3>2 DEF PairInv, AtHost, Moved
    <3>3. CASE st = "peerUp"
      BY <1>0, <1>1, <2>7, <2>8, <2>9, <3>1, <3>3 DEF PairInv, AtHost, Moved
    <3> QED BY <1>1, <3>2, <3>3
  <2>11. \A l \in Links : (l[1] # i => link'[l] = link[l])
                          /\ (l[1] = i => link'[l].ns \in {link[l].ns, i})
    BY <2>2, <2>7
  <2>12. link' \in [Links -> LinkType] /\ netns' \in [Ids -> [lo : BOOLEAN, route : BOOLEAN]]
    BY <2>3 DEF NetInv, NetType
  <2> QED BY <2>8, <2>10, <2>11, <2>12, OwnStep
<1>2. net[i] = "hostUp" => ix[i].host = <<i, "host">>
  BY <1>0 DEF PairInv, AtHost
<1>3. net[i] = "peerUp" => ix[i].peer = <<i, "peer">>
  BY <1>0 DEF PairInv, Moved
<1>4. QED
  BY <1>1, <1>2, <1>3 DEF SetInterfaceUp, Request

\* The peer, and nothing else, leaves for the namespace of its own container.
LEMMA MoveStep ==
    ASSUME NetInv, NEW i \in Ids, MoveToNetns(i, ix[i].peer)
    PROVE  NetInv'
<1>0. PairInv(i) /\ net[i] = "move"
  BY DEF NetInv, MoveToNetns, Request
<1> DEFINE k == <<i, "peer">>
           can == There(k, "host")
           links == At(k, "ns", i)
<1>1. Request(i, "move", "setlink", can, links, netns, NoIndex)
  <2>1. ix[i].peer = k
    BY <1>0 DEF PairInv
  <2> QED BY <2>1 DEF MoveToNetns
<1>2. k \in Links /\ k[1] = i /\ can \in BOOLEAN
  BY OwnPair DEF There
<1>3. /\ links \in [Links -> LinkType]
      /\ \A l \in Links \ {k} : links[l] = link[l]
      /\ links[k] = [link[k] EXCEPT !.ns = i]
  BY <1>2, AtNs DEF NetInv
<1>4. link[k] \in LinkType
  BY <1>2 DEF NetInv, NetType, LinkType
<1>5. "setlink" \in Acked /\ "move" \in DOMAIN Then /\ Then["move"] = "enter"
      /\ "enter" \in DOMAIN Then
  BY DEF Acked, Then
<1> HIDE DEF can, links
<1>6. \/ NetInv'
      \/ /\ link' = links /\ netns' = netns
         /\ net' = [net EXCEPT ![i] = "enter"] /\ UNCHANGED <<alive, queue, ix>>
  BY <1>1, <1>2, <1>5, RequestCases
<1> SUFFICES ASSUME link' = links, netns' = netns,
                    net' = [net EXCEPT ![i] = "enter"], UNCHANGED <<alive, queue, ix>>
             PROVE  NetInv'
  BY <1>6
<1>7. /\ link'[k].ns = i /\ \A l \in Links \ {k} : link'[l] = link[l]
  BY <1>3, <1>4 DEF LinkType
<1>8. <<i, "host">> \in Links /\ <<i, "host">> # k
  BY OwnPair
<1>9. net'[i] = "enter"
  BY DEF NetInv, NetType
<1>10. PairInv(i)'
  BY <1>0, <1>7, <1>8, <1>9 DEF PairInv, AtHost, Moved
<1>11. \A l \in Links : (l[1] # i => link'[l] = link[l])
                        /\ (l[1] = i => link'[l].ns \in {link[l].ns, i})
  BY <1>2, <1>7
<1>12. link' \in [Links -> LinkType] /\ netns' \in [Ids -> [lo : BOOLEAN, route : BOOLEAN]]
  BY <1>3 DEF NetInv, NetType
<1>13. QED
  BY <1>5, <1>10, <1>11, <1>12, OwnStep

\* Loopback and default route, in the container's own namespace.
LEMMA NetnsStep ==
    ASSUME NetInv, NEW i \in Ids, SetLoopbackUp(i) \/ AddDefaultRoute(i)
    PROVE  NetInv'
<1>0. PairInv(i) /\ netns \in [Ids -> [lo : BOOLEAN, route : BOOLEAN]]
  BY DEF NetInv, NetType
<1>1. CASE SetLoopbackUp(i)
  <2> DEFINE ns == [netns EXCEPT ![i].lo = TRUE]
             can == TRUE
  <2>1. Request(i, "loUp", "setlink", can, link, ns, NoIndex) /\ can \in BOOLEAN
    BY <1>1 DEF SetLoopbackUp
  <2>2. "setlink" \in Acked /\ "loUp" \in DOMAIN Then /\ Then["loUp"] = "route"
        /\ "route" \in DOMAIN Then
    BY DEF Acked, Then
  <2>3. /\ ns \in [Ids -> [lo : BOOLEAN, route : BOOLEAN]]
        /\ \A j \in Ids \ {i} : ns[j] = netns[j]
        /\ ns[i].lo
    BY <1>0
  <2> HIDE DEF ns, can
  <2>4. \/ NetInv'
        \/ /\ netns' = ns /\ net[i] = "loUp"
           /\ net' = [net EXCEPT ![i] = "route"] /\ UNCHANGED <<alive, queue, ix, link>>
    BY <2>1, <2>2, RequestCases
  <2> SUFFICES ASSUME netns' = ns, net[i] = "loUp",
                      net' = [net EXCEPT ![i] = "route"], UNCHANGED <<alive, queue, ix, link>>
               PROVE  NetInv'
    BY <2>4
  <2>5. net'[i] = "route"
    BY DEF NetInv, NetType
  <2>6. PairInv(i)'
    BY <1>0, <2>3, <2>5 DEF PairInv, AtHost, Moved
  <2> QED BY <2>2, <2>3, <2>6, QuietStep
<1>2. CASE AddDefaultRoute(i)
  <2> DEFINE ns == [netns EXCEPT ![i].route = TRUE]
             can == (\E k \in Links : link[k] = [ns |-> i, addr |-> TRUE, up |-> TRUE])
                       /\ ~netns[i].route
  <2>1. Request(i, "route", "newroute", can, link, ns, NoIndex) /\ can \in BOOLEAN
    BY <1>2 DEF AddDefaultRoute
  <2>2. "newroute" \in Acked /\ "route" \in DOMAIN Then /\ Then["route"] = "back"
        /\ "back" \in DOMAIN Then
    BY DEF Acked, Then
  <2>3. /\ ns \in [Ids -> [lo : BOOLEAN, route : BOOLEAN]]
        /\ \A j \in Ids \ {i} : ns[j] = netns[j]
        /\ ns[i].route /\ ns[i].lo = netns[i].lo
    BY <1>0
  <2> HIDE DEF ns, can
  <2>4. \/ NetInv'
        \/ /\ netns' = ns /\ net[i] = "route"
           /\ net' = [net EXCEPT ![i] = "back"] /\ UNCHANGED <<alive, queue, ix, link>>
    BY <2>1, <2>2, RequestCases
  <2> SUFFICES ASSUME netns' = ns, net[i] = "route",
                      net' = [net EXCEPT ![i] = "back"], UNCHANGED <<alive, queue, ix, link>>
               PROVE  NetInv'
    BY <2>4
  <2>5. net'[i] = "back"
    BY DEF NetInv, NetType
  <2>6. PairInv(i)'
    BY <1>0, <2>3, <2>5 DEF PairInv, AtHost, Moved
  <2> QED BY <2>2, <2>3, <2>6, QuietStep
<1>3. QED
  BY <1>1, <1>2

\* The steps that are not requests.  At the last one everything is in place.
LEMMA PlainStep ==
    ASSUME NetInv, NEW i \in Ids,
           OpenNetns(i) \/ EnterNetns(i) \/ LeaveNetns(i) \/ Masquerade(i)
    PROVE  NetInv'
<1>0. PairInv(i) /\ NetType
  BY DEF NetInv
<1>1. UNCHANGED <<alive, queue, ix, link, netns>>
  BY <1>0 DEF OpenNetns, EnterNetns, LeaveNetns, Masquerade, NetType
<1>2. PICK to \in {"pair", "peerAddr", "nat", "ok"} :
         /\ NetTry(i, net[i], net[i] # "open" \/ i \in alive, to)
         /\ <<net[i], to>> \in {<<"open", "pair">>, <<"enter", "peerAddr">>,
                                <<"back", "nat">>, <<"nat", "ok">>}
  BY DEF OpenNetns, EnterNetns, LeaveNetns, Masquerade, NetTry, Outcomes
<1>3. CASE net' = [net EXCEPT ![i] = "err"]
  <2>1. ix' \in [Ids -> [host : Links \cup {NoIndex}, peer : Links \cup {NoIndex}]]
    BY <1>0, <1>1 DEF NetType
  <2> QED BY <1>1, <1>3, <2>1, NetFails DEF NetFailed
<1>4. CASE net' = [net EXCEPT ![i] = to]
  <2>1. net'[i] = to
    BY <1>0, <1>4 DEF NetType
  <2>2. netns'[i] = netns[i] /\ netns[i] \in [lo : BOOLEAN, route : BOOLEAN]
        /\ link[<<i, "host">>] \in LinkType /\ link[<<i, "peer">>] \in LinkType
    BY <1>0, <1>1, OwnPair DEF NetType, LinkType
  <2>3. PairInv(i)'
    <3>1. CASE to # "ok"
      BY <1>0, <1>1, <1>2, <2>1, <3>1 DEF PairInv, AtHost, Moved
    <3>2. CASE to = "ok"
      <4>1. net[i] = "nat"
        BY <1>2, <3>2
      <4>2. Networked(i)
        BY <1>0, <2>2, <4>1 DEF PairInv, Moved, Networked, LinkType
      <4>3. Networked(i)'
        BY <1>1, <4>2 DEF Networked
      <4> QED BY <1>0, <1>1, <2>1, <3>2, <4>1, <4>3 DEF PairInv, AtHost, Moved
    <3> QED BY <3>1, <3>2
  <2>4. to \in DOMAIN Then \cup NetOver
    BY <1>2 DEF Then, NetOver, NetFailed
  <2> QED BY <1>0, <1>1, <1>4, <2>3, <2>4, QuietStep DEF NetType
<1>5. QED
  BY <1>2, <1>3, <1>4 DEF NetTry

\* The panic at the cut comes before the first request.
LEMMA PanicStep ==
    ASSUME NetInv, NEW i \in Ids, CutPanics(i)
    PROVE  NetInv'
<1>1. ix' \in [Ids -> [host : Links \cup {NoIndex}, peer : Links \cup {NoIndex}]]
  BY DEF CutPanics, NetInv, NetType
<1>2. QED
  BY <1>1, NetFails DEF CutPanics, NetFailed

\* The kernel removes a namespace with the container's own pair only.
LEMMA GoneStep ==
    ASSUME NetInv, NEW i \in Ids, NetnsGone(i)
    PROVE  NetInv'
<1> DEFINE lost == {k \in Links : link[k].ns = i}
<1>1. i \notin {"none", "host"}
  BY IdsAssumption
<1>2. \A l \in lost : l[1] = i
  BY <1>1 DEF NetInv, LinksStayHome
<1>3. \A k \in Links : link'[k] \in {NoLink, link[k]} /\ (k[1] # i => link'[k] = link[k])
  BY <1>2 DEF NetnsGone
<1>4. UNCHANGED <<alive, net, queue, ix, netns>> /\ i \notin alive /\ net[i] \in NetOver
  BY DEF NetnsGone
<1>5. link' \in [Links -> LinkType]
  <2>1. NoLink \in LinkType
    BY DEF NoLink, LinkType
  <2> QED BY <2>1 DEF NetnsGone, NetInv, NetType, LinkType
<1>6. NetType'
  BY <1>4, <1>5 DEF NetInv, NetType, LinkType
<1>7. NamesUnique'
  <2>1. \A k \in Links : link'[k].ns = "host" => link[k].ns = "host"
    BY <1>3 DEF NoLink
  <2> QED BY <2>1, NamesStay DEF NetInv
<1>8. PairInv(i)'
  <2>1. PairInv(i)
    BY DEF NetInv
  <2> QED BY <1>4, <2>1 DEF PairInv, NetOver, AtHost, Moved, NetFailed
<1>9. \A k \in Links : k[1] = i => link'[k].ns \in {"none", "host", i}
  BY <1>3 DEF NoLink, NetInv, LinksStayHome
<1>10. QED
  BY <1>3, <1>4, <1>6, <1>7, <1>8, <1>9, Frame

-----------------------------------------------------------------------------
(* The theorems.                                                           *)

\* No link exists in the initial state.
LEMMA NetInit == Init => NetInv
<1> SUFFICES ASSUME Init PROVE NetInv
  OBVIOUS
<1>1. link = [k \in Links |-> NoLink] /\ NoLink \in LinkType /\ NoLink.ns = "none"
  BY DEF Init, NInit, NoLink, LinkType
<1>2. NetType
  BY <1>1 DEF Init, NInit, NetType, LinkType, Then
<1>3. NamesUnique /\ LinksStayHome
  BY <1>1 DEF NamesUnique, LinksStayHome
<1>4. ASSUME NEW i \in Ids PROVE PairInv(i)
  BY <1>1, OwnPair DEF Init, NInit, PairInv, AtHost, Moved
<1>5. QED
  BY <1>2, <1>3, <1>4 DEF NetInv

\* The inductive step.
LEMMA NetNext == NetInv /\ [Next]_vars => NetInv'
<1> SUFFICES ASSUME NetInv, [Next]_vars PROVE NetInv'
  OBVIOUS
<1>1. ASSUME UNCHANGED nVars, alive' \subseteq alive PROVE NetInv'
  <2>1. NetType' /\ NamesUnique' /\ LinksStayHome'
    BY <1>1 DEF nVars, NetInv, NetType, NamesUnique, LinksStayHome
  <2>2. ASSUME NEW j \in Ids PROVE PairInv(j)'
    BY <1>1, OtherPair DEF nVars, NetInv
  <2> QED BY <2>1, <2>2 DEF NetInv
<1>2. ASSUME NEW i \in Ids, Child(i) PROVE NetInv'
  BY <1>1, <1>2 DEF Child
<1>3. ASSUME NEW i \in Ids, CreateNetwork(i) PROVE NetInv'
  BY <1>3, PairStep, IndexStep, AddrStep, UpStep, MoveStep, NetnsStep, PlainStep, PanicStep
     DEF CreateNetwork
<1>4. ASSUME NEW i \in Ids, NetnsGone(i) PROVE NetInv'
  BY <1>4, GoneStep
<1>5. CASE UNCHANGED vars
  BY <1>1, <1>5 DEF vars
<1>6. QED
  BY <1>2, <1>3, <1>4, <1>5 DEF Next, Parent

\* The names of links in the host's namespace stay unique, and each
\* create_network() works on its own pair.
THEOREM NetInvariant == Spec => []NetInv
BY NetInit, NetNext, PTL DEF Spec

\* An Ok of create_network() is worth what it says, for any number of
\* containers, any names and any failures: each request was carried out on the
\* container's own links, and they stay while it lives.
THEOREM OkAlwaysNetworked == Spec => []OkMeansNetworked
<1>1. NetInv => OkMeansNetworked
  BY DEF NetInv, PairInv, OkMeansNetworked
<1>2. QED
  BY <1>1, NetInvariant, PTL

\* No container ever gets the link of another, even if their names collide.
THEOREM LinksAlwaysHome == Spec => []LinksStayHome
<1>1. NetInv => LinksStayHome
  BY DEF NetInv
<1>2. QED
  BY <1>1, NetInvariant, PTL

\* Every recv of create_network() has a reply to return.
THEOREM NeverUnanswered == Spec => []AlwaysAnswered
<1>1. NetInv => AlwaysAnswered
  BY DEF NetInv, NetType, AlwaysAnswered, Then, NetOver, NetFailed
<1>2. QED
  BY <1>1, NetInvariant, PTL

-----------------------------------------------------------------------------
(* Network implements Wiring.  Of a link Wiring sees only the namespace it *)
(* is in, so each step is first reduced to what it does to those.          *)

pairs == [i \in Ids |-> PairOf(i)]
stages == [i \in Ids |-> StageOf(i)]

\* The host end of a pair stays in the host's namespace for as long as the
\* peer is anywhere: what keeps the
\* name of a pair taken wherever its peer has gone, also after an error and
\* after the end of the child, of which NetInv says nothing.
PairsWhole ==
    \A i \in Ids : /\ link[<<i, "host">>].ns \in {"none", "host"}
                   /\ link[<<i, "peer">>].ns # "none" => link[<<i, "host">>].ns = "host"

\* What a step of create_network() may do to the namespaces of the links: an
\* error or a panic leaves them alone, the pair is made in the host's namespace if its
\* name was free there, its peer moves, and no other request touches them.
Errs(i) == (\E st \in NetFailed : net' = [net EXCEPT ![i] = st]) /\ link' = link
Makes(i) ==
    /\ net[i] = "pair" /\ net' = [net EXCEPT ![i] = "hostIx"]
    /\ InHost(HostName[i]) = {}
    /\ \A k \in Links : link'[k].ns = IF k[1] = i THEN "host" ELSE link[k].ns
Moves(i) ==
    /\ net[i] = "move" /\ net' = [net EXCEPT ![i] = "enter"]
    /\ \A k \in Links : link'[k].ns = IF k = <<i, "peer">> THEN i ELSE link[k].ns
GoesOn(i) ==
    /\ net[i] \notin {"pair", "move"} /\ net' = [net EXCEPT ![i] = Then[net[i]]]
    /\ \A k \in Links : link'[k].ns = link[k].ns

\* Those four are all there is.
LEMMA StepShape ==
    ASSUME NetInv, NEW i \in Ids, CreateNetwork(i)
    PROVE  /\ alive' = alive /\ net[i] \in DOMAIN Then
           /\ Errs(i) \/ Makes(i) \/ Moves(i) \/ GoesOn(i)
<1>0. NetType /\ PairInv(i) /\ net[i] \in DOMAIN Then \cup NetOver
  BY DEF NetInv, NetType
<1>1. ASSUME NEW st \in DOMAIN Then, NEW kind \in Acked \cup {"getlink"},
             NEW possible \in BOOLEAN, NEW links, NEW ns, NEW k,
             Request(i, st, kind, possible, links, ns, k)
      PROVE  /\ alive' = alive /\ net[i] = st
             /\ \/ Errs(i)
                \/ possible /\ link' = links /\ net' = [net EXCEPT ![i] = Then[st]]
  BY <1>0, <1>1, RequestEffect DEF Errs, NetFailed
<1>2. ASSUME NEW st \in DOMAIN Then \ {"pair", "move"}, NEW kind \in Acked \cup {"getlink"},
             NEW possible \in BOOLEAN, NEW links, NEW ns, NEW k,
             Request(i, st, kind, possible, links, ns, k),
             \A l \in Links : links[l].ns = link[l].ns
      PROVE  alive' = alive /\ net[i] = st /\ (Errs(i) \/ GoesOn(i))
  BY <1>1, <1>2 DEF GoesOn
<1>3. ASSUME NEW k
      PROVE  /\ \A l \in Links : At(k, "addr", TRUE)[l].ns = link[l].ns
             /\ \A l \in Links : At(k, "up", TRUE)[l].ns = link[l].ns
  <2>1. CASE k \in Links
    <3>1. link[k] \in LinkType
      BY <1>0, <2>1 DEF NetType, LinkType
    <3> DEFINE a == At(k, "addr", TRUE)
               u == At(k, "up", TRUE)
    <3>2. a[k] = [link[k] EXCEPT !.addr = TRUE] /\ \A l \in Links \ {k} : a[l] = link[l]
      BY <1>0, <2>1, AtAddr
    <3>3. u[k] = [link[k] EXCEPT !.up = TRUE] /\ \A l \in Links \ {k} : u[l] = link[l]
      BY <1>0, <2>1, AtUp
    <3> HIDE DEF a, u
    <3>4. a[k].ns = link[k].ns /\ u[k].ns = link[k].ns
      BY <3>1, <3>2, <3>3 DEF LinkType
    <3>5. \A l \in Links : a[l].ns = link[l].ns /\ u[l].ns = link[l].ns
      BY <3>2, <3>3, <3>4
    <3> QED BY <3>5 DEF a, u
  <2>2. CASE k \notin Links
    BY <2>2 DEF At
  <2> QED BY <2>1, <2>2
<1>P. CASE CutPanics(i)
  BY <1>P DEF CutPanics, Errs, NetFailed, Then
<1>4. CASE OpenNetns(i) \/ EnterNetns(i) \/ LeaveNetns(i) \/ Masquerade(i)
  <2>0. Then["open"] = "pair" /\ Then["enter"] = "peerAddr" /\ Then["back"] = "nat"
        /\ Then["nat"] = "ok" /\ {"open", "enter", "back", "nat"} \subseteq DOMAIN Then
    BY DEF Then
  <2>1. /\ UNCHANGED <<alive, link>> /\ net[i] \in {"open", "enter", "back", "nat"}
        /\ net' \in {[net EXCEPT ![i] = Then[net[i]]], [net EXCEPT ![i] = "err"]}
    <3>1. CASE OpenNetns(i)
      BY <2>0, <3>1 DEF OpenNetns, NetTry
    <3>2. CASE EnterNetns(i)
      BY <2>0, <3>2 DEF EnterNetns, NetTry
    <3>3. CASE LeaveNetns(i)
      BY <2>0, <3>3 DEF LeaveNetns, NetTry
    <3>4. CASE Masquerade(i)
      BY <2>0, <3>4 DEF Masquerade, NetTry
    <3> QED BY <1>4, <3>1, <3>2, <3>3, <3>4
  <2> QED BY <2>0, <2>1 DEF Errs, GoesOn, NetFailed
<1>5. CASE CreateVethPair(i)
  <2> DEFINE named == InHost(HostName[i]) # {}
             free  == ~named /\ InHost(PeerName[i]) = {}
             both  == {<<i, "host">>, <<i, "peer">>}
             links == [k \in Links |-> IF k \in both /\ free
                                       THEN [ns |-> "host", addr |-> FALSE, up |-> FALSE]
                                       ELSE link[k]]
             can   == free \/ (named /\ "newlink" \notin Exclusive)
  <2>1. Request(i, "pair", "newlink", can, links, netns, NoIndex)
    BY <1>5 DEF CreateVethPair
  <2>2. can = free /\ "newlink" \in Acked /\ "pair" \in DOMAIN Then /\ Then["pair"] = "hostIx"
    BY DEF Exclusive, Acked, Then
  <2>3. ASSUME free PROVE \A k \in Links : links[k].ns = IF k[1] = i THEN "host" ELSE link[k].ns
    BY ZenonT(60), <2>3, OwnPair
  <2>4. free => InHost(HostName[i]) = {}
    OBVIOUS
  <2> HIDE DEF links, free, named
  <2>5. /\ alive' = alive /\ net[i] = "pair"
        /\ Errs(i) \/ (free /\ link' = links /\ net' = [net EXCEPT ![i] = "hostIx"])
    BY <1>1, <2>1, <2>2
  <2> QED BY <2>2, <2>3, <2>4, <2>5 DEF Makes
<1>6. CASE \/ GetInterfaceIndex(i, "hostIx", HostName[i])
           \/ GetInterfaceIndex(i, "peerIx", PeerName[i])
  <2>1. {"hostIx", "peerIx"} \subseteq DOMAIN Then \ {"pair", "move"}
    BY DEF Then
  <2>2. ASSUME NEW st \in {"hostIx", "peerIx"}, NEW n, GetInterfaceIndex(i, st, n)
        PROVE  alive' = alive /\ net[i] = st /\ (Errs(i) \/ GoesOn(i))
    <3> DEFINE k == IF InHost(n) = {} THEN NoIndex ELSE CHOOSE l \in InHost(n) : TRUE
               can == InHost(n) # {}
    <3>1. Request(i, st, "getlink", can, link, netns, k) /\ can \in BOOLEAN
      BY <2>2 DEF GetInterfaceIndex
    <3> HIDE DEF k, can
    <3> QED BY <1>2, <2>1, <2>2, <3>1
  <2> QED BY <1>6, <2>1, <2>2
<1>7. CASE \/ SetIpAddr(i, "hostAddr", ix[i].host, "host")
           \/ SetIpAddr(i, "peerAddr", ix[i].peer, i)
  <2>1. {"hostAddr", "peerAddr"} \subseteq DOMAIN Then \ {"pair", "move"} /\ "newaddr" \in Acked
    BY DEF Then, Acked
  <2>2. ASSUME NEW st \in {"hostAddr", "peerAddr"}, NEW k, NEW ns, SetIpAddr(i, st, k, ns)
        PROVE  alive' = alive /\ net[i] = st /\ (Errs(i) \/ GoesOn(i))
    <3> DEFINE links == At(k, "addr", TRUE)
               can == There(k, ns) /\ ~link[k].addr
    <3>1. Request(i, st, "newaddr", can, links, netns, NoIndex) /\ can \in BOOLEAN
      BY <2>2 DEF SetIpAddr, There
    <3>2. \A l \in Links : links[l].ns = link[l].ns
      BY <1>3
    <3> HIDE DEF links, can
    <3> QED BY <1>2, <2>1, <2>2, <3>1, <3>2
  <2> QED BY <1>7, <2>1, <2>2
<1>8. CASE \/ SetInterfaceUp(i, "hostUp", ix[i].host, "host")
           \/ SetInterfaceUp(i, "peerUp", ix[i].peer, i)
  <2>1. {"hostUp", "peerUp"} \subseteq DOMAIN Then \ {"pair", "move"} /\ "setlink" \in Acked
    BY DEF Then, Acked
  <2>2. ASSUME NEW st \in {"hostUp", "peerUp"}, NEW k, NEW ns, SetInterfaceUp(i, st, k, ns)
        PROVE  alive' = alive /\ net[i] = st /\ (Errs(i) \/ GoesOn(i))
    <3> DEFINE links == At(k, "up", TRUE)
               can == There(k, ns)
    <3>1. Request(i, st, "setlink", can, links, netns, NoIndex) /\ can \in BOOLEAN
      BY <2>2 DEF SetInterfaceUp, There
    <3>2. \A l \in Links : links[l].ns = link[l].ns
      BY <1>3
    <3> HIDE DEF links, can
    <3> QED BY <1>2, <2>1, <2>2, <3>1, <3>2
  <2> QED BY <1>8, <2>1, <2>2
<1>9. CASE MoveToNetns(i, ix[i].peer)
  <2> DEFINE k == <<i, "peer">>
             can == There(k, "host")
             links == At(k, "ns", i)
  <2>1. net[i] = "move" /\ ix[i].peer = k
    BY <1>0, <1>9 DEF MoveToNetns, Request, PairInv
  <2>2. Request(i, "move", "setlink", can, links, netns, NoIndex) /\ can \in BOOLEAN
    BY <1>9, <2>1 DEF MoveToNetns, There
  <2>3. \A l \in Links : links[l].ns = IF l = k THEN i ELSE link[l].ns
    <3>1. k \in Links /\ link[k] \in LinkType
      BY <1>0, OwnPair DEF NetType, LinkType
    <3>2. links[k] = [link[k] EXCEPT !.ns = i] /\ \A l \in Links \ {k} : links[l] = link[l]
      BY <1>0, <3>1, AtNs
    <3> HIDE DEF links, k
    <3>3. links[k].ns = i
      BY <3>1, <3>2 DEF LinkType
    <3> QED BY <3>2, <3>3
  <2>4. "setlink" \in Acked /\ "move" \in DOMAIN Then /\ Then["move"] = "enter"
    BY DEF Acked, Then
  <2> HIDE DEF links, can
  <2> QED BY <1>1, <2>1, <2>2, <2>3, <2>4 DEF Moves
<1>10. CASE SetLoopbackUp(i)
  <2> DEFINE ns == [netns EXCEPT ![i].lo = TRUE]
             can == TRUE
  <2>1. Request(i, "loUp", "setlink", can, link, ns, NoIndex) /\ can \in BOOLEAN
    BY <1>10 DEF SetLoopbackUp
  <2>2. "setlink" \in Acked /\ "loUp" \in DOMAIN Then \ {"pair", "move"}
    BY DEF Acked, Then
  <2> HIDE DEF ns, can
  <2> QED BY <1>2, <2>1, <2>2
<1>11. CASE AddDefaultRoute(i)
  <2> DEFINE ns == [netns EXCEPT ![i].route = TRUE]
             can == (\E k \in Links : link[k] = [ns |-> i, addr |-> TRUE, up |-> TRUE])
                       /\ ~netns[i].route
  <2>1. Request(i, "route", "newroute", can, link, ns, NoIndex) /\ can \in BOOLEAN
    BY <1>11 DEF AddDefaultRoute
  <2>2. "newroute" \in Acked /\ "route" \in DOMAIN Then \ {"pair", "move"}
    BY DEF Acked, Then
  <2> HIDE DEF ns, can
  <2> QED BY <1>2, <2>1, <2>2
<1>12. QED
  BY <1>P, <1>4, <1>5, <1>6, <1>7, <1>8, <1>9, <1>10, <1>11 DEF CreateNetwork

\* The pair of a container as NetInv has it.
LEMMA PairSeen ==
    ASSUME NetInv, NEW i \in Ids
    PROVE  LET p == link[<<i, "peer">>].ns IN
           /\ PairOf(i) = CASE p = "none" -> IF net[i] \in NetOver THEN "gone" ELSE "none"
                            [] p = "host" -> "made"
                            [] OTHER -> "joined"
           /\ p \in {"none", "host", i} /\ i \notin {"none", "host"}
<1>1. link[<<i, "peer">>].ns \in {"none", "host", i} /\ i \notin {"none", "host"}
  BY OwnPair, IdsAssumption DEF NetInv, LinksStayHome
<1>2. net[i] = "ok" /\ i \in alive => Networked(i)
  BY DEF NetInv, PairInv
<1>3. QED
  BY <1>1, <1>2 DEF PairOf

\* The same after a step.
LEMMA PairSeenNext ==
    ASSUME NetInv', NEW i \in Ids
    PROVE  LET p == link'[<<i, "peer">>].ns IN
           PairOf(i)' = CASE p = "none" -> IF net'[i] \in NetOver THEN "gone" ELSE "none"
                          [] p = "host" -> "made"
                          [] OTHER -> "joined"
<1>1. link'[<<i, "peer">>].ns \in {"none", "host", i} /\ i \notin {"none", "host"}
  BY OwnPair, IdsAssumption DEF NetInv, LinksStayHome
<1>2. net'[i] = "ok" /\ i \in alive' => Networked(i)'
  BY DEF NetInv, PairInv
<1>3. QED
  BY <1>1, <1>2 DEF PairOf

\* Wiring sees of a container where its peer is and how far it got.
LEMMA SameView ==
    ASSUME NetInv, NetInv', NEW j \in Ids, net'[j] = net[j],
           link'[<<j, "peer">>].ns = link[<<j, "peer">>].ns
    PROVE  PairOf(j)' = PairOf(j) /\ StageOf(j)' = StageOf(j)
<1>1. PairOf(j)' = PairOf(j)
  BY PairSeen, PairSeenNext
<1>2. QED
  BY <1>1 DEF StageOf, NetFailed

\* A step of one container is a step of its entries.
LEMMA OwnView ==
    ASSUME NEW i \in Ids,
           \A j \in Ids \ {i} : PairOf(j)' = PairOf(j) /\ StageOf(j)' = StageOf(j)
    PROVE  /\ pairs' = [pairs EXCEPT ![i] = PairOf(i)']
           /\ stages' = [stages EXCEPT ![i] = StageOf(i)']
<1>1. pairs' = [j \in Ids |-> PairOf(j)'] /\ stages' = [j \in Ids |-> StageOf(j)']
  BY DEF pairs, stages
<1>2. QED
  BY <1>1 DEF pairs, stages

\* Every step of create_network() is an action of Wiring, or a stutter.
LEMMA RefineNetwork ==
    ASSUME NetInv, NetInv', PairsWhole, NEW i \in Ids, CreateNetwork(i)
    PROVE  \/ W!Make(i) \/ W!Join(i) \/ W!Ready(i) \/ W!Fail(i)
           \/ UNCHANGED <<pairs, stages, alive>>
<1>0. /\ alive' = alive /\ net[i] \in DOMAIN Then
      /\ Errs(i) \/ Makes(i) \/ Moves(i) \/ GoesOn(i)
  BY StepShape
<1>1. NetType /\ PairInv(i) /\ net \in [Ids -> DOMAIN Then \cup NetOver]
  BY DEF NetInv, NetType
<1>2. net[i] \notin NetOver /\ StageOf(i) = "work"
  BY <1>0 DEF Then, NetOver, StageOf, NetFailed
<1>3. pairs[i] = PairOf(i) /\ stages[i] = StageOf(i)
  BY DEF pairs, stages
<1>4. ASSUME \A j \in Ids \ {i} : net'[j] = net[j] /\ link'[<<j, "peer">>].ns = link[<<j, "peer">>].ns
      PROVE  /\ pairs' = [pairs EXCEPT ![i] = PairOf(i)']
             /\ stages' = [stages EXCEPT ![i] = StageOf(i)']
             /\ StageOf(i)' = "work" => UNCHANGED stages
  <2>1. /\ pairs' = [pairs EXCEPT ![i] = PairOf(i)']
        /\ stages' = [stages EXCEPT ![i] = StageOf(i)']
    BY <1>4, SameView, OwnView
  <2>2. stages = [stages EXCEPT ![i] = "work"]
    BY <1>2, <1>3 DEF stages
  <2> QED BY <2>1, <2>2
<1>5. \A j \in Ids \ {i} : <<j, "peer">> \in Links /\ <<j, "peer">>[1] = j
  BY OwnPair
<1>6. CASE Errs(i)
  <2>1. net'[i] \in NetFailed /\ link' = link /\ \A j \in Ids \ {i} : net'[j] = net[j]
    BY <1>1, <1>6 DEF Errs
  <2>2. pairs' = [pairs EXCEPT ![i] = PairOf(i)'] /\ stages' = [stages EXCEPT ![i] = "failed"]
    BY <1>4, <2>1 DEF StageOf, NetFailed
  <2>3. PairOf(i)' = IF PairOf(i) = "none" THEN "gone" ELSE PairOf(i)
    BY <1>2, <2>1, PairSeen, PairSeenNext DEF NetOver, NetFailed
  <2> QED BY <1>0, <1>2, <1>3, <2>2, <2>3 DEF W!Fail, pairs, stages
<1>7. CASE Makes(i)
  <2>1. /\ net[i] = "pair" /\ net'[i] = "hostIx" /\ \A j \in Ids \ {i} : net'[j] = net[j]
        /\ \A j \in Ids \ {i} : link'[<<j, "peer">>].ns = link[<<j, "peer">>].ns
        /\ link'[<<i, "peer">>].ns = "host" /\ link[<<i, "peer">>].ns = "none"
    BY <1>1, <1>5, <1>7, OwnPair DEF Makes, PairInv
  <2>2. PairOf(i) = "none" /\ PairOf(i)' = "made" /\ StageOf(i)' = "work"
    BY <1>2, <2>1, PairSeen, PairSeenNext DEF StageOf, NetFailed
  <2>3. pairs' = [pairs EXCEPT ![i] = "made"] /\ UNCHANGED stages
    BY <1>4, <2>1, <2>2
  <2>4. ASSUME NEW j \in Ids, pairs[j] \in {"made", "joined"} PROVE HostName[j] # HostName[i]
    <3>1. link[<<j, "peer">>].ns # "none"
      BY <2>4, PairSeen DEF pairs
    <3>2. link[<<j, "host">>].ns = "host" /\ <<j, "host">> \in Links
          /\ Name(<<j, "host">>) = HostName[j]
      BY <3>1, OwnPair DEF PairsWhole
    <3> QED BY <1>7, <3>2 DEF Makes, InHost
  <2> QED BY <1>0, <1>2, <1>3, <2>2, <2>3, <2>4 DEF W!Make, W!Exists, pairs, stages
<1>8. CASE Moves(i)
  <2>1. /\ net[i] = "move" /\ net'[i] = "enter" /\ \A j \in Ids \ {i} : net'[j] = net[j]
        /\ \A j \in Ids \ {i} : link'[<<j, "peer">>].ns = link[<<j, "peer">>].ns
        /\ link'[<<i, "peer">>].ns = i /\ link[<<i, "peer">>].ns = "host"
    BY <1>1, <1>5, <1>8, OwnPair DEF Moves, PairInv, AtHost
  <2>2. PairOf(i) = "made" /\ PairOf(i)' = "joined" /\ StageOf(i)' = "work"
    BY <2>1, PairSeen, PairSeenNext DEF StageOf, NetFailed
  <2>3. pairs' = [pairs EXCEPT ![i] = "joined"] /\ UNCHANGED stages
    BY <1>4, <2>1, <2>2
  <2> QED BY <1>0, <1>2, <1>3, <2>2, <2>3 DEF W!Join, pairs, stages
<1>9. CASE GoesOn(i)
  <2>1. /\ net'[i] = Then[net[i]] /\ \A j \in Ids \ {i} : net'[j] = net[j]
        /\ \A j \in Ids : link'[<<j, "peer">>].ns = link[<<j, "peer">>].ns
    BY <1>1, <1>9, OwnPair DEF GoesOn
  <2>2. CASE net[i] = "nat"
    <3>1. net'[i] = "ok" /\ link[<<i, "peer">>].ns = i
      BY <1>1, <2>1, <2>2 DEF Then, PairInv, Moved
    <3>2. PairOf(i) = "joined" /\ PairOf(i)' = "joined" /\ StageOf(i)' = "ready"
      BY <2>1, <3>1, PairSeen, PairSeenNext DEF StageOf, NetFailed
    <3>3. stages' = [stages EXCEPT ![i] = "ready"] /\ UNCHANGED pairs
      BY <1>4, <2>1, <3>2 DEF pairs
    <3> QED BY <1>0, <1>2, <1>3, <3>2, <3>3 DEF W!Ready, pairs, stages
  <2>3. CASE net[i] # "nat"
    <3>1. net'[i] \notin NetOver
      BY <1>0, <2>1, <2>3 DEF Then, NetOver, NetFailed
    <3>2. PairOf(i)' = PairOf(i) /\ StageOf(i)' = "work"
      <4> DEFINE p == link[<<i, "peer">>].ns
                 q == link'[<<i, "peer">>].ns
                 seen == CASE p = "none" -> "none" [] p = "host" -> "made" [] OTHER -> "joined"
      <4>1. q = p /\ net[i] \notin NetOver
        BY <1>2, <2>1
      <4>2. PairOf(i) = seen
        BY <4>1, PairSeen
      <4>3. PairOf(i)' = CASE q = "none" -> "none" [] q = "host" -> "made" [] OTHER -> "joined"
        BY <3>1, PairSeenNext
      <4>4. StageOf(i)' = "work"
        BY <3>1 DEF StageOf, NetOver, NetFailed
      <4> HIDE DEF p, q
      <4> QED BY <4>1, <4>2, <4>3, <4>4
    <3> QED BY <1>0, <1>2, <1>4, <2>1, <3>2 DEF pairs, stages
  <2> QED BY <2>2, <2>3
<1>10. QED
  BY <1>0, <1>6, <1>7, <1>8, <1>9

\* A namespace that goes takes the pair of its own container, who has ended.
LEMMA RefineGone ==
    ASSUME NetInv, NetInv', PairsWhole, NEW i \in Ids, NetnsGone(i)
    PROVE  W!Lose(i)
<1>1. i \notin alive /\ net[i] \in NetOver /\ UNCHANGED <<alive, net>>
  BY DEF NetnsGone
<1>2. \A k \in Links : link[k].ns = i => k[1] = i
  BY IdsAssumption DEF NetInv, LinksStayHome
<1>3. PICK k \in Links : link[k].ns = i
  BY DEF NetnsGone
<1>4. \A l \in Links : link'[l] = IF l[1] = i THEN NoLink ELSE link[l]
  BY <1>2, <1>3 DEF NetnsGone
<1>5. /\ \A j \in Ids \ {i} : link'[<<j, "peer">>].ns = link[<<j, "peer">>].ns
      /\ link'[<<i, "peer">>].ns = "none"
  <2>1. \A j \in Ids : <<j, "peer">> \in Links /\ <<j, "peer">>[1] = j
    BY OwnPair
  <2> QED BY <1>4, <2>1 DEF NoLink
<1>6. link[<<i, "peer">>].ns = i
  <2>1. k \in {<<i, "host">>, <<i, "peer">>}
    BY <1>2, <1>3, OwnPair
  <2> QED BY <1>3, <2>1, IdsAssumption DEF PairsWhole
<1>7. PairOf(i) = "joined" /\ PairOf(i)' = "gone"
  BY <1>1, <1>5, <1>6, PairSeen, PairSeenNext
<1>8. pairs' = [pairs EXCEPT ![i] = "gone"] /\ UNCHANGED stages
  <2>1. StageOf(i)' = StageOf(i)
    BY <1>1 DEF StageOf, NetFailed
  <2> QED BY <1>1, <1>5, <1>7, <2>1, SameView, OwnView DEF stages
<1>9. pairs[i] = "joined" /\ stages[i] # "work"
  BY <1>1, <1>7 DEF pairs, stages, StageOf, NetOver, NetFailed
<1>10. QED
  BY <1>1, <1>8, <1>9 DEF W!Lose, pairs, stages

\* PairsWhole is kept by every step.
LEMMA WholeNext ==
    ASSUME NetInv, PairsWhole, [Next]_vars
    PROVE  PairsWhole'
<1>1. \A j \in Ids : /\ <<j, "host">> \in Links /\ <<j, "peer">> \in Links
                     /\ <<j, "host">>[1] = j /\ <<j, "peer">>[1] = j
                     /\ <<j, "host">> # <<j, "peer">>
  BY OwnPair
<1>2. CASE UNCHANGED link
  BY <1>2 DEF PairsWhole
<1>3. ASSUME NEW i \in Ids, CreateNetwork(i) PROVE PairsWhole'
  <2>1. Errs(i) \/ Makes(i) \/ Moves(i) \/ GoesOn(i)
    BY <1>3, StepShape
  <2>2. CASE Makes(i)
    BY <1>1, <2>2 DEF Makes, PairsWhole
  <2>3. CASE Moves(i)
    <3>1. link[<<i, "peer">>].ns = "host"
      BY <2>3 DEF Moves, NetInv, PairInv, AtHost
    <3>2. \A j \in Ids : <<j, "host">> # <<i, "peer">>
      OBVIOUS
    <3>3. \A j \in Ids \ {i} : <<j, "peer">> # <<i, "peer">>
      OBVIOUS
    <3> QED BY <1>1, <2>3, <3>1, <3>2, <3>3 DEF Moves, PairsWhole
  <2> QED BY ZenonT(60), <1>1, <1>2, <2>1, <2>2, <2>3 DEF Errs, GoesOn, PairsWhole
<1>4. ASSUME NEW i \in Ids, NetnsGone(i) PROVE PairsWhole'
  <2>1. \A j \in Ids : \/ link'[<<j, "host">>] = NoLink /\ link'[<<j, "peer">>] = NoLink
                       \/ /\ link'[<<j, "host">>] = link[<<j, "host">>]
                          /\ link'[<<j, "peer">>] = link[<<j, "peer">>]
    BY <1>1, <1>4 DEF NetnsGone
  <2>2. NoLink.ns = "none"
    BY DEF NoLink
  <2>3. ASSUME NEW j \in Ids
        PROVE  /\ link'[<<j, "host">>].ns \in {"none", "host"}
               /\ link'[<<j, "peer">>].ns # "none" => link'[<<j, "host">>].ns = "host"
    <3>1. CASE link'[<<j, "host">>] = NoLink /\ link'[<<j, "peer">>] = NoLink
      BY <2>2, <3>1
    <3>2. CASE link'[<<j, "host">>] = link[<<j, "host">>] /\ link'[<<j, "peer">>] = link[<<j, "peer">>]
      BY <3>2 DEF PairsWhole
    <3> QED BY <2>1, <3>1, <3>2
  <2> QED BY <2>3 DEF PairsWhole
<1>5. QED
  BY <1>2, <1>3, <1>4 DEF Next, Parent, Child, vars, nVars

\* Every step of Setup is a step of Wiring, or leaves it alone.
LEMMA RefineSetup ==
    NetInv /\ NetInv' /\ PairsWhole /\ [Next]_vars => [W!Next]_<<pairs, stages, alive>>
<1> SUFFICES ASSUME NetInv, NetInv', PairsWhole, [Next]_vars
             PROVE  W!Next \/ UNCHANGED <<pairs, stages, alive>>
  OBVIOUS
<1>1. ASSUME UNCHANGED nVars, alive' \subseteq alive PROVE W!End
  <2>1. \A j \in Ids : PairOf(j)' = PairOf(j) /\ StageOf(j)' = StageOf(j)
    BY <1>1, SameView DEF nVars
  <2>2. UNCHANGED <<pairs, stages>>
    BY <2>1 DEF pairs, stages
  <2> QED BY <1>1, <2>2 DEF W!End, pairs, stages
<1>2. ASSUME NEW i \in Ids, Child(i) PROVE W!Next
  BY <1>1, <1>2 DEF Child, W!Next
<1>3. ASSUME NEW i \in Ids, CreateNetwork(i)
      PROVE  W!Next \/ UNCHANGED <<pairs, stages, alive>>
  BY <1>3, RefineNetwork DEF W!Next
<1>4. ASSUME NEW i \in Ids, NetnsGone(i) PROVE W!Next
  BY <1>4, RefineGone DEF W!Next
<1>5. CASE UNCHANGED vars
  BY <1>1, <1>5 DEF vars, W!Next
<1>6. QED
  BY <1>2, <1>3, <1>4, <1>5 DEF Next, Parent

\* create_network() keeps the promise of Wiring for any number of containers,
\* any names and any failures, while their children come and go: a name has one
\* pair at a time, the peer goes to the container it was made for, Ok is
\* returned only when it is there, and it is lost only after the container.
THEOREM NetworkWired == Spec => ImplementsWiring
<1>1. Init => W!Init /\ PairsWhole
  <2> SUFFICES ASSUME Init PROVE W!Init /\ PairsWhole
    OBVIOUS
  <2>1. \A i \in Ids : link[<<i, "host">>].ns = "none" /\ link[<<i, "peer">>].ns = "none"
    BY OwnPair DEF Init, NInit, NoLink
  <2>2. \A i \in Ids : PairOf(i) = "none" /\ StageOf(i) = "work"
    BY <2>1, IdsAssumption DEF Init, NInit, PairOf, StageOf, NetOver, NetFailed
  <2> QED BY <2>1, <2>2 DEF W!Init, PairsWhole, Init, NInit
<1>2. NetInv /\ PairsWhole /\ [Next]_vars => PairsWhole'
  BY WholeNext
<1>3. NetInv /\ NetInv' /\ PairsWhole /\ [Next]_vars => [W!Next]_<<pairs, stages, alive>>
  BY RefineSetup
<1>4. QED
  BY <1>1, <1>2, <1>3, NetInvariant, PTL DEF Spec, ImplementsWiring, W!Spec, pairs, stages
=============================================================================
