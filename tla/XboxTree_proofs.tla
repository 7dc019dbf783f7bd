--------------------------- MODULE XboxTree_proofs ---------------------------
(* Theorems of XboxTree for every tree of proxies, every set of consoles and *)
(* every bound on packets and faults.                                        *)
EXTENDS XboxTree, TLAPS

USE DEF NoPort, ServerPort

(* A packet for one console is on a network on its way, or on the one where  *)
(* it was sent.                                                              *)
Right(n, k) ==
  /\ k \in 1..Len(packets)
  /\ packets[k].dst \in Box =>
       packets[k].at = n \/ Hop[n][packets[k].at] # Hop[n][Home[packets[k].dst]]

Tables ==
  /\ \A n, m \in Proxy : proxies[n][m] # NoPort => Linked(n, m)
  /\ \A n \in Proxy : \A b \in Box :
       xboxen[n][b] \notin {n, NoProxy} => proxies[n][xboxen[n][b]] # NoPort

SentHome == \A k \in 1..Len(packets) : packets[k].at = Home[packets[k].src]

NetRight ==
  \A m \in net :
    /\ Linked(m.from, m.to)
    /\ m.kind = "data" =>
         Right(m.to, m.pkt) /\ Hop[m.to][packets[m.pkt].at] = m.from

SniffRight(n, k) ==
  Right(n, k) /\ (packets[k].at = n \/ xboxen[n][packets[k].src] # NoProxy)

LanRight == \A n \in Proxy : \A i \in 1..Len(lan[n]) : SniffRight(n, lan[n][i])

ScanRight ==
  \A n \in Proxy : todo[n] # {} =>
    /\ lan[n] # << >> /\ n \notin todo[n]
    /\ xboxen[n][packets[Head(lan[n])].src] # NoProxy
    /\ packets[Head(lan[n])].dst \notin Box

PortBound == \A n \in Proxy : port[n] <= faults + 1

HeardSent ==
  \A n \in Proxy : \A i \in 1..Len(heard[n]) :
    heard[n][i] \in 1..Len(packets) /\ packets[heard[n][i]].at # n

IInv ==
  /\ TypeOK /\ Tables /\ SentHome /\ NetRight /\ LanRight /\ ScanRight
  /\ HeardSent /\ PortBound /\ Routes /\ OnPath

-----------------------------------------------------------------------------
(* Type correctness.                                                         *)

LEMMA PortTypes == ServerPort \in Port /\ NoPort \notin Port
  BY XboxBounds DEF Port

LEMMA InitType == Init => TypeOK
<1> SUFFICES ASSUME Init PROVE TypeOK
  OBVIOUS
<1>1. << >> \in Seq(Packet) /\ << >> \in Seq(PacketNo) /\ Len(<< >>) = 0
  OBVIOUS
<1>2. 0 \in 0..MaxFaults /\ 0 <= MaxPackets
  BY XboxBounds
<1> QED
  BY <1>1, <1>2, PortTypes, XboxHomes
  DEF Init, TypeOK, NoProxies, NoXboxen

LEMMA PacketType ==
  ASSUME TypeOK, NEW k \in 1..Len(packets)
  PROVE  /\ k \in PacketNo /\ packets[k] \in Packet
         /\ packets[k].src \in Box /\ packets[k].at \in Proxy
         /\ packets[k].dst \in Box \cup Group
<1>1. k \in PacketNo /\ packets[k] \in Packet
  BY XboxBounds DEF TypeOK, PacketNo
<1> QED
  BY <1>1 DEF Packet

(* addxbox changes the entry of a console it does not know, and no other.    *)
LEMMA AddxboxOnce ==
  ASSUME TypeOK, NEW n \in Proxy, NEW b \in Box, NEW where \in Proxy
  PROVE  /\ Addxbox(n, b, where) \in [Proxy -> [Box -> Proxy \cup {NoProxy}]]
         /\ \A m \in Proxy : \A c \in Box :
              Addxbox(n, b, where)[m][c] =
                IF m = n /\ c = b /\ xboxen[m][c] = NoProxy THEN where
                                                           ELSE xboxen[m][c]
<1>1. CASE xboxen[n][b] = NoProxy
  BY <1>1 DEF TypeOK, Addxbox
<1>2. CASE xboxen[n][b] # NoProxy
  BY <1>2 DEF TypeOK, Addxbox
<1> QED
  BY <1>1, <1>2

(* A message of a proxy to another is well formed.                           *)
LEMMA DataType ==
  ASSUME TypeOK, NEW n \in Proxy, NEW m \in Proxy, NEW k \in PacketNo,
         proxies[n][m] # NoPort
  PROVE  Data(n, m, k) \in DataMsg
  BY DEF Data, DataMsg, TypeOK

LEMMA SniffType == ASSUME TypeOK, Tables, LanRight, NEW n \in Proxy, Sniff(n)
                   PROVE  TypeOK'
<1> DEFINE k == Head(lan[n])  pkt == packets[k]
<1>1. k \in PacketNo /\ Tail(lan[n]) \in Seq(PacketNo) /\ lan[n] \in Seq(PacketNo)
      /\ k \in 1..Len(packets)
  <2>1. lan[n] \in Seq(PacketNo) /\ lan[n] # << >>
    BY DEF TypeOK, Sniff
  <2>2. /\ k \in PacketNo /\ Tail(lan[n]) \in Seq(PacketNo)
        /\ 1 \in 1..Len(lan[n]) /\ k = lan[n][1]
    BY <2>1
  <2>3. Right(n, lan[n][1])
    BY <2>2 DEF LanRight, SniffRight
  <2> QED
    BY <2>1, <2>2, <2>3 DEF Right
<1>2. pkt.src \in Box /\ pkt.dst \in Box \cup Group
  BY <1>1, PacketType
<1>3. /\ xboxen' = Addxbox(n, pkt.src, n)
      /\ xboxen' \in [Proxy -> [Box -> Proxy \cup {NoProxy}]]
  BY <1>2, AddxboxOnce DEF Sniff
<1>4. lan' \in [Proxy -> Seq(PacketNo)]
  BY <1>1 DEF TypeOK, Sniff, Finish
<1>5. todo' \in [Proxy -> SUBSET Proxy]
  <2>1. todo' = [todo EXCEPT ![n] = Proxy \ {n}] \/ todo' = todo
    BY DEF Sniff
  <2>2. todo \in [Proxy -> SUBSET Proxy]
    BY DEF TypeOK
  <2>3. CASE todo' = [todo EXCEPT ![n] = Proxy \ {n}]
    BY <2>2, <2>3
  <2> QED
    BY <2>1, <2>2, <2>3
<1>6. ASSUME pkt.dst \in Box, xboxen'[n][pkt.dst] \notin {n, NoProxy}
      PROVE  Data(n, xboxen'[n][pkt.dst], k) \in DataMsg
  <2>1. xboxen'[n][pkt.dst] = IF pkt.dst = pkt.src /\ xboxen[n][pkt.dst] = NoProxy
                                THEN n ELSE xboxen[n][pkt.dst]
    <3>1. \A c \in Box : Addxbox(n, pkt.src, n)[n][c] =
            IF c = pkt.src /\ xboxen[n][c] = NoProxy THEN n ELSE xboxen[n][c]
      BY <1>2, AddxboxOnce
    <3> QED
      BY <1>3, <1>6, <3>1
  <2>2. xboxen[n][pkt.dst] \in Proxy \cup {NoProxy}
    BY <1>6 DEF TypeOK
  <2>3. xboxen'[n][pkt.dst] = xboxen[n][pkt.dst] /\ xboxen[n][pkt.dst] \in Proxy
    BY <1>6, <2>1, <2>2
  <2> QED
    BY <1>1, <1>6, <2>3, DataType DEF Tables
<1>7. net' \subseteq HelloMsg \cup DataMsg
  BY <1>6 DEF TypeOK, Sniff
<1> QED
  BY <1>3, <1>4, <1>5, <1>7 DEF TypeOK, Sniff, procVars, histVars, envVars

LEMMA ScanType == ASSUME TypeOK, ScanRight, NEW n \in Proxy, NEW m \in Proxy, Scan(n, m)
                  PROVE  TypeOK'
<1>1. Head(lan[n]) \in PacketNo /\ Tail(lan[n]) \in Seq(PacketNo)
  BY DEF TypeOK, Scan, ScanRight
<1>2. net' \subseteq HelloMsg \cup DataMsg
  BY <1>1, DataType DEF TypeOK, Scan, Sends
<1>3. lan' \in [Proxy -> Seq(PacketNo)] /\ todo' \in [Proxy -> SUBSET Proxy]
  BY <1>1 DEF TypeOK, Scan, Finish
<1> QED
  BY <1>2, <1>3 DEF TypeOK, Scan, procVars, histVars, envVars

LEMMA ReceiveType == ASSUME TypeOK, NetRight, NEW n \in Proxy, Receive(n)
                     PROVE  TypeOK'
<1> PICK m \in net : Receive(n)!(m)
  BY DEF Receive
<1>1. m.from \in Proxy /\ m.port \in Port /\ m \in HelloMsg \cup DataMsg
  BY DEF TypeOK, HelloMsg, DataMsg
<1>2. proxies' \in [Proxy -> [Proxy -> Port \cup {NoPort}]]
  BY <1>1 DEF TypeOK, Addproxy
<1>3. CASE m.kind = "hello"
  BY <1>2, <1>3 DEF TypeOK, procVars, envVars
<1>4. CASE m.kind = "data"
  <2>1. m.pkt \in PacketNo /\ m.pkt \in 1..Len(packets)
    BY <1>1, <1>4 DEF HelloMsg, DataMsg, NetRight, Right
  <2>2. packets[m.pkt].src \in Box
    BY <2>1, PacketType
  <2>3. xboxen' \in [Proxy -> [Box -> Proxy \cup {NoProxy}]]
    BY <1>1, <1>4, <2>2, AddxboxOnce DEF TypeOK
  <2>4. lan' \in [Proxy -> Seq(PacketNo)] /\ heard' \in [Proxy -> Seq(PacketNo)]
    <3>1. Append(lan[n], m.pkt) \in Seq(PacketNo) /\ Append(heard[n], m.pkt) \in Seq(PacketNo)
      BY <2>1 DEF TypeOK
    <3>2. Write(n, m.pkt)
      BY <1>1, <1>4 DEF HelloMsg, DataMsg
    <3>3. lan \in [Proxy -> Seq(PacketNo)] /\ heard \in [Proxy -> Seq(PacketNo)]
      BY DEF TypeOK
    <3>4. CASE n \in capturing
      BY <3>1, <3>2, <3>3, <3>4 DEF Write
    <3> QED
      BY <3>2, <3>3, <3>4 DEF Write
  <2> QED
    BY <1>2, <2>3, <2>4 DEF TypeOK, procVars, envVars
<1> QED
  BY <1>3, <1>4

LEMMA SendType ==
  ASSUME TypeOK, NEW b \in Box, NEW dst \in (Box \ {b}) \cup Group, Send(b, dst)
  PROVE  TypeOK'
<1> DEFINE pkt == [src |-> b, dst |-> dst, at |-> Home[b]]
<1>1. pkt \in Packet /\ Home[b] \in Proxy
  BY XboxHomes DEF Packet
<1>2. packets' \in Seq(Packet) /\ Len(packets') = Len(packets) + 1
  BY <1>1 DEF TypeOK, Send
<1>3. Len(packets) + 1 \in PacketNo /\ Len(packets') <= MaxPackets
  BY <1>2, XboxBounds DEF TypeOK, Send, PacketNo
<1>4. lan' \in [Proxy -> Seq(PacketNo)]
  <2>1. Append(lan[Home[b]], Len(packets) + 1) \in Seq(PacketNo)
    BY <1>1, <1>3 DEF TypeOK
  <2> QED
    BY <1>1, <2>1 DEF TypeOK, Send
<1> QED
  BY <1>2, <1>3, <1>4 DEF TypeOK, Send, procVars, envVars

LEMMA OtherType ==
  ASSUME TypeOK, PortBound,
         Lose \/ \E n \in Proxy : StartPcap(n) \/ StartProxy(n) \/ Die(n) \/ Rebind(n)
  PROVE  TypeOK'
<1>1. CASE Lose
  BY <1>1 DEF Lose, TypeOK, procVars, envVars
<1>2. ASSUME NEW n \in Proxy, StartPcap(n) PROVE TypeOK'
  BY <1>2 DEF StartPcap, TypeOK, histVars, envVars
<1>3. ASSUME NEW n \in Proxy, StartProxy(n) PROVE TypeOK'
  <2>1. Server[n] # NoProxy => Server[n] \in Proxy /\ Hello(n) \in HelloMsg
    BY XboxServers, PortTypes DEF Hello, HelloMsg, TypeOK
  <2>2. CASE Server[n] = NoProxy
    BY <1>3, <2>2 DEF StartProxy, TypeOK, histVars, envVars
  <2>3. CASE Server[n] # NoProxy
    <3>1. proxies' = [proxies EXCEPT ![n][Server[n]] = ServerPort]
      BY <1>3, <2>3 DEF StartProxy, Addproxy
    <3>2. proxies' \in [Proxy -> [Proxy -> Port \cup {NoPort}]]
      BY <3>1, <2>1, <2>3, PortTypes DEF TypeOK
    <3>3. net' \subseteq HelloMsg \cup DataMsg
      BY <1>3, <2>1, <2>3 DEF StartProxy, TypeOK
    <3> QED
      BY <1>3, <3>2, <3>3 DEF StartProxy, TypeOK, histVars, envVars
  <2> QED
    BY <2>2, <2>3
<1>4. ASSUME NEW n \in Proxy, Die(n) PROVE TypeOK'
  <2>1. faults' \in 0..MaxFaults /\ << >> \in Seq(PacketNo)
    BY <1>4, XboxBounds DEF Die, Fault, TypeOK
  <2> QED
    BY <1>4, <2>1 DEF Die, Fault, NoProxies, NoXboxen, TypeOK
<1>5. ASSUME NEW n \in Proxy, Rebind(n) PROVE TypeOK'
  <2>1. faults' \in 0..MaxFaults /\ port[n] + 1 \in Port
    BY <1>5, XboxBounds DEF Rebind, Fault, TypeOK, PortBound, Port
  <2> QED
    BY <1>5, <2>1 DEF Rebind, Fault, TypeOK, procVars
<1> QED
  BY <1>1, <1>2, <1>3, <1>4, <1>5

-----------------------------------------------------------------------------
(* The inductive invariant.                                                  *)

LEMMA InitInv == Init => IInv
<1> SUFFICES ASSUME Init PROVE IInv
  OBVIOUS
<1>1. TypeOK
  BY InitType
<1>2. Tables /\ Routes
  BY DEF Init, NoProxies, NoXboxen, Tables, Routes
<1>3. SentHome /\ NetRight /\ LanRight /\ ScanRight /\ HeardSent /\ OnPath
  BY DEF Init, SentHome, NetRight, LanRight, ScanRight, HeardSent, OnPath
<1>4. PortBound
  <2>1. port = [n \in Proxy |-> 1] /\ faults = 0
    BY DEF Init
  <2>2. \A n \in Proxy : port[n] = 1
    BY <2>1
  <2>3. faults + 1 = 1 /\ 1 <= 1
    BY <2>1
  <2> QED
    BY <2>2, <2>3 DEF PortBound
<1> QED
  BY <1>1, <1>2, <1>3, <1>4 DEF IInv

(* What the tree says of a packet that goes on from n to m.                  *)
LEMMA TreeStep ==
  ASSUME NEW n \in Proxy, NEW m \in Proxy, NEW h \in Proxy,
         Linked(n, m), Hop[n][h] # m
  PROVE  Hop[m][h] = n /\ m # h
<1>1. Hop[m][h] = n
  BY XboxTree
<1>2. m # n
  BY XboxServers DEF Linked
<1> QED
  BY <1>1, <1>2, XboxTree

LEMMA TreeOn ==
  ASSUME NEW n \in Proxy, NEW m \in Proxy, NEW h \in Proxy,
         Linked(n, m), Hop[n][h] = m
  PROVE  Hop[m][h] # n
  BY XboxTree

(* packet_handler begins with a packet of its network: its sender is here or *)
(* known, and a packet for one console goes on along the tree.               *)
LEMMA SniffInv == ASSUME IInv, NEW n \in Proxy, Sniff(n) PROVE IInv'
<1> DEFINE k == Head(lan[n])  pkt == packets[k]
<1>1. TypeOK'
  BY SniffType DEF IInv
<1>2. /\ k \in 1..Len(packets) /\ SniffRight(n, k) /\ pkt.at = Home[pkt.src]
      /\ pkt.src \in Box /\ pkt.at \in Proxy /\ pkt.dst \in Box \cup Group
  <2>1. lan[n] \in Seq(PacketNo) /\ lan[n] # << >>
    BY DEF IInv, TypeOK, Sniff
  <2>2. SniffRight(n, k)
    BY <2>1 DEF IInv, LanRight
  <2>3. k \in 1..Len(packets)
    BY <2>2 DEF SniffRight, Right
  <2> QED
    BY <2>2, <2>3, PacketType DEF IInv, SentHome
<1>3. /\ UNCHANGED <<procVars, proxies, histVars, envVars>>
      /\ xboxen' = Addxbox(n, pkt.src, n)
  BY DEF Sniff
<1>4. UNCHANGED <<proxies, packets, heard, port, faults>>
  BY <1>3 DEF histVars, envVars
<1>5. \A m \in Proxy : \A c \in Box :
        xboxen'[m][c] = IF m = n /\ c = pkt.src /\ xboxen[m][c] = NoProxy
                          THEN n ELSE xboxen[m][c]
  <2>1. TypeOK
    BY DEF IInv
  <2> QED
    BY SMTT(30), <1>2, <1>3, <2>1, AddxboxOnce
<1>6. \A m \in Proxy : \A c \in Box : xboxen[m][c] # NoProxy => xboxen'[m][c] # NoProxy
  BY <1>5
<1>7. xboxen'[n][pkt.src] # NoProxy
  BY <1>2, <1>5, XboxServers
<1>8. Tables'
  BY <1>4, <1>5 DEF IInv, Tables
<1>9. Routes'
  <2> SUFFICES ASSUME NEW m \in Proxy, NEW c \in Box, xboxen'[m][c] # NoProxy
               PROVE  xboxen'[m][c] = Hop[m][Home[c]]
    BY <1>4 DEF Routes
  <2>1. CASE m = n /\ c = pkt.src /\ xboxen[m][c] = NoProxy
    <3>1. Home[c] = n
      BY <1>2, <2>1 DEF SniffRight
    <3> QED
      BY <1>5, <2>1, <3>1, XboxTree
  <2>2. CASE ~(m = n /\ c = pkt.src /\ xboxen[m][c] = NoProxy)
    BY <1>5, <2>2 DEF IInv, Routes
  <2> QED
    BY <2>1, <2>2
<1>10. \A m \in Proxy : \A j \in PacketNo : SniffRight(m, j) => SniffRight(m, j)'
  <2> SUFFICES ASSUME NEW m \in Proxy, NEW j \in PacketNo, SniffRight(m, j)
               PROVE  SniffRight(m, j)'
    OBVIOUS
  <2>1. packets[j].src \in Box
    BY PacketType DEF SniffRight, Right, IInv
  <2> QED
    BY <1>4, <1>6, <2>1 DEF SniffRight, Right
<1>11. LanRight'
  <2> SUFFICES ASSUME NEW m \in Proxy, NEW i \in 1..Len(lan'[m])
               PROVE  SniffRight(m, lan[m][i])'
    BY DEF LanRight
  <2>1. lan[m] \in Seq(PacketNo)
    BY DEF IInv, TypeOK
  <2>2. PICK j \in 1..Len(lan[m]) : lan'[m][i] = lan[m][j]
    <3>1. CASE lan'[m] = lan[m]
      BY <3>1
    <3>2. CASE lan'[m] = Tail(lan[m]) /\ lan[m] # << >>
      <4>1. i + 1 \in 1..Len(lan[m]) /\ lan'[m][i] = lan[m][i + 1]
        BY <2>1, <3>2
      <4> QED
        BY <4>1
    <3>3. lan'[m] = lan[m] \/ (lan'[m] = Tail(lan[m]) /\ lan[m] # << >>)
      <4>1. lan' = lan \/ Finish(n)
        BY DEF Sniff
      <4>2. lan \in [Proxy -> Seq(PacketNo)] /\ lan[n] # << >>
        BY DEF IInv, TypeOK, Sniff
      <4> QED
        BY <4>1, <4>2 DEF Finish
    <3> QED
      BY <3>1, <3>2, <3>3
  <2>3. lan[m][j] \in PacketNo /\ SniffRight(m, lan[m][j])
    BY <2>1 DEF IInv, LanRight
  <2> QED
    BY <1>10, <2>2, <2>3 DEF SniffRight, Right
<1>12. ScanRight'
  <2> SUFFICES ASSUME NEW m \in Proxy, todo'[m] # {}
               PROVE  /\ lan'[m] # << >> /\ m \notin todo'[m]
                      /\ xboxen'[m][packets[Head(lan'[m])].src] # NoProxy
                      /\ packets[Head(lan'[m])].dst \notin Box
    BY <1>4 DEF ScanRight
  <2>1. lan \in [Proxy -> Seq(PacketNo)] /\ todo \in [Proxy -> SUBSET Proxy]
    BY DEF IInv, TypeOK
  <2>2. CASE m = n
    <3>1. todo' = [todo EXCEPT ![n] = Proxy \ {n}] /\ lan' = lan
      BY <2>2 DEF Sniff
    <3>2. lan[n] # << >>
      BY DEF Sniff
    <3>3. pkt.dst \notin Box
      <4>1. pkt.dst \in Flooded
        BY <1>2, <2>1, <2>2 DEF Sniff
      <4> QED
        BY <4>1, XboxHomes DEF Flooded, Group
    <3> QED
      BY <1>7, <2>1, <2>2, <3>1, <3>2, <3>3
  <2>3. CASE m # n
    <3>1. todo'[m] = todo[m] /\ lan'[m] = lan[m]
      BY <2>1, <2>3 DEF Sniff, Finish
    <3>2. /\ lan[m] # << >> /\ m \notin todo[m]
          /\ xboxen[m][packets[Head(lan[m])].src] # NoProxy
          /\ packets[Head(lan[m])].dst \notin Box
      BY <3>1 DEF IInv, ScanRight
    <3>3. packets[Head(lan[m])].src \in Box
      <4>1. SniffRight(m, lan[m][1])
        BY <2>1, <3>2 DEF IInv, LanRight
      <4>2. Head(lan[m]) = lan[m][1]
        BY <2>1, <3>2
      <4> QED
        BY <4>1, <4>2, PacketType DEF SniffRight, Right, IInv
    <3> QED
      BY <1>6, <3>1, <3>2, <3>3
  <2> QED
    BY <2>2, <2>3
<1>13. NetRight'
  <2> DEFINE p == xboxen'[n][pkt.dst]
  <2>1. ASSUME pkt.dst \in Box, p \notin {n, NoProxy}
        PROVE  /\ Linked(n, p) /\ Right(p, k) /\ Hop[p][pkt.at] = n
    <3>1. p = xboxen[n][pkt.dst] /\ p \in Proxy
      <4>1. xboxen[n][pkt.dst] \in Proxy \cup {NoProxy}
        BY <2>1 DEF IInv, TypeOK
      <4> QED
        BY <1>5, <2>1, <4>1
    <3>2. p = Hop[n][Home[pkt.dst]]
      BY <2>1, <3>1 DEF IInv, Routes
    <3>3. Linked(n, p)
      BY <2>1, <3>1 DEF IInv, Tables
    <3>4. Home[pkt.dst] \in Proxy
      BY <2>1, XboxHomes
    <3>5. Hop[n][pkt.at] # p
      <4>1. CASE pkt.at = n
        BY <2>1, <4>1, XboxTree
      <4>2. CASE pkt.at # n
        BY <1>2, <2>1, <3>2, <4>2 DEF SniffRight, Right
      <4> QED
        BY <4>1, <4>2
    <3>6. Hop[p][pkt.at] = n
      BY <1>2, <3>1, <3>3, <3>5, TreeStep
    <3>7. Hop[p][Home[pkt.dst]] # n
      BY <3>1, <3>2, <3>3, <3>4, TreeOn
    <3> QED
      BY <1>2, <3>3, <3>6, <3>7 DEF Right
  <2> SUFFICES ASSUME NEW m \in net'
               PROVE  /\ Linked(m.from, m.to)
                      /\ m.kind = "data" =>
                           Right(m.to, m.pkt)' /\ Hop[m.to][packets[m.pkt].at] = m.from
    BY <1>4 DEF NetRight, Right
  <2>2. CASE m \in net
    BY <1>4, <2>2 DEF IInv, NetRight, Right
  <2>3. CASE m \notin net
    <3>1. m = Data(n, p, k) /\ pkt.dst \in Box /\ p \notin {n, NoProxy}
      BY <2>3 DEF Sniff
    <3>2. m.from = n /\ m.to = p /\ m.pkt = k
      BY <3>1 DEF Data
    <3> QED
      BY <1>4, <2>1, <3>1, <3>2 DEF Right
  <2> QED
    BY <2>2, <2>3
<1>14. (SentHome /\ HeardSent /\ PortBound /\ OnPath)'
  BY <1>4 DEF IInv, SentHome, HeardSent, PortBound, OnPath
<1> QED
  BY <1>1, <1>8, <1>9, <1>11, <1>12, <1>13, <1>14 DEF IInv

(* The scan sends to every proxy but the one the packet came from.           *)
LEMMA ScanInv == ASSUME IInv, NEW n \in Proxy, NEW m \in Proxy, Scan(n, m) PROVE IInv'
<1> DEFINE k == Head(lan[n])  b == packets[k].src
<1>1. TypeOK'
  BY ScanType DEF IInv
<1>2. UNCHANGED <<proxies, xboxen, packets, heard, port, faults>>
  BY DEF Scan, histVars, envVars
<1>3. lan \in [Proxy -> Seq(PacketNo)] /\ todo \in [Proxy -> SUBSET Proxy]
  BY DEF IInv, TypeOK
<1>4. lan[n] # << >> /\ n \notin todo[n] /\ m \in todo[n]
      /\ xboxen[n][b] # NoProxy /\ packets[k].dst \notin Box
  BY DEF IInv, ScanRight, Scan
<1>5. /\ k \in 1..Len(packets) /\ SniffRight(n, k) /\ packets[k].at = Home[b]
      /\ b \in Box /\ packets[k].at \in Proxy
  <2>1. SniffRight(n, k)
    BY <1>3, <1>4 DEF IInv, LanRight
  <2>2. k \in 1..Len(packets)
    BY <2>1 DEF SniffRight, Right
  <2> QED
    BY <2>1, <2>2, PacketType DEF IInv, SentHome
<1>6. LanRight'
  <2> SUFFICES ASSUME NEW q \in Proxy, NEW i \in 1..Len(lan'[q])
               PROVE  SniffRight(q, lan[q][i])'
    BY DEF LanRight
  <2>1. PICK j \in 1..Len(lan[q]) : lan'[q][i] = lan[q][j]
    <3>1. lan'[q] = lan[q] \/ (lan'[q] = Tail(lan[q]) /\ lan[q] # << >>)
      BY <1>3, <1>4 DEF Scan, Finish
    <3>2. CASE lan'[q] = Tail(lan[q]) /\ lan[q] # << >>
      <4>1. i + 1 \in 1..Len(lan[q]) /\ lan'[q][i] = lan[q][i + 1]
        BY <1>3, <3>2
      <4> QED
        BY <4>1
    <3> QED
      BY <3>1, <3>2
  <2> QED
    BY <1>2, <2>1 DEF IInv, LanRight, SniffRight, Right
<1>7. ScanRight'
  <2> SUFFICES ASSUME NEW q \in Proxy, todo'[q] # {}
               PROVE  /\ lan'[q] # << >> /\ q \notin todo'[q]
                      /\ xboxen'[q][packets[Head(lan'[q])].src] # NoProxy
                      /\ packets[Head(lan'[q])].dst \notin Box
    BY <1>2 DEF ScanRight
  <2>1. CASE q = n
    <3>1. todo'[n] = todo[n] \ {m}
      BY <1>3 DEF Scan
    <3>2. lan' = lan
      BY <2>1, <3>1 DEF Scan
    <3> QED
      BY <1>2, <1>4, <2>1, <3>1, <3>2
  <2>2. CASE q # n
    <3>1. todo'[q] = todo[q] /\ lan'[q] = lan[q]
      BY <1>3, <2>2 DEF Scan, Finish
    <3> QED
      BY <1>2, <3>1 DEF IInv, ScanRight
  <2> QED
    BY <2>1, <2>2
<1>8. NetRight'
  <2> SUFFICES ASSUME NEW d \in net'
               PROVE  /\ Linked(d.from, d.to)
                      /\ d.kind = "data" =>
                           Right(d.to, d.pkt)' /\ Hop[d.to][packets[d.pkt].at] = d.from
    BY <1>2 DEF NetRight, Right
  <2>1. CASE d \in net
    BY <1>2, <2>1 DEF IInv, NetRight, Right
  <2>2. CASE d \notin net
    <3>1. d = Data(n, m, k) /\ Sends(n, m, b)
      BY <2>2 DEF Scan
    <3>2. d.from = n /\ d.to = m /\ d.pkt = k
      BY <3>1 DEF Data
    <3>3. Linked(n, m) /\ xboxen[n][b] # m
      BY <3>1 DEF Sends, IInv, Tables
    <3>4. Hop[n][packets[k].at] # m
      BY <1>4, <1>5, <3>3 DEF IInv, Routes
    <3>5. Hop[m][packets[k].at] = n
      BY <1>5, <3>3, <3>4, TreeStep
    <3>6. packets[k].dst \notin Box
      BY <1>4
    <3> QED
      BY <1>2, <1>5, <3>2, <3>3, <3>5, <3>6 DEF Right
  <2> QED
    BY <2>1, <2>2
<1>9. (Tables /\ SentHome /\ HeardSent /\ PortBound /\ Routes /\ OnPath)'
  BY <1>2 DEF IInv, Tables, SentHome, HeardSent, PortBound, Routes, OnPath
<1> QED
  BY <1>1, <1>6, <1>7, <1>8, <1>9 DEF IInv

(* recv_from_proxy: what comes from m is on the way from m.                  *)
LEMMA ReceiveInv == ASSUME IInv, NEW n \in Proxy, Receive(n) PROVE IInv'
<1> PICK m \in net : Receive(n)!(m)
  BY DEF Receive
<1>1. TypeOK'
  BY ReceiveType DEF IInv
<1>2. /\ UNCHANGED <<todo, packets, port, faults>>
      /\ m.to = n /\ net' = net \ {m}
      /\ proxies' = [proxies EXCEPT ![n][m.from] = m.port]
  BY DEF Addproxy, envVars
<1>3. m.from \in Proxy /\ m.port \in Port /\ m \in HelloMsg \cup DataMsg /\ Linked(m.from, n)
  BY <1>2 DEF IInv, TypeOK, HelloMsg, DataMsg, NetRight
<1>4. \A q, r \in Proxy :
        proxies'[q][r] = IF q = n /\ r = m.from THEN m.port ELSE proxies[q][r]
  BY <1>2, <1>3 DEF IInv, TypeOK
<1>5. m.port # NoPort
  BY <1>3, PortTypes
<1>6. \A q, r \in Proxy : proxies'[q][r] # NoPort => Linked(q, r)
  BY <1>3, <1>4 DEF IInv, Tables, Linked
<1>7. NetRight'
  BY <1>2 DEF IInv, NetRight, Right
<1>8. (SentHome /\ PortBound)'
  BY <1>2 DEF IInv, SentHome, PortBound
<1>9. CASE m.kind = "hello"
  <2>1. UNCHANGED <<xboxen, lan, heard>>
    BY <1>9
  <2>2. Tables'
    <3>1. ASSUME NEW q \in Proxy, NEW c \in Box, xboxen[q][c] \notin {q, NoProxy}
          PROVE  proxies'[q][xboxen[q][c]] # NoPort
      <4>1. xboxen[q][c] \in Proxy
        BY <3>1 DEF IInv, TypeOK
      <4> QED
        BY <1>4, <1>5, <3>1, <4>1 DEF IInv, Tables
    <3> QED
      BY <1>6, <2>1, <3>1 DEF Tables
  <2>3. (LanRight /\ ScanRight)'
    <3>1. LanRight /\ ScanRight
      BY DEF IInv
    <3>2. LanRight'
      BY <1>2, <2>1, <3>1 DEF LanRight, SniffRight, Right
    <3>3. ScanRight'
      BY <1>2, <2>1, <3>1 DEF ScanRight
    <3> QED
      BY <3>2, <3>3
  <2>4. (HeardSent /\ Routes /\ OnPath)'
    BY <1>2, <2>1 DEF IInv, HeardSent, Routes, OnPath
  <2> QED
    BY <1>1, <1>7, <1>8, <2>2, <2>3, <2>4 DEF IInv
<1>10. CASE m.kind = "data"
  <2> DEFINE k == m.pkt  b == packets[k].src
  <2>1. Right(n, k) /\ Hop[n][packets[k].at] = m.from
    BY <1>2, <1>10 DEF IInv, NetRight
  <2>2. /\ k \in 1..Len(packets) /\ k \in PacketNo /\ packets[k].at = Home[b]
        /\ b \in Box /\ packets[k].at \in Proxy
    <3>1. k \in 1..Len(packets)
      BY <2>1 DEF Right
    <3> QED
      BY <3>1, PacketType DEF IInv, SentHome
  <2>3. packets[k].at # n
    <3>1. m.from # n
      BY <1>3, XboxServers DEF Linked
    <3>2. Hop[n][n] = n
      BY XboxTree
    <3> QED
      BY <2>1, <3>1, <3>2
  <2>4. xboxen' = Addxbox(n, b, m.from) /\ Write(n, k)
    BY <1>3, <1>10 DEF HelloMsg, DataMsg
  <2>5. \A q \in Proxy : \A c \in Box :
          xboxen'[q][c] = IF q = n /\ c = b /\ xboxen[q][c] = NoProxy
                            THEN m.from ELSE xboxen[q][c]
    BY <1>3, <2>2, <2>4, AddxboxOnce DEF IInv
  <2>6. /\ \A q \in Proxy : \A c \in Box : xboxen[q][c] # NoProxy => xboxen'[q][c] # NoProxy
        /\ xboxen'[n][b] # NoProxy
    BY <1>3, <2>2, <2>5, XboxServers
  <2>7. Tables'
    <3>1. ASSUME NEW q \in Proxy, NEW c \in Box, xboxen'[q][c] \notin {q, NoProxy}
          PROVE  proxies'[q][xboxen'[q][c]] # NoPort
      <4>1. CASE q = n /\ c = b /\ xboxen[q][c] = NoProxy
        BY <1>3, <1>4, <1>5, <2>5, <4>1
      <4>2. CASE ~(q = n /\ c = b /\ xboxen[q][c] = NoProxy)
        <5>1. xboxen'[q][c] = xboxen[q][c] /\ xboxen[q][c] \in Proxy
          BY <2>5, <3>1, <4>2 DEF IInv, TypeOK
        <5> QED
          BY <1>4, <1>5, <3>1, <5>1 DEF IInv, Tables
      <4> QED
        BY <4>1, <4>2
    <3> QED
      BY <1>6, <3>1 DEF Tables
  <2>8. Routes'
    <3> SUFFICES ASSUME NEW q \in Proxy, NEW c \in Box, xboxen'[q][c] # NoProxy
                 PROVE  xboxen'[q][c] = Hop[q][Home[c]]
      BY <1>2 DEF Routes
    <3>1. CASE q = n /\ c = b /\ xboxen[q][c] = NoProxy
      BY <2>1, <2>2, <2>5, <3>1
    <3>2. CASE ~(q = n /\ c = b /\ xboxen[q][c] = NoProxy)
      BY <2>5, <3>2 DEF IInv, Routes
    <3> QED
      BY <3>1, <3>2
  <2>9. \A q \in Proxy : \A j \in 1..Len(packets) :
          packets[j].at = q \/ xboxen[q][packets[j].src] # NoProxy
            => packets[j].at = q \/ xboxen'[q][packets[j].src] # NoProxy
    BY <2>6, PacketType DEF IInv
  <2>10. LanRight'
    <3> SUFFICES ASSUME NEW q \in Proxy, NEW i \in 1..Len(lan'[q])
                 PROVE  SniffRight(q, lan[q][i])'
      BY DEF LanRight
    <3>1. lan \in [Proxy -> Seq(PacketNo)]
      BY DEF IInv, TypeOK
    <3>2. \/ i \in 1..Len(lan[q]) /\ lan'[q][i] = lan[q][i]
          \/ q = n /\ lan'[q][i] = k
      <4>1. lan'[q] = lan[q] \/ (q = n /\ lan'[q] = Append(lan[q], k))
        BY <2>4, <3>1 DEF Write
      <4>2. CASE q = n /\ lan'[q] = Append(lan[q], k)
        BY <2>2, <3>1, <4>2
      <4> QED
        BY <4>1, <4>2
    <3>3. CASE i \in 1..Len(lan[q]) /\ lan'[q][i] = lan[q][i]
      <4>1. SniffRight(q, lan[q][i])
        BY <3>3 DEF IInv, LanRight
      <4> QED
        BY <1>2, <2>9, <3>3, <4>1 DEF SniffRight, Right
    <3>4. CASE q = n /\ lan'[q][i] = k
      BY <1>2, <2>1, <2>6, <3>4 DEF SniffRight, Right
    <3> QED
      BY <3>2, <3>3, <3>4
  <2>11. ScanRight'
    <3> SUFFICES ASSUME NEW q \in Proxy, todo[q] # {}
                 PROVE  /\ lan'[q] # << >> /\ q \notin todo[q]
                        /\ xboxen'[q][packets[Head(lan'[q])].src] # NoProxy
                        /\ packets[Head(lan'[q])].dst \notin Box
      BY <1>2 DEF ScanRight
    <3>1. lan \in [Proxy -> Seq(PacketNo)]
      BY DEF IInv, TypeOK
    <3>2. /\ lan[q] # << >> /\ q \notin todo[q]
          /\ xboxen[q][packets[Head(lan[q])].src] # NoProxy
          /\ packets[Head(lan[q])].dst \notin Box
      BY DEF IInv, ScanRight
    <3>3. lan'[q] # << >> /\ Head(lan'[q]) = Head(lan[q])
      <4>1. lan'[q] = lan[q] \/ lan'[q] = Append(lan[q], k)
        BY <2>4, <3>1 DEF Write
      <4>2. CASE lan'[q] = Append(lan[q], k)
        BY <2>2, <3>1, <3>2, <4>2
      <4> QED
        BY <3>2, <4>1, <4>2
    <3>4. packets[Head(lan[q])].src \in Box
      <4>1. SniffRight(q, lan[q][1]) /\ Head(lan[q]) = lan[q][1]
        BY <3>1, <3>2 DEF IInv, LanRight
      <4> QED
        BY <4>1, PacketType DEF SniffRight, Right, IInv
    <3> QED
      BY <2>6, <3>2, <3>3, <3>4
  <2>12. (HeardSent /\ OnPath)'
    <3>1. heard \in [Proxy -> Seq(PacketNo)]
      BY DEF IInv, TypeOK
    <3>2. ASSUME NEW q \in Proxy, NEW i \in 1..Len(heard'[q])
          PROVE  \/ i \in 1..Len(heard[q]) /\ heard'[q][i] = heard[q][i]
                 \/ q = n /\ heard'[q][i] = k
      <4>1. heard'[q] = heard[q] \/ (q = n /\ heard'[q] = Append(heard[q], k))
        BY <2>4, <3>1 DEF Write
      <4>2. CASE q = n /\ heard'[q] = Append(heard[q], k)
        BY <2>2, <3>1, <4>2
      <4> QED
        BY <4>1, <4>2
    <3>3. HeardSent'
      BY <1>2, <2>2, <2>3, <3>2 DEF IInv, HeardSent
    <3>4. OnPath'
      <4> SUFFICES ASSUME NEW q \in Proxy, NEW i \in 1..Len(heard'[q]),
                          packets[heard'[q][i]].dst \in Box
                   PROVE  Hop[q][packets[heard'[q][i]].at] #
                            Hop[q][Home[packets[heard'[q][i]].dst]]
        BY <1>2 DEF OnPath
      <4>1. CASE i \in 1..Len(heard[q]) /\ heard'[q][i] = heard[q][i]
        BY <4>1 DEF IInv, OnPath
      <4>2. CASE q = n /\ heard'[q][i] = k
        BY <2>1, <2>3, <4>2 DEF Right
      <4> QED
        BY <3>2, <4>1, <4>2
    <3> QED
      BY <3>3, <3>4
  <2> QED
    BY <1>1, <1>7, <1>8, <2>7, <2>8, <2>10, <2>11, <2>12 DEF IInv
<1> QED
  BY <1>3, <1>9, <1>10 DEF HelloMsg, DataMsg

(* A console sends on its own network: nothing else is said of packets that  *)
(* were sent before.                                                         *)
LEMMA SendInv ==
  ASSUME IInv, NEW b \in Box, NEW dst \in (Box \ {b}) \cup Group, Send(b, dst)
  PROVE  IInv'
<1> DEFINE k == Len(packets) + 1
<1>1. TypeOK'
  BY SendType DEF IInv
<1>2. UNCHANGED <<proxies, xboxen, todo, net, heard, port, faults>>
  BY DEF Send, envVars
<1>3. packets \in Seq(Packet) /\ lan \in [Proxy -> Seq(PacketNo)] /\ Home[b] \in Proxy
  BY XboxHomes DEF IInv, TypeOK
<1>4. packets' = Append(packets, [src |-> b, dst |-> dst, at |-> Home[b]])
  BY DEF Send
<1>5. /\ Len(packets') = k /\ Len(packets) \in Nat
      /\ packets'[k].src = b /\ packets'[k].at = Home[b]
      /\ \A j \in 1..Len(packets) : packets'[j] = packets[j]
  <2>1. [src |-> b, dst |-> dst, at |-> Home[b]] \in Packet
    BY <1>3 DEF Packet
  <2> QED
    BY <1>3, <1>4, <2>1
<1>6. \A j \in 1..Len(packets) : j \in 1..Len(packets')
  BY <1>5
<1>7. (Tables /\ Routes /\ PortBound)'
  BY <1>2 DEF IInv, Tables, Routes, PortBound
<1>8. SentHome'
  <2>1. \A j \in 1..Len(packets') : j \in 1..Len(packets) \/ j = k
    BY <1>5
  <2> QED
    BY <1>2, <1>5, <2>1 DEF IInv, SentHome
<1>9. NetRight'
  BY <1>2, <1>5, <1>6 DEF IInv, NetRight, Right
<1>10. HeardSent' /\ OnPath'
  BY SMTT(30), <1>2, <1>5, <1>6 DEF IInv, HeardSent, OnPath
<1>11. LanRight'
  <2> SUFFICES ASSUME NEW q \in Proxy, NEW i \in 1..Len(lan'[q])
               PROVE  SniffRight(q, lan[q][i])'
    BY DEF LanRight
  <2>1. \/ i \in 1..Len(lan[q]) /\ lan'[q][i] = lan[q][i]
        \/ q = Home[b] /\ lan'[q][i] = k
    <3>1. lan'[q] = lan[q] \/ (q = Home[b] /\ lan'[q] = Append(lan[q], k))
      BY <1>3 DEF Send
    <3>2. CASE q = Home[b] /\ lan'[q] = Append(lan[q], k)
      <4>1. k \in PacketNo
        BY <1>1, <1>5, XboxBounds DEF TypeOK, PacketNo
      <4> QED
        BY <1>3, <3>2, <4>1
    <3> QED
      BY <3>1, <3>2
  <2>2. CASE i \in 1..Len(lan[q]) /\ lan'[q][i] = lan[q][i]
    <3>1. SniffRight(q, lan[q][i])
      BY <2>2 DEF IInv, LanRight
    <3> QED
      BY <1>2, <1>5, <1>6, <2>2, <3>1 DEF SniffRight, Right
  <2>3. CASE q = Home[b] /\ lan'[q][i] = k
    <3>1. k \in 1..Len(packets')
      BY <1>5
    <3> QED
      BY <1>5, <2>3, <3>1 DEF SniffRight, Right
  <2> QED
    BY <2>1, <2>2, <2>3
<1>12. ScanRight'
  <2> SUFFICES ASSUME NEW q \in Proxy, todo[q] # {}
               PROVE  /\ lan'[q] # << >> /\ q \notin todo[q]
                      /\ xboxen[q][packets'[Head(lan'[q])].src] # NoProxy
                      /\ packets'[Head(lan'[q])].dst \notin Box
    BY <1>2 DEF ScanRight
  <2>1. /\ lan[q] # << >> /\ q \notin todo[q]
        /\ xboxen[q][packets[Head(lan[q])].src] # NoProxy
        /\ packets[Head(lan[q])].dst \notin Box
    BY DEF IInv, ScanRight
  <2>2. lan'[q] # << >> /\ Head(lan'[q]) = Head(lan[q])
    <3>1. lan'[q] = lan[q] \/ lan'[q] = Append(lan[q], k)
      BY <1>3 DEF Send
    <3>2. CASE lan'[q] = Append(lan[q], k)
      <4>1. k \in PacketNo
        BY <1>1, <1>5, XboxBounds DEF TypeOK, PacketNo
      <4> QED
        BY <1>3, <2>1, <3>2, <4>1
    <3> QED
      BY <2>1, <3>1, <3>2
  <2>3. Head(lan[q]) \in 1..Len(packets)
    <3>1. SniffRight(q, lan[q][1]) /\ Head(lan[q]) = lan[q][1]
      BY <1>3, <2>1 DEF IInv, LanRight
    <3> QED
      BY <3>1 DEF SniffRight, Right
  <2> QED
    BY <1>5, <2>1, <2>2, <2>3
<1> QED
  BY <1>1, <1>7, <1>8, <1>9, <1>10, <1>11, <1>12 DEF IInv

(* The rest changes no packet; a proxy that dies forgets, which is right.    *)
LEMMA OtherInv ==
  ASSUME IInv,
         Lose \/ \E n \in Proxy : StartPcap(n) \/ StartProxy(n) \/ Die(n) \/ Rebind(n)
  PROVE  IInv'
<1>1. TypeOK'
  BY OtherType DEF IInv
<1>2. UNCHANGED <<packets, heard>>
  BY DEF Lose, StartPcap, StartProxy, Die, Rebind, histVars, envVars
<1>3. (SentHome /\ HeardSent /\ OnPath)'
  BY <1>2 DEF IInv, SentHome, HeardSent, OnPath
<1>4. CASE Lose \/ \E n \in Proxy : StartPcap(n) \/ Rebind(n)
  <2>1. UNCHANGED <<proxies, xboxen, lan, todo>> /\ net' \subseteq net
    BY <1>4 DEF Lose, StartPcap, Rebind, histVars, envVars
  <2>2. (Tables /\ NetRight /\ Routes)'
    BY <1>2, <2>1 DEF IInv, Tables, NetRight, Right, Routes
  <2>3. (LanRight /\ ScanRight)'
    BY <1>2, <2>1 DEF IInv, LanRight, SniffRight, Right, ScanRight
  <2>4. PortBound'
    <3>1. CASE UNCHANGED <<port, faults>>
      BY <3>1 DEF IInv, PortBound
    <3>2. ASSUME NEW n \in Proxy, Rebind(n) PROVE PortBound'
      <4>1. port \in [Proxy -> Port] /\ faults \in Nat
        BY XboxBounds DEF IInv, TypeOK
      <4>2. port' = [port EXCEPT ![n] = @ + 1] /\ faults' = faults + 1
        BY <3>2 DEF Rebind, Fault
      <4> QED
        BY <4>1, <4>2, XboxBounds DEF IInv, PortBound, Port
    <3> QED
      BY <1>4, <3>1, <3>2 DEF Lose, StartPcap, envVars
  <2> QED
    BY <1>1, <1>3, <2>2, <2>3, <2>4 DEF IInv
<1>5. ASSUME NEW n \in Proxy, StartProxy(n) PROVE IInv'
  <2>1. UNCHANGED <<xboxen, lan, todo, port, faults>>
    BY <1>5 DEF StartProxy, envVars
  <2>2. (LanRight /\ ScanRight /\ Routes /\ PortBound)'
    BY <1>2, <2>1
    DEF IInv, LanRight, SniffRight, Right, ScanRight, Routes, PortBound
  <2>3. (Tables /\ NetRight)'
    <3>1. CASE Server[n] = NoProxy
      <4>1. UNCHANGED <<proxies, net>>
        BY <1>5, <3>1 DEF StartProxy
      <4> QED
        BY <1>2, <2>1, <4>1 DEF IInv, Tables, NetRight, Right
    <3>2. CASE Server[n] # NoProxy
      <4>1. Server[n] \in Proxy /\ Linked(n, Server[n])
        BY <3>2, XboxServers DEF Linked
      <4>2. \A q, r \in Proxy :
              proxies'[q][r] = IF q = n /\ r = Server[n] THEN ServerPort ELSE proxies[q][r]
        BY <1>5, <3>2, <4>1 DEF StartProxy, Addproxy, IInv, TypeOK
      <4>3. Tables'
        <5>1. \A q, r \in Proxy : proxies[q][r] # NoPort => proxies'[q][r] # NoPort
          BY <4>2
        <5>2. \A q \in Proxy : \A c \in Box : xboxen[q][c] \in Proxy \cup {NoProxy}
          BY DEF IInv, TypeOK
        <5>3. \A q, r \in Proxy : proxies'[q][r] # NoPort => Linked(q, r)
          BY <4>1, <4>2 DEF IInv, Tables
        <5> QED
          BY <2>1, <5>1, <5>2, <5>3 DEF IInv, Tables
      <4>4. NetRight'
        <5>1. net' = net \cup {Hello(n)}
          BY <1>5, <3>2 DEF StartProxy
        <5>2. Hello(n).from = n /\ Hello(n).to = Server[n] /\ Hello(n).kind = "hello"
          BY DEF Hello
        <5> QED
          BY <1>2, <4>1, <5>1, <5>2 DEF IInv, NetRight, Right
      <4> QED
        BY <4>3, <4>4
    <3> QED
      BY <3>1, <3>2
  <2> QED
    BY <1>1, <1>3, <2>2, <2>3 DEF IInv
<1>6. ASSUME NEW n \in Proxy, Die(n) PROVE IInv'
  <2>1. /\ proxies' = [proxies EXCEPT ![n] = NoProxies]
        /\ xboxen' = [xboxen EXCEPT ![n] = NoXboxen]
        /\ lan' = [lan EXCEPT ![n] = << >>] /\ todo' = [todo EXCEPT ![n] = {}]
        /\ UNCHANGED <<net, port>> /\ faults' = faults + 1
    BY <1>6 DEF Die, Fault
  <2>2. \A q \in Proxy :
          IF q = n
            THEN /\ proxies'[q] = NoProxies /\ xboxen'[q] = NoXboxen
                 /\ lan'[q] = << >> /\ todo'[q] = {}
            ELSE /\ proxies'[q] = proxies[q] /\ xboxen'[q] = xboxen[q]
                 /\ lan'[q] = lan[q] /\ todo'[q] = todo[q]
    <3>1. DOMAIN proxies = Proxy /\ DOMAIN xboxen = Proxy /\ DOMAIN lan = Proxy
          /\ DOMAIN todo = Proxy
      BY DEF IInv, TypeOK
    <3> QED
      BY <2>1, <3>1
  <2>3. (Tables /\ Routes)'
    BY <1>2, <2>2 DEF IInv, Tables, Routes, NoProxies, NoXboxen
  <2>4. LanRight' /\ ScanRight' /\ NetRight'
    <3>1. LanRight /\ ScanRight /\ NetRight
      BY DEF IInv
    <3>2. NetRight'
      BY <1>2, <2>1, <3>1 DEF NetRight, Right
    <3>3. ScanRight'
      BY <1>2, <2>2, <3>1 DEF ScanRight
    <3>4. ASSUME NEW q \in Proxy, NEW i \in 1..Len(lan'[q]) PROVE SniffRight(q, lan[q][i])'
      <4>1. CASE q = n
        BY <2>2, <4>1
      <4>2. CASE q # n
        <5>1. lan'[q] = lan[q] /\ xboxen'[q] = xboxen[q]
          BY <2>2, <4>2
        <5>2. SniffRight(q, lan[q][i])
          BY <3>1, <5>1 DEF LanRight
        <5> QED
          BY <1>2, <5>1, <5>2 DEF SniffRight, Right
      <4> QED
        BY <4>1, <4>2
    <3>5. LanRight'
      BY <3>4 DEF LanRight
    <3> QED
      BY <3>2, <3>3, <3>5
  <2>5. PortBound'
    <3>1. port \in [Proxy -> Port] /\ faults \in Nat
      BY XboxBounds DEF IInv, TypeOK
    <3> QED
      BY <2>1, <3>1, XboxBounds DEF IInv, PortBound, Port
  <2> QED
    BY <1>1, <1>3, <2>3, <2>4, <2>5 DEF IInv
<1> QED
  BY <1>4, <1>5, <1>6

LEMMA StepInv == ASSUME IInv, [Next]_vars PROVE IInv'
<1>1. CASE UNCHANGED vars
  <2>1. UNCHANGED <<sock, capturing, proxies, xboxen, lan, todo, net, packets,
                    heard, whole, port, faults>>
    BY <1>1 DEF vars, procVars, histVars, envVars
  <2>2. TypeOK'
    BY <2>1 DEF IInv, TypeOK
  <2>3. (Tables /\ SentHome /\ HeardSent /\ PortBound /\ Routes /\ OnPath)'
    BY <2>1 DEF IInv, Tables, SentHome, HeardSent, PortBound, Routes, OnPath
  <2>4. NetRight'
    BY <2>1 DEF IInv, NetRight, Right
  <2>5. (LanRight /\ ScanRight)'
    BY <2>1 DEF IInv, LanRight, SniffRight, Right, ScanRight
  <2> QED
    BY <2>2, <2>3, <2>4, <2>5 DEF IInv
<1>2. ASSUME NEW n \in Proxy, PcapThread(n) PROVE IInv'
  BY <1>2, SniffInv, ScanInv, OtherInv DEF PcapThread
<1>3. ASSUME NEW n \in Proxy, ProxyThread(n) PROVE IInv'
  BY <1>3, ReceiveInv, OtherInv DEF ProxyThread
<1>4. ASSUME NEW b \in Box, NEW dst \in (Box \ {b}) \cup Group, Send(b, dst) PROVE IInv'
  BY <1>4, SendInv
<1>5. CASE Lose \/ \E n \in Proxy : Die(n) \/ Rebind(n)
  BY <1>5, OtherInv
<1> QED
  BY <1>1, <1>2, <1>3, <1>4, <1>5 DEF Next

-----------------------------------------------------------------------------
(* Why a packet is on a network once.  A network has a packet that was sent  *)
(* there or written to it.  A packet goes from n to m only while n has still *)
(* to pass it to m, which is then without it, and so is the way to m; n      *)
(* loses what it has to pass when it dies, and never gets it twice.          *)
Had(n, k) == packets[k].at = n \/ \E i \in 1..Len(heard[n]) : heard[n][i] = k

Pending(n, m, i) ==
  i \in 1..Len(lan[n]) /\ (i = 1 /\ todo[n] # {} => m \in todo[n])

OnceHeard ==
  \A n \in Proxy : \A i, j \in 1..Len(heard[n]) : heard[n][i] = heard[n][j] => i = j

OnceLan ==
  \A n \in Proxy : \A i \in 1..Len(lan[n]) :
    Had(n, lan[n][i]) /\ \A j \in 1..Len(lan[n]) : lan[n][i] = lan[n][j] => i = j

OnceNet ==
  \A d \in net : d.kind = "data" =>
    /\ ~Had(d.to, d.pkt) /\ Had(d.from, d.pkt)
    /\ \A e \in net : e.kind = "data" /\ e.to = d.to /\ e.pkt = d.pkt => e = d

OnceWay ==
  \A n, m \in Proxy : \A k \in 1..Len(packets) :
    Hop[m][packets[k].at] = n /\ Had(m, k) => Had(n, k)

Under(m, k) == \E d \in net : d.kind = "data" /\ d.to = m /\ d.pkt = k

OncePend ==
  \A n, m \in Proxy : \A i \in 1..Len(lan[n]) :
    Pending(n, m, i) /\ m # n /\ Hop[m][packets[lan[n][i]].at] = n =>
      ~Had(m, lan[n][i]) /\ ~Under(m, lan[n][i])

Once == OnceHeard /\ OnceLan /\ OnceNet /\ OnceWay /\ OncePend

LEMMA InitOnce == Init => Once
<1> SUFFICES ASSUME Init PROVE Once
  OBVIOUS
<1>1. /\ \A n \in Proxy : heard[n] = << >> /\ lan[n] = << >>
      /\ net = {} /\ packets = << >>
  BY DEF Init
<1> QED
  BY <1>1 DEF Once, OnceHeard, OnceLan, OnceNet, OnceWay, OncePend

(* Nothing is written or sent on, and a proxy at most forgets.               *)
LEMMA FrameOnce ==
  ASSUME Once, UNCHANGED <<packets, heard>>,
         \A d \in net' : d.kind = "data" => d \in net,
         \A n \in Proxy : \/ lan'[n] = lan[n] /\ todo'[n] = todo[n]
                          \/ lan'[n] = << >>
  PROVE  Once'
<1>1. \A n \in Proxy : \A k : Had(n, k)' <=> Had(n, k)
  BY DEF Had
<1>2. ASSUME NEW m \in Proxy, NEW k, Under(m, k)' PROVE Under(m, k)
  BY <1>2 DEF Under
<1>3. OnceHeard'
  BY DEF Once, OnceHeard
<1>4. OnceLan'
  BY <1>1 DEF Once, OnceLan
<1>5. OnceNet'
  <2> SUFFICES ASSUME NEW d \in net', d.kind = "data"
               PROVE  /\ ~Had(d.to, d.pkt)' /\ Had(d.from, d.pkt)'
                      /\ \A e \in net' : e.kind = "data" /\ e.to = d.to /\ e.pkt = d.pkt
                           => e = d
    BY DEF OnceNet
  <2>1. d \in net
    OBVIOUS
  <2> QED
    BY <2>1 DEF Once, OnceNet, Had
<1>6. OnceWay'
  BY <1>1 DEF Once, OnceWay
<1>7. OncePend'
  <2> SUFFICES ASSUME NEW n \in Proxy, NEW m \in Proxy, NEW i \in 1..Len(lan'[n]),
                      Pending(n, m, i)', m # n, Hop[m][packets'[lan'[n][i]].at] = n
               PROVE  ~Had(m, lan[n][i])' /\ ~Under(m, lan[n][i])'
    BY DEF OncePend
  <2>1. lan'[n] = lan[n] /\ todo'[n] = todo[n]
    OBVIOUS
  <2>2. Pending(n, m, i)
    BY <2>1 DEF Pending
  <2>3. ~Had(m, lan[n][i]) /\ ~Under(m, lan[n][i])
    BY <2>1, <2>2 DEF Once, OncePend
  <2> QED
    BY <1>1, <1>2, <2>1, <2>3
<1> QED
  BY <1>3, <1>4, <1>5, <1>6, <1>7 DEF Once

(* packet_handler passes the oldest packet on, to a proxy that has it to     *)
(* come, or is done with it.                                                 *)
Passes(n, m) ==
  /\ m \in Proxy /\ m # n /\ Pending(n, m, 1)
  /\ Hop[m][packets[Head(lan[n])].at] = n
  /\ lan'[n] = lan[n] => m \notin todo'[n]

LEMMA PassOnce ==
  ASSUME IInv, Once, NEW n \in Proxy, lan[n] # << >>, UNCHANGED <<packets, heard>>,
         \A q \in Proxy \ {n} : lan'[q] = lan[q] /\ todo'[q] = todo[q],
         \/ lan'[n] = Tail(lan[n])
         \/ /\ lan'[n] = lan[n] /\ todo'[n] # {}
            /\ \A m \in todo'[n] : Pending(n, m, 1),
         \A d \in net' : d \in net \/ (d = Data(n, d.to, Head(lan[n])) /\ Passes(n, d.to))
  PROVE  Once'
<1> DEFINE k == Head(lan[n])
<1>1. \A q \in Proxy : \A c : Had(q, c)' <=> Had(q, c)
  BY DEF Had
<1>2. lan[n] \in Seq(PacketNo) /\ 1 \in 1..Len(lan[n]) /\ k = lan[n][1]
  BY DEF IInv, TypeOK
<1>3. \A q \in Proxy : \A i \in 1..Len(lan'[q]) :
        \/ /\ lan'[q] = lan[q] /\ i \in 1..Len(lan[q]) /\ lan'[q][i] = lan[q][i]
        \/ /\ q = n /\ lan'[q] = Tail(lan[q]) /\ i + 1 \in 1..Len(lan[q]) /\ i + 1 # 1
           /\ lan'[q][i] = lan[q][i + 1]
  <2> SUFFICES ASSUME NEW q \in Proxy, NEW i \in 1..Len(lan'[q])
               PROVE  \/ /\ lan'[q] = lan[q] /\ i \in 1..Len(lan[q]) /\ lan'[q][i] = lan[q][i]
                      \/ /\ q = n /\ lan'[q] = Tail(lan[q]) /\ i + 1 \in 1..Len(lan[q])
                         /\ i + 1 # 1 /\ lan'[q][i] = lan[q][i + 1]
    OBVIOUS
  <2>1. CASE q = n /\ lan'[n] = Tail(lan[n])
    BY <1>2, <2>1
  <2>2. CASE ~(q = n /\ lan'[n] = Tail(lan[n]))
    BY <2>2
  <2> QED
    BY <2>1, <2>2
<1>4. OnceHeard'
  BY DEF Once, OnceHeard
<1>5. OnceLan'
  <2> SUFFICES ASSUME NEW q \in Proxy, NEW i \in 1..Len(lan'[q])
               PROVE  /\ Had(q, lan[q][i])'
                      /\ \A j \in 1..Len(lan'[q]) : lan'[q][i] = lan'[q][j] => i = j
    BY DEF OnceLan
  <2>1. CASE lan'[q] = lan[q]
    BY <1>1, <2>1 DEF Once, OnceLan
  <2>2. CASE q = n /\ lan'[q] = Tail(lan[q]) /\ lan'[q] # lan[q]
    <3>1. \A j \in 1..Len(lan'[n]) : j + 1 \in 1..Len(lan[n]) /\ lan'[n][j] = lan[n][j + 1]
      BY <1>3, <2>2
    <3>2. Had(n, lan[n][i + 1])
      BY <2>2, <3>1 DEF Once, OnceLan
    <3>3. ASSUME NEW j \in 1..Len(lan'[n]), lan'[n][i] = lan'[n][j] PROVE i = j
      <4>1. i + 1 = j + 1
        BY <2>2, <3>1, <3>3 DEF Once, OnceLan
      <4> QED
        BY <4>1
    <3> QED
      BY <1>1, <2>2, <3>1, <3>2, <3>3
  <2> QED
    BY <1>3, <2>1, <2>2
<1>6. ASSUME NEW d \in net', d \notin net
      PROVE  /\ Passes(n, d.to) /\ d = Data(n, d.to, k) /\ d.from = n /\ d.pkt = k
             /\ ~Had(d.to, k) /\ ~Under(d.to, k)
  <2>1. Passes(n, d.to) /\ d = Data(n, d.to, k)
    BY <1>6
  <2>2. d.from = n /\ d.pkt = k
    BY <2>1 DEF Data
  <2> QED
    BY <1>2, <2>1, <2>2 DEF Passes, Once, OncePend
<1>7. OnceNet'
  <2> SUFFICES ASSUME NEW d \in net', d.kind = "data"
               PROVE  /\ ~Had(d.to, d.pkt)' /\ Had(d.from, d.pkt)'
                      /\ \A e \in net' : e.kind = "data" /\ e.to = d.to /\ e.pkt = d.pkt
                           => e = d
    BY DEF OnceNet
  <2>1. ~Had(d.to, d.pkt) /\ Had(d.from, d.pkt)
    <3>1. CASE d \in net
      BY <3>1 DEF Once, OnceNet
    <3>2. CASE d \notin net
      BY <1>2, <1>6, <3>2 DEF Once, OnceLan
    <3> QED
      BY <3>1, <3>2
  <2>2. ASSUME NEW e \in net', e.kind = "data", e.to = d.to, e.pkt = d.pkt
        PROVE  e = d
    <3>1. CASE d \in net /\ e \in net
      BY <2>2, <3>1 DEF Once, OnceNet
    <3>2. CASE d \in net /\ e \notin net
      BY <1>6, <2>2, <3>2 DEF Under
    <3>3. CASE d \notin net /\ e \in net
      BY <1>6, <2>2, <3>3 DEF Under
    <3>4. CASE d \notin net /\ e \notin net
      BY <1>6, <2>2, <3>4
    <3> QED
      BY <3>1, <3>2, <3>3, <3>4
  <2> QED
    BY <2>1, <2>2 DEF Had
<1>8. OnceWay'
  BY <1>1 DEF Once, OnceWay
<1>9. OncePend'
  <2> SUFFICES ASSUME NEW q \in Proxy, NEW m \in Proxy, NEW i \in 1..Len(lan'[q]),
                      Pending(q, m, i)', m # q, Hop[m][packets'[lan'[q][i]].at] = q
               PROVE  ~Had(m, lan[q][i])' /\ ~Under(m, lan[q][i])'
    BY DEF OncePend
  <2>1. PICK j \in 1..Len(lan[q]) :
          /\ lan'[q][i] = lan[q][j] /\ Pending(q, m, j)
          /\ q = n => j # 1 \/ (lan'[n] = lan[n] /\ m \in todo'[n])
    <3>1. CASE lan'[q] = lan[q] /\ i \in 1..Len(lan[q])
      <4>1. CASE q # n
        BY <3>1, <4>1 DEF Pending
      <4>2. CASE q = n /\ lan[n] = Tail(lan[n])
        <5>1. Len(Tail(lan[n])) = Len(lan[n]) - 1 /\ Len(lan[n]) \in Nat
          BY <1>2
        <5>2. Len(lan[n]) = Len(Tail(lan[n]))
          BY <4>2
        <5> QED
          BY <5>1, <5>2
      <4>3. CASE q = n /\ lan[n] # Tail(lan[n])
        <5>1. todo'[n] # {} /\ \A r \in todo'[n] : Pending(n, r, 1)
          BY <3>1, <4>3
        <5>2. i = 1 => m \in todo'[n] /\ Pending(n, m, i)
          BY <4>3, <5>1 DEF Pending
        <5>3. i # 1 => Pending(n, m, i)
          BY <3>1, <4>3 DEF Pending
        <5> QED
          BY <3>1, <4>3, <5>2, <5>3
      <4> QED
        BY <4>1, <4>2, <4>3
    <3>2. CASE q = n /\ i + 1 \in 1..Len(lan[q]) /\ i + 1 # 1 /\ lan'[q][i] = lan[q][i + 1]
      BY <3>2 DEF Pending
    <3> QED
      BY <1>3, <3>1, <3>2
  <2>2. ~Had(m, lan[q][j]) /\ ~Under(m, lan[q][j])
    BY <2>1 DEF Once, OncePend
  <2>3. ASSUME NEW d \in net', d.kind = "data", d.to = m, d.pkt = lan[q][j] PROVE FALSE
    <3>1. d \notin net
      BY <2>2, <2>3 DEF Under
    <3>2. Passes(n, m) /\ lan[q][j] = k
      BY <1>6, <2>3, <3>1
    <3>3. q = n
      BY <2>1, <3>2 DEF Passes
    <3>4. j = 1
      BY <1>2, <3>2, <3>3 DEF Once, OnceLan
    <3> QED
      BY <2>1, <3>2, <3>3, <3>4 DEF Passes
  <2> QED
    BY <1>1, <2>1, <2>2, <2>3 DEF Under
<1> QED
  BY <1>4, <1>5, <1>7, <1>8, <1>9 DEF Once

(* recv_from_proxy writes a packet that its network did not have.            *)
LEMMA ReceiveOnce == ASSUME IInv, Once, NEW n \in Proxy, Receive(n) PROVE Once'
<1> PICK d \in net : Receive(n)!(d)
  BY DEF Receive
<1>1. /\ UNCHANGED <<todo, packets, capturing>> /\ d.to = n /\ net' = net \ {d}
      /\ d \in HelloMsg \cup DataMsg
  BY DEF IInv, TypeOK, procVars
<1>2. CASE UNCHANGED <<lan, heard>>
  BY <1>1, <1>2, FrameOnce
<1>3. CASE ~UNCHANGED <<lan, heard>>
  <2> DEFINE k == d.pkt  w == d.from
  <2>1. d.kind = "data" /\ Write(n, k) /\ n \in capturing
    BY <1>1, <1>3 DEF HelloMsg, DataMsg, Write
  <2>2. lan' = [lan EXCEPT ![n] = Append(@, k)] /\ heard' = [heard EXCEPT ![n] = Append(@, k)]
    BY <2>1 DEF Write
  <2>3. /\ k \in 1..Len(packets) /\ w \in Proxy /\ Linked(w, n) /\ w # n
        /\ Hop[n][packets[k].at] = w /\ ~Had(n, k) /\ Had(w, k) /\ k \in PacketNo
    <3>1. Right(n, k) /\ Linked(w, n) /\ Hop[n][packets[k].at] = w
      BY <1>1, <2>1 DEF IInv, NetRight
    <3>2. w \in Proxy /\ k \in PacketNo
      BY <1>1, <2>1 DEF HelloMsg, DataMsg
    <3>3. w # n
      BY <3>1, <3>2, XboxServers DEF Linked
    <3> QED
      BY <1>1, <2>1, <3>1, <3>2, <3>3 DEF Right, Once, OnceNet
  <2>4. lan \in [Proxy -> Seq(PacketNo)] /\ heard \in [Proxy -> Seq(PacketNo)]
    BY DEF IInv, TypeOK
  <2>5. /\ Len(lan'[n]) = Len(lan[n]) + 1 /\ lan'[n][Len(lan[n]) + 1] = k
        /\ \A i \in 1..Len(lan[n]) : i \in 1..Len(lan'[n]) /\ lan'[n][i] = lan[n][i]
        /\ \A q \in Proxy \ {n} : lan'[q] = lan[q]
    BY <2>2, <2>3, <2>4
  <2>6. /\ Len(heard'[n]) = Len(heard[n]) + 1 /\ heard'[n][Len(heard[n]) + 1] = k
        /\ \A i \in 1..Len(heard[n]) : i \in 1..Len(heard'[n]) /\ heard'[n][i] = heard[n][i]
        /\ \A q \in Proxy \ {n} : heard'[q] = heard[q]
    BY <2>2, <2>3, <2>4
  <2>7. /\ \A i \in 1..Len(lan'[n]) : i \in 1..Len(lan[n]) \/ i = Len(lan[n]) + 1
        /\ \A i \in 1..Len(heard'[n]) : i \in 1..Len(heard[n]) \/ i = Len(heard[n]) + 1
    BY <2>4, <2>5, <2>6
  <2>8. \A q \in Proxy : \A c : Had(q, c)' <=> Had(q, c) \/ (q = n /\ c = k)
    <3>1. Len(heard[n]) + 1 \in 1..Len(heard'[n])
      BY <2>4, <2>6
    <3> QED
      BY <1>1, <2>6, <2>7, <3>1 DEF Had
  <2>9. OnceHeard'
    <3> SUFFICES ASSUME NEW q \in Proxy, NEW i \in 1..Len(heard'[q]),
                        NEW j \in 1..Len(heard'[q]), heard'[q][i] = heard'[q][j]
                 PROVE  i = j
      BY DEF OnceHeard
    <3>1. CASE q # n
      BY <2>6, <3>1 DEF Once, OnceHeard
    <3>2. CASE q = n
      <4>1. \A l \in 1..Len(heard[n]) : heard[n][l] # k
        BY <2>3 DEF Had
      <4> QED
        BY <2>6, <2>7, <3>2, <4>1 DEF Once, OnceHeard
    <3> QED
      BY <3>1, <3>2
  <2>10. OnceLan'
    <3> SUFFICES ASSUME NEW q \in Proxy, NEW i \in 1..Len(lan'[q])
                 PROVE  /\ Had(q, lan[q][i])'
                        /\ \A j \in 1..Len(lan'[q]) : lan'[q][i] = lan'[q][j] => i = j
      BY DEF OnceLan
    <3>1. CASE q # n
      BY <2>5, <2>8, <3>1 DEF Once, OnceLan
    <3>2. CASE q = n
      <4>1. \A l \in 1..Len(lan[n]) : lan[n][l] # k
        BY <2>3 DEF Once, OnceLan
      <4>2. Had(n, lan[n][i])'
        <5>1. CASE i \in 1..Len(lan[n])
          BY <2>5, <2>8, <5>1 DEF Once, OnceLan
        <5>2. CASE i = Len(lan[n]) + 1
          BY <2>5, <2>8, <5>2
        <5> QED
          BY <2>7, <3>2, <5>1, <5>2
      <4>3. \A j \in 1..Len(lan'[n]) : lan'[n][i] = lan'[n][j] => i = j
        BY <2>5, <2>7, <3>2, <4>1 DEF Once, OnceLan
      <4> QED
        BY <3>2, <4>2, <4>3
    <3> QED
      BY <3>1, <3>2
  <2>11. OnceNet'
    <3> SUFFICES ASSUME NEW e \in net', e.kind = "data"
                 PROVE  /\ ~Had(e.to, e.pkt)' /\ Had(e.from, e.pkt)'
                        /\ \A f \in net' : f.kind = "data" /\ f.to = e.to /\ f.pkt = e.pkt
                             => f = e
      BY DEF OnceNet
    <3>1. e \in net /\ e # d
      BY <1>1
    <3>2. ~(e.to = n /\ e.pkt = k)
      BY <1>1, <2>1, <3>1 DEF Once, OnceNet
    <3>3. e.to \in Proxy /\ e.from \in Proxy
      BY <3>1 DEF IInv, TypeOK, HelloMsg, DataMsg
    <3>4. ~Had(e.to, e.pkt) /\ Had(e.from, e.pkt)
      BY <3>1 DEF Once, OnceNet
    <3>5. ~Had(e.to, e.pkt)' /\ Had(e.from, e.pkt)'
      BY <2>8, <3>2, <3>3, <3>4
    <3> QED
      BY <1>1, <3>1, <3>5 DEF Once, OnceNet
  <2>12. OnceWay'
    <3> SUFFICES ASSUME NEW q \in Proxy, NEW m \in Proxy, NEW c \in 1..Len(packets),
                        Hop[m][packets[c].at] = q, Had(m, c)'
                 PROVE  Had(q, c)'
      BY <1>1 DEF OnceWay
    <3>1. CASE Had(m, c)
      BY <2>8, <3>1 DEF Once, OnceWay
    <3>2. CASE m = n /\ c = k
      BY <2>3, <2>8, <3>2
    <3> QED
      BY <2>8, <3>1, <3>2
  <2>13. OncePend'
    <3> SUFFICES ASSUME NEW q \in Proxy, NEW m \in Proxy, NEW i \in 1..Len(lan'[q]),
                        Pending(q, m, i)', m # q, Hop[m][packets[lan'[q][i]].at] = q
                 PROVE  ~Had(m, lan[q][i])' /\ ~Under(m, lan[q][i])'
      BY <1>1 DEF OncePend
    <3>1. CASE i \in 1..Len(lan[q]) /\ lan'[q][i] = lan[q][i]
      <4>1. Pending(q, m, i)
        BY <1>1, <3>1 DEF Pending
      <4>2. ~Had(m, lan[q][i]) /\ ~Under(m, lan[q][i])
        BY <3>1, <4>1 DEF Once, OncePend
      <4>3. ~(m = n /\ lan[q][i] = k)
        BY <1>1, <2>1, <4>2 DEF Under
      <4> QED
        BY <1>1, <2>8, <3>1, <4>2, <4>3 DEF Under
    <3>2. CASE q = n /\ lan'[q][i] = k
      <4>1. ~Had(m, k)
        BY <2>3, <3>2 DEF Once, OnceWay
      <4>2. ASSUME NEW e \in net, e.kind = "data", e.to = m, e.pkt = k PROVE FALSE
        <5>1. Hop[m][packets[k].at] = e.from
          BY <4>2 DEF IInv, NetRight
        <5>2. Had(e.from, k)
          BY <4>2 DEF Once, OnceNet
        <5> QED
          BY <2>3, <3>2, <5>1, <5>2
      <4> QED
        BY <1>1, <2>8, <3>2, <4>1, <4>2 DEF Under
    <3> QED
      BY <2>5, <2>7, <3>1, <3>2
  <2> QED
    BY <2>9, <2>10, <2>11, <2>12, <2>13 DEF Once
<1> QED
  BY <1>2, <1>3

(* A new packet is on the network of its console, and nowhere else.          *)
LEMMA SendOnce ==
  ASSUME IInv, Once, NEW b \in Box, NEW dst \in (Box \ {b}) \cup Group, Send(b, dst)
  PROVE  Once'
<1> DEFINE h == Home[b]
<1> PICK k \in Nat : k = Len(packets) + 1
  BY DEF IInv, TypeOK
<1>1. UNCHANGED <<todo, net, heard>> /\ h \in Proxy
  BY XboxHomes DEF Send
<1>2. /\ lan \in [Proxy -> Seq(PacketNo)] /\ Len(packets) \in Nat /\ k \in PacketNo
      /\ packets'[k].at = h /\ Len(packets') = k
      /\ \A j \in 1..Len(packets) : packets'[j] = packets[j]
  <2>1. packets' = Append(packets, [src |-> b, dst |-> dst, at |-> h])
        /\ Len(packets) < MaxPackets
    BY DEF Send
  <2>2. [src |-> b, dst |-> dst, at |-> h] \in Packet /\ packets \in Seq(Packet)
    BY <1>1 DEF Packet, IInv, TypeOK
  <2>3. packets'[k] = [src |-> b, dst |-> dst, at |-> h] /\ Len(packets') = k
        /\ Len(packets) \in Nat /\ \A j \in 1..Len(packets) : packets'[j] = packets[j]
    BY <2>1, <2>2
  <2>4. k \in PacketNo
    BY <2>1, <2>3, XboxBounds DEF PacketNo
  <2> QED
    BY <2>3, <2>4 DEF IInv, TypeOK
<1>3. \A q \in Proxy : \A c \in 1..Len(packets) : Had(q, c)' <=> Had(q, c)
  BY <1>1, <1>2 DEF Had
<1>4. \A q \in Proxy : Had(q, k)' <=> q = h
  <2>1. \A q \in Proxy : \A i \in 1..Len(heard[q]) : heard[q][i] # k
    <3>1. \A c \in 1..Len(packets) : c # k
      BY <1>2
    <3> QED
      BY <3>1 DEF IInv, HeardSent
  <2> QED
    BY <1>1, <1>2, <2>1 DEF Had
<1>5. \A e \in net : e.kind = "data" =>
        e.pkt \in 1..Len(packets) /\ e.pkt # k /\ e.to \in Proxy /\ e.from \in Proxy
  <2>1. \A c \in 1..Len(packets) : c # k
    BY <1>2
  <2> QED
    BY <2>1 DEF IInv, NetRight, Right, TypeOK, HelloMsg, DataMsg
<1>6. \A q \in Proxy : \A i \in 1..Len(lan[q]) : lan[q][i] \in 1..Len(packets) /\ lan[q][i] # k
  <2>1. \A c \in 1..Len(packets) : c # k
    BY <1>2
  <2> QED
    BY <2>1 DEF IInv, LanRight, SniffRight, Right
<1>7. \A q \in Proxy : \/ lan'[q] = lan[q]
                       \/ /\ q = h /\ Len(lan'[q]) = Len(lan[q]) + 1
                          /\ lan'[q][Len(lan[q]) + 1] = k
                          /\ \A i \in 1..Len(lan[q]) : lan'[q][i] = lan[q][i]
                          /\ \A i \in 1..Len(lan'[q]) :
                               i \in 1..Len(lan[q]) \/ i = Len(lan[q]) + 1
  <2> SUFFICES ASSUME NEW q \in Proxy, lan'[q] # lan[q]
               PROVE  /\ q = h /\ Len(lan'[q]) = Len(lan[q]) + 1
                      /\ lan'[q][Len(lan[q]) + 1] = k
                      /\ \A i \in 1..Len(lan[q]) : lan'[q][i] = lan[q][i]
                      /\ \A i \in 1..Len(lan'[q]) :
                           i \in 1..Len(lan[q]) \/ i = Len(lan[q]) + 1
    OBVIOUS
  <2>1. q = h /\ lan'[q] = Append(lan[q], k)
    BY <1>2 DEF Send
  <2> QED
    BY <1>2, <2>1
<1>8. OnceHeard'
  BY <1>1 DEF Once, OnceHeard
<1>9. OnceLan'
  <2> SUFFICES ASSUME NEW q \in Proxy, NEW i \in 1..Len(lan'[q])
               PROVE  /\ Had(q, lan[q][i])'
                      /\ \A j \in 1..Len(lan'[q]) : lan'[q][i] = lan'[q][j] => i = j
    BY DEF OnceLan
  <2>1. CASE lan'[q] = lan[q]
    BY <1>3, <1>6, <2>1 DEF Once, OnceLan
  <2>2. CASE lan'[q] # lan[q]
    <3>1. Had(q, lan[q][i])'
      <4>1. CASE i \in 1..Len(lan[q])
        BY <1>3, <1>6, <1>7, <2>2, <4>1 DEF Once, OnceLan
      <4>2. CASE i = Len(lan[q]) + 1
        BY <1>4, <1>7, <2>2, <4>2
      <4> QED
        BY <1>7, <2>2, <4>1, <4>2
    <3>2. \A j \in 1..Len(lan'[q]) : lan'[q][i] = lan'[q][j] => i = j
      BY SMTT(30), <1>6, <1>7, <2>2 DEF Once, OnceLan
    <3> QED
      BY <3>1, <3>2
  <2> QED
    BY <2>1, <2>2
<1>10. OnceNet'
  BY <1>1, <1>3, <1>5 DEF Once, OnceNet
<1>11. OnceWay'
  <2> SUFFICES ASSUME NEW q \in Proxy, NEW m \in Proxy, NEW c \in 1..Len(packets'),
                      Hop[m][packets'[c].at] = q, Had(m, c)'
               PROVE  Had(q, c)'
    BY DEF OnceWay
  <2>1. CASE c \in 1..Len(packets)
    BY <1>2, <1>3, <2>1 DEF Once, OnceWay
  <2>2. CASE c = k
    <3>1. m = h /\ Hop[m][h] = q
      BY <1>2, <1>4, <2>2
    <3>2. q = m
      BY <1>1, <3>1, XboxTree
    <3> QED
      BY <1>4, <2>2, <3>1, <3>2
  <2> QED
    BY <1>2, <2>1, <2>2
<1>12. OncePend'
  <2> SUFFICES ASSUME NEW q \in Proxy, NEW m \in Proxy, NEW i \in 1..Len(lan'[q]),
                      Pending(q, m, i)', m # q, Hop[m][packets'[lan'[q][i]].at] = q
               PROVE  ~Had(m, lan[q][i])' /\ ~Under(m, lan[q][i])'
    BY DEF OncePend
  <2>1. CASE i \in 1..Len(lan[q]) /\ lan'[q][i] = lan[q][i]
    <3>1. Pending(q, m, i)
      BY <1>1, <2>1 DEF Pending
    <3>2. lan[q][i] \in 1..Len(packets) /\ packets'[lan[q][i]] = packets[lan[q][i]]
      BY <1>2, <1>6, <2>1
    <3>3. ~Had(m, lan[q][i]) /\ ~Under(m, lan[q][i])
      BY <2>1, <3>1, <3>2 DEF Once, OncePend
    <3> QED
      BY <1>1, <1>3, <2>1, <3>2, <3>3 DEF Under
  <2>2. CASE q = h /\ lan'[q][i] = k
    <3>1. ~Had(m, lan[q][i])'
      BY <1>4, <2>2
    <3>2. ~Under(m, lan[q][i])'
      BY <1>1, <1>5, <2>2 DEF Under
    <3> QED
      BY <3>1, <3>2
  <2> QED
    BY <1>7, <2>1, <2>2
<1> QED
  BY <1>8, <1>9, <1>10, <1>11, <1>12 DEF Once

LEMMA NextOnce == ASSUME IInv, Once, [Next]_vars PROVE Once'
<1>1. CASE UNCHANGED vars
  BY <1>1, FrameOnce DEF vars, histVars
<1>2. ASSUME NEW n \in Proxy, StartPcap(n) \/ StartProxy(n) PROVE Once'
  <2>1. UNCHANGED <<packets, heard, lan, todo>>
    BY <1>2 DEF StartPcap, StartProxy, histVars
  <2>2. net' = net \/ net' = net \cup {Hello(n)}
    BY <1>2 DEF StartPcap, StartProxy
  <2>3. \A d \in net' : d.kind = "data" => d \in net
    BY <2>2 DEF Hello
  <2> QED
    BY <2>1, <2>3, FrameOnce
<1>3. ASSUME NEW n \in Proxy, Sniff(n) PROVE Once'
  <2> DEFINE k == Head(lan[n])
  <2>1. /\ UNCHANGED <<packets, heard>> /\ lan[n] # << >> /\ todo[n] = {}
        /\ lan \in [Proxy -> Seq(PacketNo)] /\ todo \in [Proxy -> SUBSET Proxy]
    BY <1>3 DEF Sniff, histVars, IInv, TypeOK
  <2>2. \A q \in Proxy \ {n} : lan'[q] = lan[q] /\ todo'[q] = todo[q]
    BY <1>3, <2>1 DEF Sniff, Finish
  <2>3. \A m \in Proxy : Pending(n, m, 1)
    BY <2>1 DEF Pending
  <2>4. \/ lan'[n] = Tail(lan[n])
        \/ /\ lan'[n] = lan[n] /\ todo'[n] # {}
           /\ \A m \in todo'[n] : Pending(n, m, 1)
    <3>1. Finish(n) \/ (lan' = lan /\ todo' = [todo EXCEPT ![n] = Proxy \ {n}])
      BY <1>3 DEF Sniff
    <3>2. \E m \in Proxy : m # n
      BY XboxServers
    <3> QED
      BY <2>1, <2>3, <3>1, <3>2 DEF Finish
  <2>5. ASSUME NEW d \in net', d \notin net
        PROVE  d = Data(n, d.to, k) /\ Passes(n, d.to)
    <3>1. Finish(n) /\ \E m : d = Data(n, m, k)
      BY <1>3, <2>5 DEF Sniff
    <3>2. d = Data(n, d.to, k) /\ d.kind = "data" /\ d.from = n /\ d.pkt = k
      BY <3>1 DEF Data
    <3>3. Linked(n, d.to) /\ Hop[d.to][packets'[k].at] = n
      BY <1>3, <2>5, <3>2, SniffInv DEF IInv, NetRight
    <3>4. d.to \in Proxy /\ d.to # n
      BY <1>3, <2>5, <3>2, <3>3, SniffInv, XboxServers
      DEF IInv, TypeOK, HelloMsg, DataMsg, Linked
    <3>5. lan'[n] # lan[n]
      <4>1. lan'[n] = Tail(lan[n])
        BY <2>1, <3>1 DEF Finish
      <4>2. Len(Tail(lan[n])) = Len(lan[n]) - 1 /\ Len(lan[n]) \in Nat
        BY <2>1
      <4>3. Len(Tail(lan[n])) # Len(lan[n])
        BY <4>2
      <4> QED
        BY <4>1, <4>3
    <3> QED
      BY <2>1, <2>3, <3>2, <3>3, <3>4, <3>5 DEF Passes
  <2> QED
    BY <2>1, <2>2, <2>4, <2>5, PassOnce
<1>4. ASSUME NEW n \in Proxy, NEW m \in Proxy, Scan(n, m) PROVE Once'
  <2> DEFINE k == Head(lan[n])
  <2>1. /\ UNCHANGED <<packets, heard>> /\ m \in todo[n]
        /\ lan \in [Proxy -> Seq(PacketNo)] /\ todo \in [Proxy -> SUBSET Proxy]
    BY <1>4 DEF Scan, histVars, IInv, TypeOK
  <2>2. lan[n] # << >> /\ n # m
    BY <2>1 DEF IInv, ScanRight
  <2>3. \A q \in Proxy \ {n} : lan'[q] = lan[q] /\ todo'[q] = todo[q]
    BY <1>4, <2>1 DEF Scan, Finish
  <2>4. todo'[n] = todo[n] \ {m} /\ \A q \in todo[n] : Pending(n, q, 1)
    BY <1>4, <2>1, <2>2 DEF Scan, Pending
  <2>5. \/ lan'[n] = Tail(lan[n])
        \/ lan'[n] = lan[n] /\ todo'[n] # {}
    BY <1>4, <2>1, <2>4 DEF Scan, Finish
  <2>6. ASSUME NEW d \in net', d \notin net
        PROVE  d = Data(n, d.to, k) /\ Passes(n, d.to)
    <3>1. d = Data(n, m, k)
      BY <1>4, <2>6 DEF Scan
    <3>2. d.to = m /\ d.kind = "data" /\ d.from = n /\ d.pkt = k
      BY <3>1 DEF Data
    <3>3. Hop[m][packets'[k].at] = n
      BY <1>4, <2>6, <3>2, ScanInv DEF IInv, NetRight
    <3> QED
      BY <2>1, <2>2, <2>4, <3>1, <3>2, <3>3 DEF Passes
  <2> QED
    BY <2>1, <2>2, <2>3, <2>4, <2>5, <2>6, PassOnce
<1>5. ASSUME Lose \/ \E n \in Proxy : Rebind(n) PROVE Once'
  <2>1. UNCHANGED <<packets, heard, lan, todo>> /\ net' \subseteq net
    BY <1>5 DEF Lose, Rebind
  <2> QED
    BY <2>1, FrameOnce
<1>6. ASSUME NEW n \in Proxy, Die(n) PROVE Once'
  <2>1. UNCHANGED <<packets, heard, net>>
    BY <1>6 DEF Die
  <2>2. \A q \in Proxy : \/ lan'[q] = lan[q] /\ todo'[q] = todo[q]
                         \/ lan'[q] = << >>
    BY <1>6 DEF Die, IInv, TypeOK
  <2> QED
    BY <2>1, <2>2, FrameOnce
<1> QED
  BY <1>1, <1>2, <1>3, <1>4, <1>5, <1>6, ReceiveOnce, SendOnce
  DEF Next, PcapThread, ProxyThread

(* A step is a packet that is sent, one that is written to a network that    *)
(* did not have it, or nothing that the networks see.                        *)
Origins == [k \in 1..Len(packets) |-> packets[k].at]

LEMMA OriginsType ==
  ASSUME TypeOK
  PROVE  /\ Origins \in Seq(Proxy) /\ Len(Origins) = Len(packets)
         /\ Len(packets) \in Nat
<1>1. \A j \in 1..Len(packets) : packets[j].at \in Proxy
  BY PacketType
<1>2. Len(packets) \in Nat
  BY DEF TypeOK
<1> QED
  BY <1>1, <1>2 DEF Origins

LEMMA StepShared ==
  ASSUME IInv, Once, [Next]_vars
  PROVE  Shared!Next \/ UNCHANGED <<Origins, heard>>
<1>1. ASSUME NEW n \in Proxy, Receive(n), heard' # heard PROVE Shared!Next
  <2> PICK d \in net : Receive(n)!(d)
    BY <1>1 DEF Receive
  <2>1. d.kind = "data" /\ d.to = n /\ UNCHANGED packets /\ Write(n, d.pkt)
    BY <1>1 DEF IInv, TypeOK, HelloMsg, DataMsg
  <2>2. heard' = [heard EXCEPT ![n] = Append(@, d.pkt)]
    BY <1>1, <2>1 DEF Write
  <2>3. d.pkt \in 1..Len(packets) /\ ~Had(n, d.pkt)
    BY <2>1 DEF IInv, NetRight, Right, Once, OnceNet
  <2>4. Shared!Deliver(n, d.pkt)
    BY <2>1, <2>2, <2>3 DEF Had, Shared!Deliver
  <2>5. d.pkt \in 1..Len(Origins)
    BY <2>3, OriginsType DEF IInv
  <2> QED
    BY <2>4, <2>5 DEF Shared!Next, Origins
<1>2. ASSUME NEW b \in Box, NEW dst \in (Box \ {b}) \cup Group, Send(b, dst)
      PROVE  Shared!Next
  <2>1. Home[b] \in Proxy /\ heard' = heard
    BY <1>2, XboxHomes DEF Send
  <2>2. Origins' = Append(Origins, Home[b])
    <3>1. packets' = Append(packets, [src |-> b, dst |-> dst, at |-> Home[b]])
          /\ packets \in Seq(Packet)
      BY <1>2 DEF Send, IInv, TypeOK
    <3>2. [src |-> b, dst |-> dst, at |-> Home[b]] \in Packet
      BY <2>1 DEF Packet
    <3>3. /\ Len(packets') = Len(packets) + 1 /\ Len(packets) \in Nat
          /\ packets'[Len(packets) + 1].at = Home[b]
          /\ \A j \in 1..Len(packets) : packets'[j] = packets[j]
      BY <3>1, <3>2
    <3>4. Origins \in Seq(Proxy) /\ Len(Origins) = Len(packets)
      BY OriginsType DEF IInv
    <3>5. \A j \in 1..Len(packets) + 1 : Origins'[j] = Append(Origins, Home[b])[j]
      BY <2>1, <3>3, <3>4 DEF Origins
    <3>6. Append(Origins, Home[b]) =
            [j \in 1..Len(packets) + 1 |-> Append(Origins, Home[b])[j]]
      BY <2>1, <3>4
    <3>7. Origins' = [j \in 1..Len(packets) + 1 |-> Origins'[j]]
      BY <3>3 DEF Origins
    <3> QED
      BY <3>5, <3>6, <3>7
  <2> QED
    BY <2>1, <2>2 DEF Shared!Next, Shared!Send, Origins
<1>3. ASSUME UNCHANGED <<packets, heard>> PROVE UNCHANGED <<Origins, heard>>
  BY <1>3 DEF Origins
<1>4. ASSUME NEW n \in Proxy, Receive(n), heard' = heard
      PROVE  UNCHANGED <<packets, heard>>
  BY <1>4 DEF Receive
<1>5. ASSUME Lose \/ (\E n \in Proxy : PcapThread(n) \/ StartProxy(n) \/ Die(n) \/ Rebind(n))
      PROVE  UNCHANGED <<packets, heard>>
  BY <1>5
  DEF Lose, PcapThread, StartPcap, Sniff, Scan, StartProxy, Die, Rebind, histVars
<1>6. UNCHANGED vars => UNCHANGED <<packets, heard>>
  BY DEF vars, histVars
<1> QED
  BY <1>1, <1>2, <1>3, <1>4, <1>5, <1>6 DEF Next, ProxyThread

-----------------------------------------------------------------------------
(* Why a packet for everybody gets everywhere.  While some packet is whole,  *)
(* every link is known; and a network that has such a packet has still to    *)
(* pass it to the next one, or it is under way to it, or there.              *)
WholeReady == whole # {} => Ready
WholeSent == \A k \in whole : k \in 1..Len(packets)

HasToPass(n, m, k) == \E i \in 1..Len(lan[n]) : lan[n][i] = k /\ Pending(n, m, i)
Carried(n, m, k) == Had(m, k) \/ Under(m, k) \/ HasToPass(n, m, k)
Carries ==
  \A k \in whole : packets[k].dst \in Flooded =>
    \A n, m \in Proxy : Hop[m][packets[k].at] = n /\ Had(n, k) => Carried(n, m, k)

Whole == WholeReady /\ WholeSent /\ Carries

LEMMA InitWhole == Init => Whole
  BY DEF Init, Whole, WholeReady, WholeSent, Carries

(* Links stay known until somebody dies or is renamed, and then no packet is *)
(* whole any more.                                                           *)
LEMMA ReadyStays ==
  ASSUME TypeOK, Ready, [Next]_vars, whole' # {}
  PROVE  Ready'
<1>1. ASSUME UNCHANGED <<sock, capturing, proxies, port>>,
             \A d \in net' : d \in net \/ d.port = port[d.from]
      PROVE  Ready'
  BY <1>1 DEF Ready
<1>2. CASE UNCHANGED vars
  BY <1>1, <1>2 DEF vars, procVars, envVars
<1>3. ASSUME NEW n \in Proxy, StartPcap(n) \/ StartProxy(n) PROVE Ready'
  BY <1>3 DEF StartPcap, StartProxy, Ready
<1>4. ASSUME NEW n \in Proxy, Sniff(n) PROVE Ready'
  <2>1. \A d \in net' : d \in net \/ \E m : d = Data(n, m, Head(lan[n]))
    BY <1>4 DEF Sniff
  <2>2. \A d \in net' : d \in net \/ d.port = port[d.from]
    BY <2>1 DEF Data
  <2> QED BY <1>1, <1>4, <2>2 DEF Sniff, procVars, envVars
<1>5. ASSUME NEW n \in Proxy, NEW m \in Proxy, Scan(n, m) PROVE Ready'
  <2>1. \A d \in net' : d \in net \/ d = Data(n, m, Head(lan[n]))
    BY <1>5 DEF Scan
  <2>2. \A d \in net' : d \in net \/ d.port = port[d.from]
    BY <2>1 DEF Data
  <2> QED BY <1>1, <1>5, <2>2 DEF Scan, procVars, envVars
<1>6. ASSUME NEW n \in Proxy, Receive(n) PROVE Ready'
  <2> PICK d \in net : Receive(n)!(d)
    BY <1>6 DEF Receive
  <2>1. d.port = port[d.from] /\ net' \subseteq net
        /\ UNCHANGED <<sock, capturing, port>>
    BY DEF Ready, procVars, envVars
  <2>2. d.from \in Proxy /\ proxies \in [Proxy -> [Proxy -> Port \cup {NoPort}]]
    BY DEF TypeOK, HelloMsg, DataMsg
  <2>3. \A p, q \in Proxy : proxies'[p][q] =
          IF p = n /\ q = d.from THEN port[q] ELSE proxies[p][q]
    BY <2>1, <2>2 DEF Addproxy
  <2> QED BY <2>1, <2>3 DEF Ready, Linked
<1>7. ASSUME NEW b \in Box, NEW dst \in (Box \ {b}) \cup Group, Send(b, dst) PROVE Ready'
  BY <1>1, <1>7 DEF Send, procVars, envVars
<1>8. CASE Lose
  BY <1>1, <1>8 DEF Lose, procVars, envVars
<1>9. ASSUME NEW n \in Proxy, Die(n) \/ Rebind(n) PROVE FALSE
  BY <1>9 DEF Die, Rebind, Fault
<1> QED
  BY <1>2, <1>3, <1>4, <1>5, <1>6, <1>7, <1>8, <1>9 DEF Next, PcapThread, ProxyThread

(* No step but a packet that is sent makes a packet whole.                   *)
LEMMA WholeSteps ==
  ASSUME IInv, Whole, [Next]_vars
  PROVE  /\ WholeReady' /\ WholeSent'
         /\ (\A b \in Box : \A dst \in (Box \ {b}) \cup Group : ~Send(b, dst))
              => whole' \subseteq whole /\ UNCHANGED packets
<1>1. ASSUME NEW b \in Box, NEW dst \in (Box \ {b}) \cup Group, Send(b, dst)
      PROVE  WholeReady' /\ WholeSent'
  <2>1. /\ whole' = IF Ready THEN whole \cup {Len(packets) + 1} ELSE whole
        /\ packets' = Append(packets, [src |-> b, dst |-> dst, at |-> Home[b]])
    BY <1>1 DEF Send
  <2>2. Len(packets') = Len(packets) + 1 /\ Len(packets) \in Nat
    <3>1. packets \in Seq(Packet) /\ [src |-> b, dst |-> dst, at |-> Home[b]] \in Packet
      BY XboxHomes DEF IInv, TypeOK, Packet
    <3> QED BY <2>1, <3>1
  <2>3. WholeSent'
    BY <2>1, <2>2 DEF Whole, WholeSent
  <2>4. WholeReady'
    <3>1. whole' # {} => Ready
      BY <2>1 DEF Whole, WholeReady
    <3> QED BY <3>1, ReadyStays DEF IInv, WholeReady
  <2> QED BY <2>3, <2>4
<1>2. ASSUME \A b \in Box : \A dst \in (Box \ {b}) \cup Group : ~Send(b, dst)
      PROVE  /\ whole' \subseteq whole /\ UNCHANGED packets
             /\ WholeReady' /\ WholeSent'
  <2>1. whole' \subseteq whole /\ UNCHANGED packets
    <3>1. UNCHANGED vars => whole' = whole /\ UNCHANGED packets
      BY DEF vars, histVars
    <3>2. ASSUME NEW n \in Proxy, PcapThread(n) \/ ProxyThread(n)
          PROVE  whole' = whole /\ UNCHANGED packets
      BY <3>2 DEF PcapThread, ProxyThread, StartPcap, StartProxy, Sniff, Scan, Receive, histVars
    <3>3. Lose \/ (\E n \in Proxy : Die(n) \/ Rebind(n)) => whole' \subseteq whole /\ UNCHANGED packets
      BY DEF Lose, Die, Rebind, Fault
    <3> QED BY <1>2, <3>1, <3>2, <3>3 DEF Next
  <2>2. WholeSent'
    BY <2>1 DEF Whole, WholeSent
  <2>3. WholeReady'
    <3>1. whole' # {} => Ready
      BY <2>1 DEF Whole, WholeReady
    <3> QED BY <3>1, ReadyStays DEF IInv, WholeReady
  <2> QED BY <2>1, <2>2, <2>3
<1> QED BY <1>1, <1>2

(* What a network has to pass it has to pass still when one more packet is   *)
(* sniffed there, and that one too.                                          *)
LEMMA SniffsMore ==
  ASSUME TypeOK, ScanRight, NEW q \in Proxy, NEW k \in PacketNo, NEW m \in Proxy,
         lan'[q] = Append(lan[q], k), todo'[q] = todo[q]
  PROVE  /\ \A c : HasToPass(q, m, c) => HasToPass(q, m, c)'
         /\ HasToPass(q, m, k)'
<1>1. lan[q] \in Seq(PacketNo)
  BY DEF TypeOK
<1>2. /\ Len(lan'[q]) = Len(lan[q]) + 1 /\ lan'[q][Len(lan[q]) + 1] = k
      /\ Len(lan[q]) \in Nat
      /\ \A i \in 1..Len(lan[q]) : lan'[q][i] = lan[q][i]
  BY <1>1
<1>3. ASSUME NEW c, HasToPass(q, m, c) PROVE HasToPass(q, m, c)'
  <2>1. PICK i \in 1..Len(lan[q]) : lan[q][i] = c /\ Pending(q, m, i)
    BY <1>3 DEF HasToPass
  <2>2. i \in 1..Len(lan'[q]) /\ lan'[q][i] = c
    BY <1>2, <2>1
  <2>3. Pending(q, m, i)'
    BY <2>1, <2>2 DEF Pending
  <2> QED BY <2>2, <2>3 DEF HasToPass
<1>4. HasToPass(q, m, k)'
  <2> DEFINE i == Len(lan[q]) + 1
  <2>1. i \in 1..Len(lan'[q])
    BY <1>2
  <2>2. i = 1 => todo[q] = {}
    <3>1. i = 1 => lan[q] = << >>
      BY <1>1, <1>2
    <3> QED BY <3>1 DEF ScanRight
  <2>3. \A j \in 1..Len(lan'[q]) : j = i => Pending(q, m, j)'
    BY <2>2 DEF Pending
  <2> QED BY <1>2, <2>1, <2>3 DEF HasToPass
<1> QED BY <1>3, <1>4

(* Nothing happens to what is carried.                                       *)
LEMMA StaysCarried ==
  ASSUME Whole, whole' \subseteq whole, UNCHANGED <<packets, heard, lan, todo>>,
         \A d \in net : d.kind = "data" /\ d.pkt \in whole' => d \in net'
  PROVE  Carries'
<1> SUFFICES ASSUME NEW k \in whole', packets[k].dst \in Flooded, NEW n \in Proxy, NEW m \in Proxy,
                    Hop[m][packets[k].at] = n, Had(n, k)'
             PROVE  Carried(n, m, k)'
  BY DEF Carries
<1>1. Had(n, k) /\ (Had(m, k) => Had(m, k)')
  BY DEF Had
<1>2. Carried(n, m, k)
  BY <1>1 DEF Whole, Carries
<1>3. Under(m, k) => Under(m, k)'
  BY DEF Under
<1>4. HasToPass(n, m, k) => HasToPass(n, m, k)'
  BY DEF HasToPass, Pending
<1> QED BY <1>1, <1>2, <1>3, <1>4 DEF Carried

(* packet_handler passes a packet for everybody to every proxy it knows but  *)
(* the one the packet came from, and drops no other one.                     *)
LEMMA PcapCarries ==
  ASSUME IInv, Whole, NEW p \in Proxy, UNCHANGED <<packets, heard, whole>>, net \subseteq net',
         \A q \in Proxy \ {p} : lan'[q] = lan[q] /\ todo'[q] = todo[q],
         \A m \in Proxy : \A k \in whole :
           /\ packets[k].dst \in Flooded /\ HasToPass(p, m, k)
           /\ Hop[m][packets[k].at] = p /\ m # p
           => HasToPass(p, m, k)' \/ Under(m, k)'
  PROVE  Carries'
<1> SUFFICES ASSUME NEW k \in whole, packets[k].dst \in Flooded, NEW n \in Proxy, NEW m \in Proxy,
                    Hop[m][packets[k].at] = n, Had(n, k)'
             PROVE  Carried(n, m, k)'
  BY DEF Carries
<1>1. Had(n, k) /\ (Had(m, k) => Had(m, k)')
  BY DEF Had
<1>2. Carried(n, m, k)
  BY <1>1 DEF Whole, Carries
<1>3. Under(m, k) => Under(m, k)'
  BY DEF Under
<1>4. CASE n # p /\ HasToPass(n, m, k)
  <2>1. HasToPass(n, m, k)'
    BY <1>4 DEF HasToPass, Pending
  <2> QED BY <2>1 DEF Carried
<1>5. CASE n = p /\ m # p /\ HasToPass(n, m, k)
  BY <1>5 DEF Carried
<1>6. CASE n = m
  BY <1>1, <1>6 DEF Carried
<1> QED BY <1>1, <1>2, <1>3, <1>4, <1>5, <1>6 DEF Carried

LEMMA SniffCarries == ASSUME IInv, Whole, NEW p \in Proxy, Sniff(p) PROVE Carries'
<1> DEFINE h == Head(lan[p])
<1>1. /\ UNCHANGED <<packets, heard, whole>> /\ lan[p] # << >> /\ todo[p] = {}
      /\ lan \in [Proxy -> Seq(PacketNo)] /\ todo \in [Proxy -> SUBSET Proxy]
      /\ net \subseteq net'
  BY DEF Sniff, histVars, IInv, TypeOK
<1>2. \A q \in Proxy \ {p} : lan'[q] = lan[q] /\ todo'[q] = todo[q]
  BY <1>1 DEF Sniff, Finish
<1>3. CASE packets[h].dst \in Flooded
  <2>1. lan' = lan /\ todo'[p] = Proxy \ {p}
    BY <1>1, <1>3 DEF Sniff
  <2>2. \A m \in Proxy : \A k \in whole : m # p /\ HasToPass(p, m, k) => HasToPass(p, m, k)'
    BY <2>1 DEF HasToPass, Pending
  <2> QED BY <1>1, <1>2, <2>2, PcapCarries
<1>4. CASE packets[h].dst \notin Flooded
  <2>1. lan'[p] = Tail(lan[p]) /\ todo'[p] = {}
    BY <1>1, <1>4 DEF Sniff, Finish
  <2>2. ASSUME NEW m \in Proxy, NEW k \in whole, packets[k].dst \in Flooded, HasToPass(p, m, k)
        PROVE  HasToPass(p, m, k)'
    <3>1. PICK i \in 1..Len(lan[p]) : lan[p][i] = k
      BY <2>2 DEF HasToPass
    <3>2. lan[p] \in Seq(PacketNo) /\ h = lan[p][1]
      BY <1>1
    <3>3. i # 1
      BY <1>4, <2>2, <3>1, <3>2
    <3>4. i - 1 \in 1..Len(Tail(lan[p])) /\ Tail(lan[p])[i - 1] = k
      BY <1>1, <3>1, <3>2, <3>3
    <3> QED BY <2>1, <3>4 DEF HasToPass, Pending
  <2> QED BY <1>1, <1>2, <2>2, PcapCarries
<1> QED BY <1>3, <1>4

LEMMA ScanCarries ==
  ASSUME IInv, Whole, NEW p \in Proxy, NEW r \in Proxy, Scan(p, r) PROVE Carries'
<1> DEFINE h == Head(lan[p])
<1>1. /\ UNCHANGED <<packets, heard, whole, xboxen>> /\ r \in todo[p]
      /\ lan \in [Proxy -> Seq(PacketNo)] /\ todo \in [Proxy -> SUBSET Proxy]
      /\ net \subseteq net' /\ todo'[p] = todo[p] \ {r}
  BY DEF Scan, histVars, IInv, TypeOK
<1>2. \A q \in Proxy \ {p} : lan'[q] = lan[q] /\ todo'[q] = todo[q]
  BY <1>1 DEF Scan, Finish
<1>3. lan[p] # << >> /\ lan[p] \in Seq(PacketNo) /\ h = lan[p][1]
  BY <1>1 DEF IInv, ScanRight
<1>4. \/ lan'[p] = lan[p] /\ todo'[p] # {}
      \/ lan'[p] = Tail(lan[p]) /\ todo'[p] = {}
  BY <1>1 DEF Scan, Finish
<1>5. ASSUME NEW m \in Proxy, NEW k \in whole, packets[k].dst \in Flooded, HasToPass(p, m, k),
             Hop[m][packets[k].at] = p, m # p
      PROVE  HasToPass(p, m, k)' \/ Under(m, k)'
  <2>1. PICK i \in 1..Len(lan[p]) : lan[p][i] = k /\ Pending(p, m, i)
    BY <1>5 DEF HasToPass
  <2>2. CASE i = 1 /\ m = r
    <3>1. k = h /\ k \in 1..Len(packets)
      BY <1>3, <2>1, <2>2 DEF Whole, WholeSent
    <3>2. packets[k].at \in Proxy /\ packets[k].src \in Box /\ packets[k].at = Home[packets[k].src]
      BY <3>1, PacketType DEF IInv, SentHome
    <3>3. Linked(p, m)
      <4>1. Hop[m][packets[k].at] # m
        BY <1>5
      <4>2. m # packets[k].at
        <5>1. Hop[m][m] = m
          BY XboxTree
        <5> QED BY <4>1, <5>1
      <4>3. Linked(m, Hop[m][packets[k].at])
        BY <3>2, <4>2, XboxTree
      <4> QED BY <1>5, <4>3 DEF Linked
    <3>4. proxies[p][m] # NoPort
      <4>1. Ready
        BY DEF Whole, WholeReady
      <4>2. proxies[p][m] = port[m] /\ port[m] \in Port
        BY <3>3, <4>1 DEF Ready, IInv, TypeOK
      <4> QED BY <4>2, PortTypes
    <3>5. xboxen[p][packets[k].src] # m
      <4>1. Hop[p][packets[k].at] # m
        <5>1. Hop[p][packets[k].at] = m => Hop[m][packets[k].at] # p
          BY <3>2, <3>3, XboxTree
        <5> QED BY <1>5, <5>1
      <4>2. xboxen[p][packets[k].src] \in {NoProxy, Hop[p][packets[k].at]}
        BY <3>2 DEF IInv, Routes
      <4> QED BY <4>1, <4>2, XboxServers
    <3>6. Data(p, m, k) \in net'
      BY <2>2, <3>1, <3>4, <3>5 DEF Scan, Sends
    <3> QED BY <3>6 DEF Under, Data
  <2>3. CASE i = 1 /\ m # r
    <3>1. m \in todo'[p]
      BY <1>1, <2>1, <2>3 DEF Pending
    <3>2. lan'[p] = lan[p]
      BY <1>4, <3>1
    <3> QED BY <2>1, <3>1, <3>2 DEF HasToPass, Pending
  <2>4. CASE i # 1
    <3>1. CASE lan'[p] = lan[p]
      BY <2>1, <2>4, <3>1 DEF HasToPass, Pending
    <3>2. CASE lan'[p] = Tail(lan[p]) /\ todo'[p] = {}
      <4>1. i - 1 \in 1..Len(Tail(lan[p])) /\ Tail(lan[p])[i - 1] = k
        BY <1>3, <2>1, <2>4
      <4> QED BY <3>2, <4>1 DEF HasToPass, Pending
    <3> QED BY <1>4, <3>1, <3>2
  <2> QED BY <2>2, <2>3, <2>4
<1> QED BY <1>1, <1>2, <1>5, PcapCarries

(* What is received is written, and has to be passed on.                     *)
LEMMA ReceiveCarries == ASSUME IInv, Whole, NEW p \in Proxy, Receive(p) PROVE Carries'
<1> PICK d \in net : Receive(p)!(d)
  BY DEF Receive
<1>1. /\ UNCHANGED <<todo, packets, capturing, whole>> /\ d.to = p /\ net' = net \ {d}
      /\ d \in HelloMsg \cup DataMsg /\ d.from \in Proxy
  BY DEF IInv, TypeOK, procVars, HelloMsg, DataMsg
<1>2. CASE d.kind = "hello"
  <2>1. UNCHANGED <<lan, heard>>
    BY <1>2
  <2> QED BY <1>1, <1>2, <2>1, StaysCarried
<1>3. CASE whole = {}
  BY <1>1, <1>3 DEF Carries
<1>4. CASE d.kind = "data" /\ whole # {}
  <2> DEFINE c == d.pkt
  <2>1. c \in PacketNo
    BY <1>1, <1>4 DEF HelloMsg, DataMsg
  <2>2. p \in capturing
    BY <1>4 DEF Whole, WholeReady, Ready
  <2>3. /\ lan' = [lan EXCEPT ![p] = Append(@, c)] /\ heard' = [heard EXCEPT ![p] = Append(@, c)]
    BY <1>4, <2>2 DEF Write
  <2>4. lan \in [Proxy -> Seq(PacketNo)] /\ heard \in [Proxy -> Seq(PacketNo)]
    BY DEF IInv, TypeOK
  <2>5. /\ lan'[p] = Append(lan[p], c) /\ \A q \in Proxy \ {p} : lan'[q] = lan[q]
        /\ heard'[p] = Append(heard[p], c) /\ \A q \in Proxy \ {p} : heard'[q] = heard[q]
    BY <2>3, <2>4
  <2>6. \A q \in Proxy : \A k : Had(q, k)' <=> Had(q, k) \/ (q = p /\ k = c)
    <3>1. /\ Len(heard'[p]) = Len(heard[p]) + 1 /\ heard'[p][Len(heard[p]) + 1] = c
          /\ Len(heard[p]) \in Nat
          /\ \A i \in 1..Len(heard[p]) : heard'[p][i] = heard[p][i]
      BY <2>1, <2>4, <2>5
    <3>2. Len(heard[p]) + 1 \in 1..Len(heard'[p])
          /\ (\A i \in 1..Len(heard'[p]) : i \in 1..Len(heard[p]) \/ i = Len(heard[p]) + 1)
          /\ (\A i \in 1..Len(heard[p]) : i \in 1..Len(heard'[p]))
      BY <3>1
    <3>3. \A k : Had(p, k)' <=> Had(p, k) \/ k = c
      BY <1>1, <3>1, <3>2 DEF Had
    <3>4. \A q \in Proxy \ {p} : \A k : Had(q, k)' <=> Had(q, k)
      BY <1>1, <2>5 DEF Had
    <3> QED BY <3>3, <3>4
  <2>7. ASSUME NEW n \in Proxy, NEW m \in Proxy
        PROVE  /\ \A k : HasToPass(n, m, k) => HasToPass(n, m, k)'
               /\ n = p => HasToPass(n, m, c)'
    <3>1. CASE n = p
      BY <1>1, <2>1, <2>5, <3>1, SniffsMore DEF IInv
    <3>2. CASE n # p
      <4>1. lan'[n] = lan[n] /\ todo'[n] = todo[n]
        BY <1>1, <2>5, <3>2
      <4> QED BY <3>2, <4>1 DEF HasToPass, Pending
    <3> QED BY <3>1, <3>2
  <2>8. ASSUME NEW m \in Proxy, NEW k, Under(m, k) PROVE Under(m, k)' \/ Had(m, k)'
    BY <1>1, <2>6, <2>8 DEF Under
  <2> SUFFICES ASSUME NEW k \in whole, packets[k].dst \in Flooded, NEW n \in Proxy, NEW m \in Proxy,
                      Hop[m][packets[k].at] = n, Had(n, k)'
               PROVE  Carried(n, m, k)'
    BY <1>1 DEF Carries
  <2>9. CASE Had(n, k)
    <3>1. Carried(n, m, k)
      BY <2>9 DEF Whole, Carries
    <3> QED BY <2>6, <2>7, <2>8, <3>1 DEF Carried
  <2>10. CASE n = p /\ k = c
    BY <2>7, <2>10 DEF Carried
  <2> QED BY <2>6, <2>9, <2>10
<1> QED BY <1>1, <1>2, <1>3, <1>4 DEF HelloMsg, DataMsg

(* What is sent is sniffed, and has to be passed on.                         *)
LEMMA SendCarries ==
  ASSUME IInv, Whole, NEW b \in Box, NEW dst \in (Box \ {b}) \cup Group, Send(b, dst)
  PROVE  Carries'
<1> DEFINE h == Home[b]
<1> PICK c \in Nat : c = Len(packets) + 1
  BY DEF IInv, TypeOK
<1>1. /\ UNCHANGED <<todo, net, heard>> /\ h \in Proxy /\ Len(packets) < MaxPackets
      /\ whole' = IF Ready THEN whole \cup {c} ELSE whole
      /\ packets' = Append(packets, [src |-> b, dst |-> dst, at |-> h])
      /\ lan' = IF h \in capturing THEN [lan EXCEPT ![h] = Append(@, c)] ELSE lan
  BY XboxHomes DEF Send
<1>2. CASE whole' = {}
  BY <1>2 DEF Carries
<1>3. CASE whole' # {}
  <2>1. h \in capturing
    BY <1>1, <1>3 DEF Whole, WholeReady, Ready
  <2>2. /\ Len(packets) \in Nat /\ c \in PacketNo /\ packets'[c].at = h
        /\ \A k \in 1..Len(packets) : packets'[k] = packets[k]
    <3>1. packets \in Seq(Packet) /\ [src |-> b, dst |-> dst, at |-> h] \in Packet
      BY <1>1 DEF IInv, TypeOK, Packet
    <3> QED BY <1>1, <3>1, XboxBounds DEF PacketNo
  <2>3. /\ lan'[h] = Append(lan[h], c) /\ \A q \in Proxy \ {h} : lan'[q] = lan[q]
    BY <1>1, <2>1 DEF IInv, TypeOK
  <2>4. ASSUME NEW n \in Proxy, NEW m \in Proxy
        PROVE  /\ \A k : HasToPass(n, m, k) => HasToPass(n, m, k)'
               /\ n = h => HasToPass(n, m, c)'
    <3>1. CASE n = h
      <4>1. TypeOK /\ ScanRight /\ lan'[n] = Append(lan[n], c) /\ todo'[n] = todo[n]
        BY <1>1, <2>3, <3>1 DEF IInv
      <4>2. c \in PacketNo
        BY <2>2
      <4> QED BY <4>1, <4>2, SniffsMore
    <3>2. CASE n # h
      <4>1. lan'[n] = lan[n] /\ todo'[n] = todo[n]
        BY <1>1, <2>3, <3>2
      <4> QED BY <3>2, <4>1 DEF HasToPass, Pending
    <3> QED BY <3>1, <3>2
  <2>5. \A q \in Proxy : \A k \in 1..Len(packets) : Had(q, k)' <=> Had(q, k)
    BY <1>1, <2>2 DEF Had
  <2>6. \A m, k : Under(m, k) => Under(m, k)'
    BY <1>1 DEF Under
  <2> SUFFICES ASSUME NEW k \in whole', packets'[k].dst \in Flooded, NEW n \in Proxy, NEW m \in Proxy,
                      Hop[m][packets'[k].at] = n, Had(n, k)'
               PROVE  Carried(n, m, k)'
    BY DEF Carries
  <2>7. CASE k \in whole
    <3>1. k \in 1..Len(packets)
      BY <2>7 DEF Whole, WholeSent
    <3>2. Carried(n, m, k)
      BY <2>2, <2>5, <2>7, <3>1 DEF Whole, Carries
    <3> QED BY <2>4, <2>5, <2>6, <3>1, <3>2 DEF Carried
  <2>8. CASE k = c
    <3>1. n = h
      <4>1. \A i \in 1..Len(heard[n]) : heard[n][i] \in 1..Len(packets)
        BY DEF IInv, HeardSent
      <4>2. c \notin 1..Len(packets)
        BY <2>2
      <4>3. packets'[k].at = n \/ \E i \in 1..Len(heard[n]) : heard[n][i] = k
        BY <1>1 DEF Had
      <4> QED BY <2>2, <2>8, <4>1, <4>2, <4>3
    <3> QED BY <2>4, <2>8, <3>1 DEF Carried
  <2> QED BY <1>1, <2>7, <2>8
<1> QED BY <1>2, <1>3

LEMMA NextWhole == ASSUME IInv, Whole, [Next]_vars PROVE Whole'
<1>1. WholeReady' /\ WholeSent'
  BY WholeSteps
<1>2. ASSUME \A b \in Box : \A dst \in (Box \ {b}) \cup Group : ~Send(b, dst)
      PROVE  Carries'
  <2>1. whole' \subseteq whole /\ UNCHANGED packets
    BY <1>2, WholeSteps
  <2>2. CASE UNCHANGED vars
    BY <2>1, <2>2, StaysCarried DEF vars, histVars
  <2>3. ASSUME NEW n \in Proxy, StartPcap(n) \/ StartProxy(n) PROVE Carries'
    <3>1. UNCHANGED <<packets, heard, lan, todo>> /\ net \subseteq net'
      BY <2>3 DEF StartPcap, StartProxy, histVars
    <3> QED BY <2>1, <3>1, StaysCarried
  <2>4. CASE Lose
    BY <2>1, <2>4, StaysCarried DEF Lose
  <2>5. ASSUME NEW n \in Proxy, Die(n) \/ Rebind(n) PROVE Carries'
    BY <2>5 DEF Die, Rebind, Fault, Carries
  <2> QED BY <1>2, <2>2, <2>3, <2>4, <2>5, SniffCarries, ScanCarries, ReceiveCarries
          DEF Next, PcapThread, ProxyThread
<1>3. ASSUME NEW b \in Box, NEW dst \in (Box \ {b}) \cup Group, Send(b, dst) PROVE Carries'
  BY <1>3, SendCarries
<1> QED BY <1>1, <1>2, <1>3 DEF Whole

(* When nothing is under way and nothing has to be passed, a packet for      *)
(* everybody is where its way to every network has led.                      *)
LEMMA WholeReaches == ASSUME IInv, Whole PROVE Reaches
<1> SUFFICES ASSUME net = {}, \A n \in Proxy : lan[n] = << >>, NEW k \in whole \cap ToAll
             PROVE  \A n \in Proxy : Reached(n, k)
  BY DEF Reaches
<1> DEFINE there == {n \in Proxy : Had(n, k)}
<1>1. k \in 1..Len(packets) /\ packets[k].dst \in Flooded /\ packets[k].at \in Proxy
  BY PacketType DEF Whole, WholeSent, ToAll, IInv
<1>2. packets[k].at \in there
  BY <1>1 DEF Had
<1>3. ASSUME NEW m \in Proxy, Hop[m][packets[k].at] \in there PROVE m \in there
  <2>1. Carried(Hop[m][packets[k].at], m, k)
    BY <1>1, <1>3 DEF Whole, Carries
  <2>2. ~Under(m, k) /\ ~HasToPass(Hop[m][packets[k].at], m, k)
    BY <1>3 DEF Under, HasToPass
  <2> QED BY <2>1, <2>2 DEF Carried
<1>4. there = Proxy
  BY <1>1, <1>2, <1>3, XboxWays
<1>5. \A n \in Proxy : Had(n, k) => Reached(n, k)
  BY DEF Had, Reached
<1> QED BY <1>4, <1>5

-----------------------------------------------------------------------------
(* Every variable keeps its type, in every tree (main.c, its tables).        *)
THEOREM XboxTypeCorrect == Spec => []TypeOK
<1>1. Init => IInv
  BY InitInv
<1>2. IInv /\ [Next]_vars => IInv'
  BY StepInv
<1>3. IInv => TypeOK
  BY DEF IInv
<1> QED
  BY <1>1, <1>2, <1>3, PTL DEF Spec

(* The tables that are learned from the traffic never point the wrong way:   *)
(* addxbox, with whatever the network loses or delays and whoever dies.      *)
THEOREM RoutesHolds == Spec => []Routes
<1>1. Init => IInv
  BY InitInv
<1>2. IInv /\ [Next]_vars => IInv'
  BY StepInv
<1>3. IInv => Routes
  BY DEF IInv
<1> QED
  BY <1>1, <1>2, <1>3, PTL DEF Spec

(* No packet goes back to the network of its sender: the scan of             *)
(* packet_handler leaves out the right proxy.                                *)
THEOREM NeverBackHolds == Spec => []NeverBack
<1>1. Init => IInv
  BY InitInv
<1>2. IInv /\ [Next]_vars => IInv'
  BY StepInv
<1>3. IInv => NeverBack
  <2> SUFFICES ASSUME IInv, NEW m \in net, m.kind = "data"
               PROVE  m.to # packets[m.pkt].at
    BY DEF NeverBack
  <2>1. Linked(m.from, m.to) /\ Hop[m.to][packets[m.pkt].at] = m.from
    BY DEF IInv, NetRight
  <2>2. m.to \in Proxy /\ m.from \in Proxy
    BY DEF IInv, TypeOK, HelloMsg, DataMsg
  <2>3. m.from # m.to
    BY <2>1, <2>2, XboxServers DEF Linked
  <2> QED
    BY <2>1, <2>2, <2>3, XboxTree
<1> QED
  BY <1>1, <1>2, <1>3, PTL DEF Spec

(* No proxy off the path between two consoles writes what they say to each   *)
(* other to its network.                                                     *)
THEOREM OnPathHolds == Spec => []OnPath
<1>1. Init => IInv
  BY InitInv
<1>2. IInv /\ [Next]_vars => IInv'
  BY StepInv
<1>3. IInv => OnPath
  BY DEF IInv
<1> QED
  BY <1>1, <1>2, <1>3, PTL DEF Spec

(* Joined networks carry every packet at most once on every other network,   *)
(* in every tree, whatever is lost, restarted or renamed (packet_handler and *)
(* recv_from_proxy, which pass on what they sniff of their own writing).     *)
THEOREM OneNetworkHolds == Spec => OneNetwork
<1>1. Init => IInv /\ Once
  BY InitInv, InitOnce
<1>2. IInv /\ Once /\ [Next]_vars => (IInv /\ Once)'
  BY StepInv, NextOnce
<1>3. Init => Shared!Init
  <2> SUFFICES ASSUME Init PROVE Shared!Init
    OBVIOUS
  <2>1. packets = << >> /\ heard = [n \in Proxy |-> << >>]
    BY DEF Init
  <2>2. Origins = << >>
    BY <2>1 DEF Origins
  <2> QED
    BY <2>1, <2>2 DEF Shared!Init, Origins
<1>4. IInv /\ Once /\ [Next]_vars => [Shared!Next]_<<Origins, heard>>
  BY StepShared
<1>5. OneNetwork <=> Shared!Init /\ [][Shared!Next]_<<Origins, heard>>
  BY DEF OneNetwork, Shared!Spec, Origins
<1> QED
  BY <1>1, <1>2, <1>3, <1>4, <1>5, PTL DEF Spec

(* A packet for everybody that is sent when all links are known, and of      *)
(* which nothing is lost, gets to every network of any tree, past proxies    *)
(* that know neither its sender nor each other (main.c: recv_from_proxy      *)
(* writes it to the network, where packet_handler sniffs it).                *)
THEOREM ReachesAll == Spec => []Reaches
<1>1. Init => IInv /\ Whole
  BY InitInv, InitWhole
<1>2. IInv /\ Whole /\ [Next]_vars => (IInv /\ Whole)'
  BY StepInv, NextWhole
<1>3. IInv /\ Whole => Reaches
  BY WholeReaches
<1> QED
  BY <1>1, <1>2, <1>3, PTL DEF Spec
=============================================================================
