------------------------------ MODULE XboxProxy ------------------------------
(* xboxproxy (main.c): proxies that join the networks of Xbox consoles by    *)
(* UDP.  Each proxy has two threads that share two tables without a lock:    *)
(* pcap sniffs the local network and sends what it sees to other proxies;    *)
(* proxy receives from other proxies and writes what it gets to the local    *)
(* network, where the first thread sniffs it again: that is how a proxy      *)
(* relays.  Nobody configures the other proxies but the one named by -s: the *)
(* tables are learned from the traffic, and never unlearned.                 *)
(*                                                                           *)
(* UDP may lose and reorder; a proxy may die and start again with empty      *)
(* tables; the port by which others see a proxy may change.                  *)
EXTENDS Integers, Sequences

CONSTANTS
  Proxy, Box,    \* proxies, one per network, and consoles
  Server,        \* the proxy named by -s, or NoProxy
  NoProxy,
  Home,          \* the network where a console is
  ForwardMulticast,   \* -m
  Lossy,         \* the network loses datagrams
  MaxPackets,    \* bound: packets the consoles send
  MaxFaults      \* bound: deaths of proxies and changes of a port

ASSUME XboxServers ==
  /\ NoProxy \notin Proxy
  /\ Server \in [Proxy -> Proxy \cup {NoProxy}]
  /\ \A n \in Proxy : Server[n] # n
  /\ \A n \in Proxy : \E m \in Proxy : m # n
ASSUME XboxHomes == Home \in [Box -> Proxy] /\ Box \cap {"broadcast", "multicast"} = {}
ASSUME XboxBounds ==
  MaxPackets \in Nat /\ MaxFaults \in Nat

Group  == {"broadcast", "multicast"}
NoPort == 0
Port   == 1..(MaxFaults + 1)
ServerPort == 1
\* mutant: every packet goes to everybody
FloodedAll == Box \cup Group
Flooded == IF ForwardMulticast THEN Group ELSE {"broadcast"}

VARIABLES
  sock,        \* proxies whose UDP socket is bound
  capturing,   \* proxies whose pcap thread sniffs and has set libnet
  proxies,     \* proxies[n][m]: the port n has for m, or NoPort
  xboxen,      \* xboxen[n][b]: where n believes b is: a proxy, n itself for
               \* the local network, NoProxy for a console it never saw
  lan,         \* what pcap has sniffed and packet_handler not finished
  todo,        \* proxies the scan of a broadcast has still to pass
  net,         \* datagrams under way
  port,        \* the port by which the others see a proxy
  packets,     \* history: the packets the consoles sent
  heard,       \* history: the packets a proxy wrote to its network
  whole,       \* history: the packets sent when every link was known and
               \* up, and of which nothing was lost since
  faults

procVars == <<sock, capturing>>
histVars == <<packets, heard, whole>>
envVars  == <<port, faults>>
vars == <<procVars, proxies, xboxen, lan, todo, net, histVars, envVars>>

PacketNo == 1..MaxPackets
Packet == [src : Box, dst : Box \cup Group, at : Proxy]
HelloMsg == [kind : {"hello"}, from : Proxy, port : Port, to : Proxy, toport : Port]
DataMsg == [kind : {"data"}, from : Proxy, port : Port, to : Proxy, toport : Port,
            pkt : PacketNo]

TypeOK ==
  /\ sock \subseteq Proxy /\ capturing \subseteq Proxy
  /\ proxies \in [Proxy -> [Proxy -> Port \cup {NoPort}]]
  /\ xboxen \in [Proxy -> [Box -> Proxy \cup {NoProxy}]]
  /\ lan \in [Proxy -> Seq(PacketNo)]
  /\ todo \in [Proxy -> SUBSET Proxy]
  /\ net \subseteq HelloMsg \cup DataMsg
  /\ port \in [Proxy -> Port]
  /\ packets \in Seq(Packet) /\ Len(packets) <= MaxPackets
  /\ heard \in [Proxy -> Seq(PacketNo)]
  /\ whole \subseteq PacketNo
  /\ faults \in 0..MaxFaults

NoProxies == [m \in Proxy |-> NoPort]
NoXboxen  == [b \in Box |-> NoProxy]

Init ==
  /\ sock = {} /\ capturing = {}
  /\ proxies = [n \in Proxy |-> NoProxies]
  /\ xboxen = [n \in Proxy |-> NoXboxen]
  /\ lan = [n \in Proxy |-> << >>] /\ todo = [n \in Proxy |-> {}]
  /\ net = {}
  /\ port = [n \in Proxy |-> ServerPort]
  /\ packets = << >> /\ heard = [n \in Proxy |-> << >>] /\ whole = {}
  /\ faults = 0

-----------------------------------------------------------------------------
(* The tables.  A console is entered once, with the place where it was seen  *)
(* first; the port of a proxy is that of its last datagram.                  *)

\* mutant: a console is where it was seen last
AddxboxAgain(n, b, where) == [xboxen EXCEPT ![n][b] = where]
Addxbox(n, b, where) ==
  IF xboxen[n][b] = NoProxy THEN [xboxen EXCEPT ![n][b] = where] ELSE xboxen

Addproxy(n, m, itsport) == [proxies EXCEPT ![n][m] = itsport]

(* The two threads start.  What arrives before the first has set libnet is   *)
(* not written; what the network carries before pcap is open is not sniffed. *)
StartPcap(n) ==
  /\ n \notin capturing
  /\ capturing' = capturing \cup {n}
  /\ UNCHANGED <<sock, proxies, xboxen, lan, todo, net, histVars, envVars>>

Hello(n) == [kind |-> "hello", from |-> n, port |-> port[n],
             to |-> Server[n], toport |-> ServerPort]

(* connect_to_proxy: say hello to the server, then treat it as any other.    *)
StartProxy(n) ==
  /\ n \notin sock
  /\ sock' = sock \cup {n}
  /\ IF Server[n] = NoProxy
       THEN UNCHANGED <<proxies, net>>
       ELSE /\ net' = net \cup {Hello(n)}
            /\ proxies' = Addproxy(n, Server[n], ServerPort)
  /\ UNCHANGED <<capturing, xboxen, lan, todo, histVars, envVars>>

-----------------------------------------------------------------------------
(* packet_handler, for the oldest packet sniffed.                            *)

Data(n, m, k) == [kind |-> "data", from |-> n, port |-> port[n],
                  to |-> m, toport |-> proxies[n][m], pkt |-> k]

\* mutant: the packet stays in the buffer
FinishNever(n) == lan' = lan
Finish(n) == lan' = [lan EXCEPT ![n] = Tail(@)]

(* A packet for everybody: the scan of the proxies begins.  One for a known  *)
(* console that is not here goes to the proxy it was seen from.              *)
Sniff(n) ==
  /\ lan[n] # << >> /\ todo[n] = {}
  /\ LET k == Head(lan[n])  pkt == packets[k] IN
       /\ xboxen' = Addxbox(n, pkt.src, n)
       /\ IF pkt.dst \in Flooded
            THEN /\ todo' = [todo EXCEPT ![n] = Proxy \ {n}]
                 /\ UNCHANGED <<lan, net>>
            ELSE /\ Finish(n)
                 /\ net' = IF pkt.dst \in Box /\ xboxen'[n][pkt.dst] \notin {n, NoProxy}
                             THEN net \cup {Data(n, xboxen'[n][pkt.dst], k)}
                             ELSE net
                 /\ UNCHANGED todo
  /\ UNCHANGED <<procVars, proxies, histVars, envVars>>

\* mutant: sends to a proxy it does not know
SendsUnknown(n, m, b) == xboxen[n][b] # m
\* mutant: the sender's own proxy is not left out
SendsAlways(n, m, b) == proxies[n][m] # NoPort
\* "Make sure the source addr of this packet is not getting sent this packet."
Sends(n, m, b) == proxies[n][m] # NoPort /\ xboxen[n][b] # m

(* One step of the scan.  A proxy that is added meanwhile may be passed or   *)
(* not.                                                                      *)
Scan(n, m) ==
  /\ m \in todo[n]
  /\ LET k == Head(lan[n]) IN
       net' = IF Sends(n, m, packets[k].src) THEN net \cup {Data(n, m, k)} ELSE net
  /\ todo' = [todo EXCEPT ![n] = @ \ {m}]
  /\ IF todo[n] = {m} THEN Finish(n) ELSE UNCHANGED lan
  /\ UNCHANGED <<procVars, proxies, xboxen, histVars, envVars>>

-----------------------------------------------------------------------------
(* recv_from_proxy: whoever sends a datagram is a proxy from now on; an      *)
(* empty one says no more.  The sender of a packet is behind that proxy, and *)
(* the packet is written to the local network, where pcap sniffs it.         *)

\* mutant: what is written is not sniffed
WriteUnheard(n, k) ==
  IF n \in capturing
    THEN UNCHANGED lan /\ heard' = [heard EXCEPT ![n] = Append(@, k)]
    ELSE UNCHANGED <<lan, heard>>
Write(n, k) ==
  IF n \in capturing
    THEN /\ lan' = [lan EXCEPT ![n] = Append(@, k)]
         /\ heard' = [heard EXCEPT ![n] = Append(@, k)]
    ELSE UNCHANGED <<lan, heard>>

Receive(n) == \E m \in net :
  /\ m.to = n /\ n \in sock /\ m.toport = port[n]
  /\ net' = net \ {m}
  /\ proxies' = Addproxy(n, m.from, m.port)
  /\ \/ /\ m.kind = "hello"
        /\ UNCHANGED <<xboxen, lan, heard>>
     \/ /\ m.kind = "data"
        /\ xboxen' = Addxbox(n, packets[m.pkt].src, m.from)
        /\ Write(n, m.pkt)
  /\ UNCHANGED <<procVars, todo, packets, whole, envVars>>

-----------------------------------------------------------------------------
(* The environment: consoles, the network, and what befalls a proxy.         *)

(* Two proxies of which one names the other.                                 *)
Linked(n, m) == Server[n] = m \/ Server[m] = n

(* Every proxy is up, and every link is known on both sides.                 *)
Ready ==
  /\ sock = Proxy /\ capturing = Proxy
  /\ \A n, m \in Proxy : Linked(n, m) => proxies[n][m] = port[m]
  /\ \A m \in net : m.port = port[m.from]

Send(b, dst) ==
  /\ Len(packets) < MaxPackets
  /\ whole' = IF Ready THEN whole \cup {Len(packets) + 1} ELSE whole
  /\ packets' = Append(packets, [src |-> b, dst |-> dst, at |-> Home[b]])
  /\ lan' = IF Home[b] \in capturing
              THEN [lan EXCEPT ![Home[b]] = Append(@, Len(packets) + 1)]
              ELSE lan
  /\ UNCHANGED <<procVars, proxies, xboxen, todo, net, heard, envVars>>

Lose == \E m \in net :
  /\ Lossy \/ m.to \notin sock \/ m.toport # port[m.to]
  /\ net' = net \ {m}
  /\ whole' = IF m.kind = "data" THEN whole \ {m.pkt} ELSE whole
  /\ UNCHANGED <<procVars, proxies, xboxen, lan, todo, packets, heard, envVars>>

Fault == faults < MaxFaults /\ faults' = faults + 1 /\ whole' = {}

Die(n) ==
  /\ Fault
  /\ sock' = sock \ {n} /\ capturing' = capturing \ {n}
  /\ proxies' = [proxies EXCEPT ![n] = NoProxies]
  /\ xboxen' = [xboxen EXCEPT ![n] = NoXboxen]
  /\ lan' = [lan EXCEPT ![n] = << >>] /\ todo' = [todo EXCEPT ![n] = {}]
  /\ UNCHANGED <<net, packets, heard, port>>

(* A router gives a proxy that nobody names by -s another port.              *)
Rebind(n) ==
  /\ Fault
  /\ \A m \in Proxy : Server[m] # n
  /\ port' = [port EXCEPT ![n] = @ + 1]
  /\ UNCHANGED <<procVars, proxies, xboxen, lan, todo, net, packets, heard>>

-----------------------------------------------------------------------------
PcapThread(n)  == StartPcap(n) \/ Sniff(n) \/ \E m \in Proxy : Scan(n, m)
ProxyThread(n) == StartProxy(n) \/ Receive(n)

Next ==
  \/ \E n \in Proxy : PcapThread(n) \/ ProxyThread(n)
  \/ \E b \in Box : \E dst \in (Box \ {b}) \cup Group : Send(b, dst)
  \/ Lose
  \/ \E n \in Proxy : Die(n) \/ Rebind(n)

Spec == Init /\ [][Next]_vars

-----------------------------------------------------------------------------
(* "Make sure the source addr of this packet is not getting sent this        *)
(* packet. Do not send!": no packet is on its way to the network where its   *)
(* sender is.  (main.c, the scan of packet_handler.)                         *)
NeverBack ==
  \A m \in net : m.kind = "data" => m.to # packets[m.pkt].at

=============================================================================
