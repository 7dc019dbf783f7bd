------------------------------ MODULE XboxTree -------------------------------
(* What xboxproxy does when the proxies and the servers they name by -s form *)
(* a tree: there is one path between any two networks.                       *)
EXTENDS XboxProxy

CONSTANT Hop   \* Hop[n][h]: the next proxy on the way from n to h

ASSUME XboxTree ==
  /\ Hop \in [Proxy -> [Proxy -> Proxy]]
  /\ \A n, h \in Proxy : Hop[n][h] = n <=> n = h
  /\ \A n, h \in Proxy : n # h => Linked(n, Hop[n][h])
  /\ \A n, m, h \in Proxy : Linked(n, m) => (Hop[n][h] = m <=> Hop[m][h] # n)

(* Every way ends: a set with h, and with every proxy whose next is in it,   *)
(* is all of them.                                                           *)
ASSUME XboxWays ==
  \A h \in Proxy : \A S \in SUBSET Proxy :
    h \in S /\ (\A n \in Proxy : Hop[n][h] \in S => n \in S) => S = Proxy

(* The tables that are learned from the traffic are right: a console is on   *)
(* the way every proxy believes, whatever was lost, late or restarted.       *)
Routes ==
  \A n \in Proxy : \A b \in Box :
    xboxen[n][b] # NoProxy => xboxen[n][b] = Hop[n][Home[b]]

(* A packet for one console is written only to networks on the way to it:    *)
(* no proxy beside the path relays it.                                       *)
OnPath ==
  \A n \in Proxy : \A i \in 1..Len(heard[n]) :
    LET pkt == packets[heard[n][i]] IN
      pkt.dst \in Box => Hop[n][pkt.at] # Hop[n][Home[pkt.dst]]

(* The abstract specification: at most once on every network, and never on   *)
(* the one it came from.                                                     *)
Shared == INSTANCE SharedNetwork WITH
            Segment <- Proxy,
            origin <- [k \in 1..Len(packets) |-> packets[k].at]
OneNetwork == Shared!Spec

ToAll == {k \in 1..Len(packets) : packets[k].dst \in Flooded}
Reached(n, k) ==
  packets[k].at = n \/ k \in {heard[n][i] : i \in 1..Len(heard[n])}

(* Once the proxies have nothing left to do, every packet for everybody that *)
(* was sent when all links were known, and of which the network lost         *)
(* nothing, is on every network: proxies pass it on that only know each      *)
(* other, because they sniff what they write.                                *)
Reaches ==
  net = {} /\ (\A n \in Proxy : lan[n] = << >>) =>
    \A k \in whole \cap ToAll : \A n \in Proxy : Reached(n, k)
=============================================================================
