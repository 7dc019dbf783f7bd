---------------------------- MODULE SharedNetwork ----------------------------
(* What joined networks promise: every packet a console sends appears on     *)
(* another network at most once, and never again on its own.                 *)
EXTENDS Integers, Sequences

CONSTANTS Segment   \* the networks

VARIABLES
  origin,   \* the networks where the packets were sent
  heard     \* per network, the packets written to it, in order

Init == origin = << >> /\ heard = [n \in Segment |-> << >>]

Send == \E n \in Segment : origin' = Append(origin, n) /\ UNCHANGED heard

Deliver(n, k) ==
  /\ origin[k] # n
  /\ \A i \in 1..Len(heard[n]) : heard[n][i] # k
  /\ heard' = [heard EXCEPT ![n] = Append(@, k)]
  /\ UNCHANGED origin

Next == Send \/ \E n \in Segment : \E k \in 1..Len(origin) : Deliver(n, k)
Spec == Init /\ [][Next]_<<origin, heard>>
=============================================================================
