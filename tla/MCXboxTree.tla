----------------------------- MODULE MCXboxTree ------------------------------
(* Instances of XboxTree for TLC: a hub and two proxies that name it, each   *)
(* with a console.                                                           *)
EXTENDS XboxTree, TLC

CONSTANTS hub, p1, p2, b0, b1, b2

StarServer == (hub :> NoProxy) @@ (p1 :> hub) @@ (p2 :> hub)
StarHop    == [n \in Proxy |-> [h \in Proxy |-> IF n = hub \/ n = h THEN h ELSE hub]]
StarHome   == (b0 :> hub) @@ (b1 :> p1) @@ (b2 :> p2)
=============================================================================
