---------------------------- MODULE SyncChannel ------------------------------
(* What a channel without a buffer promises: a send and a receive meet, each *)
(* with one other, and return only after they met.                           *)
CONSTANTS Sender, Receiver, Nothing

VARIABLES
  inside,   \* calls that began and did not return
  gone,     \* calls that returned
  got       \* got[r]: the send whose message a receive has, or Nothing

vars == <<inside, gone, got>>

Met(t) == IF t \in Receiver THEN got[t] # Nothing ELSE \E r \in Receiver : got[r] = t

Init == inside = {} /\ gone = {} /\ got = [r \in Receiver |-> Nothing]

Call(t) ==
  /\ t \notin inside \cup gone
  /\ inside' = inside \cup {t} /\ UNCHANGED <<gone, got>>

Meet(s, r) ==
  /\ s \in inside /\ r \in inside /\ ~Met(s) /\ ~Met(r)
  /\ got' = [got EXCEPT ![r] = s] /\ UNCHANGED <<inside, gone>>

Return(t) ==
  /\ t \in inside /\ Met(t)
  /\ inside' = inside \ {t} /\ gone' = gone \cup {t} /\ UNCHANGED got

Next ==
  \/ \E t \in Sender \cup Receiver : Call(t) \/ Return(t)
  \/ \E s \in Sender : \E r \in Receiver : Meet(s, r)

Spec == Init /\ [][Next]_vars
=============================================================================
