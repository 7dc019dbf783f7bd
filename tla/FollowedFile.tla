----------------------------- MODULE FollowedFile -----------------------------
(* What a program that follows a file promises to whoever consumes the lines *)
(* (a file input of grok to its match blocks, a FileTail to receive_data),   *)
(* whatever it does to keep the promise: the lines written to the file       *)
(* arrive once each, in the order they were written, and all of them do as   *)
(* long as it follows.  The promise ends when it stops reading, or when the  *)
(* file is changed behind its back in a way it cannot notice.                *)
EXTENDS Naturals, Sequences

VARIABLES
  written,  \* lines written so far: lines 1, 2, ..., written
  seen,     \* lines given to the consumer
  void      \* the promise has ended

vars == <<written, seen, void>>

Init == written = 0 /\ seen = << >> /\ void = FALSE

Write == ~void /\ written' = written + 1 /\ UNCHANGED <<seen, void>>

(* One or more of the next lines arrive. *)
Arrive ==
  /\ ~void
  /\ \E last \in (Len(seen) + 1)..written : seen' = [n \in 1..last |-> n]
  /\ UNCHANGED <<written, void>>

End  == ~void /\ void' = TRUE
Void == void /\ void' = void

Next == Write \/ Arrive \/ End \/ Void

Spec == Init /\ [][Next]_vars /\ WF_vars(Arrive)
=============================================================================
