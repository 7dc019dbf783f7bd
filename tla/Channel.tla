-------------------------------- MODULE Channel ------------------------------
(* Channel.java (classes/os1): a channel without a buffer, made of three Java *)
(* locks: sent lets one send in at a time, received one receive, and the     *)
(* monitor of the channel itself guards the two flags; both sides wait on it *)
(* and wake each other with one notify.                                      *)
(*                                                                           *)
(* A step is what a thread does while it owns the channel's monitor, or the  *)
(* taking or leaving of one of the other locks.  Java lets a thread come     *)
(* back from wait() although nobody woke it.                                 *)
EXTENDS Naturals

CONSTANTS Sender, Receiver, Nothing

ASSUME ChannelThreads == Sender \cap Receiver = {} /\ Nothing \notin Sender \cup Receiver

VARIABLES
  place,           \* where a thread is
  sent, received,  \* who holds these two locks, or Nothing
  message, message_sent, message_received,
  got              \* got[r]: what the receive of r returns

channelVars == <<place, sent, received, message, message_sent, message_received, got>>

Thread == Sender \cup Receiver
Place == {"outside", "calls", "enters", "waits", "woken", "leaves", "returned"}

ChannelTypeOK ==
  /\ place \in [Thread -> Place]
  /\ sent \in Sender \cup {Nothing} /\ received \in Receiver \cup {Nothing}
  /\ message \in Sender \cup {Nothing}
  /\ message_sent \in BOOLEAN /\ message_received \in BOOLEAN
  /\ got \in [Receiver -> Sender \cup {Nothing}]

ChannelInit ==
  /\ place = [t \in Thread |-> "outside"]
  /\ sent = Nothing /\ received = Nothing /\ message = Nothing
  /\ message_sent = FALSE /\ message_received = FALSE
  /\ got = [r \in Receiver |-> Nothing]

-----------------------------------------------------------------------------
(* One thread of those that wait on the channel is woken, if there is one.   *)

\* mutant: nobody is woken
NotifyNobody(at) == place' = at
Notify(at) ==
  LET asleep == {t \in Thread : place[t] = "waits"} IN
    IF asleep = {} THEN place' = at
                   ELSE \E t \in asleep : place' = [at EXCEPT ![t] = "woken"]

Go(t, there) == [place EXCEPT ![t] = there]

Call(t) ==
  /\ place[t] = "outside"
  /\ place' = Go(t, "calls")
  /\ UNCHANGED <<sent, received, message, message_sent, message_received, got>>

-----------------------------------------------------------------------------
(* send.                                                                     *)

SendLocks(s) ==
  /\ place[s] = "calls" /\ sent = Nothing
  /\ sent' = s /\ place' = Go(s, "enters")
  /\ UNCHANGED <<received, message, message_sent, message_received, got>>

\* mutant: the flag stays up for the next send
KeepReceived == TRUE
ResetReceived == FALSE

(* It offers its message, and may find it taken only after a wait.           *)
SendEnters(s) ==
  /\ place[s] = "enters"
  /\ message' = s /\ message_sent' = TRUE
  /\ IF message_received
       THEN Notify(Go(s, "leaves")) /\ message_received' = ResetReceived
       ELSE Notify(Go(s, "waits")) /\ UNCHANGED message_received
  /\ UNCHANGED <<sent, received, got>>

SendWakes(s) ==
  /\ place[s] = "woken"
  /\ IF message_received
       THEN place' = Go(s, "leaves") /\ message_received' = ResetReceived
       ELSE place' = Go(s, "waits") /\ UNCHANGED message_received
  /\ UNCHANGED <<sent, received, message, message_sent, got>>

SendReturns(s) ==
  /\ place[s] = "leaves"
  /\ sent' = Nothing /\ place' = Go(s, "returned")
  /\ UNCHANGED <<received, message, message_sent, message_received, got>>

-----------------------------------------------------------------------------
(* receive.                                                                  *)

ReceiveLocks(r) ==
  /\ place[r] = "calls" /\ received = Nothing
  /\ received' = r /\ place' = Go(r, "enters")
  /\ UNCHANGED <<sent, message, message_sent, message_received, got>>

(* It waits until there is a message, takes it and tells the sender.         *)
ReceiveTakes(r) ==
  /\ place[r] \in {"enters", "woken"}
  /\ IF message_sent
       THEN /\ got' = [got EXCEPT ![r] = message]
            /\ message_received' = TRUE /\ message_sent' = FALSE
            /\ Notify(Go(r, "leaves"))
       ELSE place' = Go(r, "waits") /\ UNCHANGED <<got, message_received, message_sent>>
  /\ UNCHANGED <<sent, received, message>>

ReceiveReturns(r) ==
  /\ place[r] = "leaves"
  /\ received' = Nothing /\ place' = Go(r, "returned")
  /\ UNCHANGED <<sent, message, message_sent, message_received, got>>

-----------------------------------------------------------------------------
(* wait() returns although nobody called notify().                           *)
Spurious(t) ==
  /\ place[t] = "waits" /\ place' = Go(t, "woken")
  /\ UNCHANGED <<sent, received, message, message_sent, message_received, got>>

Send(s)    == SendLocks(s) \/ SendEnters(s) \/ SendWakes(s) \/ SendReturns(s)
Receive(r) == ReceiveLocks(r) \/ ReceiveTakes(r) \/ ReceiveReturns(r)

ChannelNext ==
  \/ \E t \in Thread : Call(t) \/ Spurious(t)
  \/ \E s \in Sender : Send(s)
  \/ \E r \in Receiver : Receive(r)

(* The virtual machine runs every thread that can go on; nobody has to call, *)
(* and nobody is woken but by a notify.                                      *)
ChannelFair ==
  /\ \A s \in Sender : WF_channelVars(Send(s))
  /\ \A r \in Receiver : WF_channelVars(Receive(r))

ChannelSpec == ChannelInit /\ [][ChannelNext]_channelVars /\ ChannelFair

-----------------------------------------------------------------------------
(* The abstract specification: every send that returned was taken by one     *)
(* receive, every receive that returned took one send, and a send returns    *)
(* only after its message was taken (Channel.java: send and receive).        *)
Inside(t) == place[t] \notin {"outside", "returned"}
Sync == INSTANCE SyncChannel WITH
          inside <- {t \in Thread : Inside(t)},
          gone   <- {t \in Thread : place[t] = "returned"}
ChannelMeets == Sync!Spec

(* In the end no send waits beside a receive that waits: the one notify of   *)
(* each wakes the right thread, whoever comes first.                         *)
ChannelReturns ==
  <>[]~(\E s \in Sender : \E r \in Receiver : Inside(s) /\ Inside(r))
=============================================================================
