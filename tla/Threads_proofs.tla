--------------------------- MODULE Threads_proofs ----------------------------
(* Four programs of threads: the channel (Channel.java), the sleeping barber  *)
(* (SleepingBarber.java) and dxargs, for any number of them, and FancyDB with *)
(* its two, the writer and the evaluator.                                     *)
EXTENDS Channel, BarberShop, DxArgs, FancyDB, FiniteSetTheorems, SequenceTheorems,
        WellFoundedInduction, TLAPS

-----------------------------------------------------------------------------
(* Channel.java for any number of threads: the types, and that it is a        *)
(* channel without a buffer.                                                  *)

Holds(t) == place[t] \in {"enters", "waits", "woken", "leaves"}
Waits(t) == place[t] \in {"waits", "woken"}
Taken(s) == \E r \in Receiver : got[r] = s

(* A lock is held from where it is taken to where it is left; each flag is up *)
(* only while the sender with the lock waits, the first before its message is *)
(* taken and the second after; who is through has met.                        *)
Locks ==
  /\ \A s \in Sender : Holds(s) <=> sent = s
  /\ \A r \in Receiver : Holds(r) <=> received = r
FirstFlag == message_sent => sent \in Sender /\ Waits(sent) /\ message = sent /\ ~Taken(sent)
SecondFlag == message_received => sent \in Sender /\ Waits(sent) /\ Taken(sent)
SendersMet == \A s \in Sender :
  /\ place[s] \in {"leaves", "returned"} => Taken(s)
  /\ place[s] \in {"outside", "calls", "enters"} => ~Taken(s)
ReceiversMet == \A r \in Receiver : place[r] \in {"leaves", "returned"} <=> got[r] # Nothing

ChannelInv == ChannelTypeOK /\ Locks /\ FirstFlag /\ SecondFlag /\ SendersMet /\ ReceiversMet

-----------------------------------------------------------------------------
(* The invariant holds at first.                                              *)
LEMMA ChannelInitial == ChannelInit => ChannelInv
BY ChannelThreads DEF ChannelInit, ChannelInv, ChannelTypeOK, Locks, FirstFlag, SecondFlag,
   SendersMet, ReceiversMet, Holds, Waits, Taken, Thread, Place

(* Notify: what the caller makes of the places, but one waiting thread may be *)
(* woken (Channel.java: notify).                                              *)
LEMMA NotifyWakes ==
  ASSUME place \in [Thread -> Place], NEW t \in Thread, place[t] # "waits",
         NEW p \in Place, Notify(Go(t, p))
  PROVE  /\ place' \in [Thread -> Place]
         /\ place'[t] = p
         /\ \A u \in Thread \ {t} : place'[u] = place[u] \/ (place[u] = "waits" /\ place'[u] = "woken")
<1> DEFINE at == Go(t, p)
           asleep == {u \in Thread : place[u] = "waits"}
<1>1. /\ at \in [Thread -> Place] /\ at[t] = p
      /\ \A u \in Thread \ {t} : at[u] = place[u]
    BY DEF Go
<1>2. CASE asleep = {}
    BY <1>1, <1>2 DEF Notify
<1>3. CASE asleep # {}
    <2>1. PICK w \in asleep : place' = [at EXCEPT ![w] = "woken"]
        BY <1>3 DEF Notify
    <2> QED BY <1>1, <2>1 DEF Place
<1> QED BY <1>2, <1>3

(* Go: the thread is elsewhere, the others are where they were.               *)
LEMMA GoMoves ==
  ASSUME place \in [Thread -> Place], NEW t \in Thread, NEW p \in Place, place' = Go(t, p)
  PROVE  /\ place' \in [Thread -> Place]
         /\ place'[t] = p
         /\ \A u \in Thread \ {t} : place'[u] = place[u]
BY DEF Go, Place

-----------------------------------------------------------------------------
(* Every step keeps it (send and receive of Channel.java).                    *)
LEMMA ChannelStep == ChannelInv /\ [ChannelNext]_channelVars => ChannelInv'
<1> SUFFICES ASSUME ChannelInv, [ChannelNext]_channelVars PROVE ChannelInv'
    OBVIOUS
<1> USE ChannelThreads DEF ChannelInv, Thread
<1>t. /\ place \in [Thread -> Place] /\ got \in [Receiver -> Sender \cup {Nothing}]
      /\ "outside" \in Place /\ "calls" \in Place /\ "enters" \in Place /\ "waits" \in Place
      /\ "woken" \in Place /\ "leaves" \in Place /\ "returned" \in Place
    BY DEF ChannelTypeOK, Place
<1>1. ASSUME NEW t \in Thread, Call(t) PROVE ChannelInv'
    <2>1. /\ place' \in [Thread -> Place] /\ place'[t] = "calls" /\ place[t] = "outside"
          /\ \A u \in Thread \ {t} : place'[u] = place[u]
        BY <1>t, <1>1, GoMoves DEF Call
    <2> QED BY <1>1, <2>1 DEF Call, ChannelTypeOK, Locks, FirstFlag, SecondFlag, SendersMet,
               ReceiversMet, Holds, Waits, Taken
<1>2. ASSUME NEW t \in Thread, Spurious(t) PROVE ChannelInv'
    <2>1. /\ place' \in [Thread -> Place] /\ place'[t] = "woken" /\ place[t] = "waits"
          /\ \A u \in Thread \ {t} : place'[u] = place[u]
        BY <1>t, <1>2, GoMoves DEF Spurious
    <2> QED BY <1>2, <2>1 DEF Spurious, ChannelTypeOK, Locks, FirstFlag, SecondFlag, SendersMet,
               ReceiversMet, Holds, Waits, Taken
<1>3. ASSUME NEW s \in Sender, SendLocks(s) PROVE ChannelInv'
    <2>1. /\ place' \in [Thread -> Place] /\ place'[s] = "enters" /\ place[s] = "calls"
          /\ \A u \in Thread \ {s} : place'[u] = place[u]
        BY <1>t, <1>3, GoMoves DEF SendLocks
    <2> QED BY <1>3, <2>1 DEF SendLocks, ChannelTypeOK, Locks, FirstFlag, SecondFlag, SendersMet,
               ReceiversMet, Holds, Waits, Taken
<1>4. ASSUME NEW s \in Sender, SendEnters(s) PROVE ChannelInv'
    <2>1. place[s] = "enters" /\ sent = s /\ ~message_received /\ ~Taken(s)
        BY <1>4 DEF SendEnters, Locks, Holds, SecondFlag, Waits, SendersMet
    <2>2. /\ place' \in [Thread -> Place] /\ place'[s] = "waits"
          /\ \A u \in Thread \ {s} : place'[u] = place[u] \/ (place[u] = "waits" /\ place'[u] = "woken")
        BY <1>t, <1>4, <2>1, NotifyWakes DEF SendEnters
    <2> QED BY <1>4, <2>1, <2>2 DEF SendEnters, ChannelTypeOK, Locks, FirstFlag, SecondFlag,
               SendersMet, ReceiversMet, Holds, Waits, Taken
<1>5. ASSUME NEW s \in Sender, SendWakes(s) PROVE ChannelInv'
    <2>1. place[s] = "woken" /\ sent = s
        BY <1>5 DEF SendWakes, Locks, Holds
    <2>2. CASE message_received
        <3>1. /\ place' \in [Thread -> Place] /\ place'[s] = "leaves" /\ Taken(s)
              /\ \A u \in Thread \ {s} : place'[u] = place[u]
            BY <1>t, <1>5, <2>1, <2>2, GoMoves DEF SendWakes, SecondFlag
        <3>2. ~message_sent
            BY <2>1, <3>1 DEF FirstFlag
        <3>3. message_received' = FALSE
            BY <1>5, <2>2 DEF SendWakes, ResetReceived
        <3>4. ChannelTypeOK' /\ FirstFlag' /\ SecondFlag'
            BY <1>5, <3>1, <3>2, <3>3 DEF SendWakes, ChannelTypeOK, FirstFlag, SecondFlag
        <3>5. Locks' /\ SendersMet' /\ ReceiversMet'
            BY <1>5, <2>1, <3>1 DEF SendWakes, Locks, SendersMet, ReceiversMet, Holds, Taken
        <3> QED BY <3>4, <3>5
    <2>3. CASE ~message_received
        <3>1. /\ place' \in [Thread -> Place] /\ place'[s] = "waits"
              /\ \A u \in Thread \ {s} : place'[u] = place[u]
            BY <1>t, <1>5, <2>3, GoMoves DEF SendWakes
        <3> QED BY <1>5, <2>1, <2>3, <3>1 DEF SendWakes, ChannelTypeOK, Locks, FirstFlag,
                   SecondFlag, SendersMet, ReceiversMet, Holds, Waits, Taken
    <2> QED BY <2>2, <2>3
<1>6. ASSUME NEW s \in Sender, SendReturns(s) PROVE ChannelInv'
    <2>1. place[s] = "leaves" /\ sent = s /\ ~message_sent /\ ~message_received
        BY <1>6 DEF SendReturns, Locks, Holds, FirstFlag, SecondFlag, Waits, ChannelTypeOK
    <2>2. /\ place' \in [Thread -> Place] /\ place'[s] = "returned"
          /\ \A u \in Thread \ {s} : place'[u] = place[u]
        BY <1>t, <1>6, GoMoves DEF SendReturns
    <2> QED BY <1>6, <2>1, <2>2 DEF SendReturns, ChannelTypeOK, Locks, FirstFlag, SecondFlag,
               SendersMet, ReceiversMet, Holds, Waits, Taken
<1>7. ASSUME NEW r \in Receiver, ReceiveLocks(r) PROVE ChannelInv'
    <2>1. /\ place' \in [Thread -> Place] /\ place'[r] = "enters" /\ place[r] = "calls"
          /\ \A u \in Thread \ {r} : place'[u] = place[u]
        BY <1>t, <1>7, GoMoves DEF ReceiveLocks
    <2> QED BY <1>7, <2>1 DEF ReceiveLocks, ChannelTypeOK, Locks, FirstFlag, SecondFlag,
               SendersMet, ReceiversMet, Holds, Waits, Taken
<1>8. ASSUME NEW r \in Receiver, ReceiveTakes(r) PROVE ChannelInv'
    <2>1. place[r] \in {"enters", "woken"} /\ received = r /\ got[r] = Nothing
        BY <1>8 DEF ReceiveTakes, Locks, Holds, ReceiversMet
    <2>2. CASE message_sent
        <3>1. sent \in Sender /\ message = sent /\ Waits(sent) /\ ~Taken(sent)
            BY <2>2 DEF FirstFlag
        <3>2. /\ place' \in [Thread -> Place] /\ place'[r] = "leaves"
              /\ \A u \in Thread \ {r} : place'[u] = place[u] \/ (place[u] = "waits" /\ place'[u] = "woken")
            BY <1>t, <1>8, <2>1, <2>2, NotifyWakes DEF ReceiveTakes
        <3>3. /\ got' \in [Receiver -> Sender \cup {Nothing}] /\ got'[r] = sent
              /\ \A q \in Receiver \ {r} : got'[q] = got[q]
            BY <1>t, <1>8, <2>2, <3>1 DEF ReceiveTakes
        <3>4. Taken(sent)' /\ \A s \in Sender \ {sent} : Taken(s)' <=> Taken(s)
            BY <1>8, <2>1, <3>1, <3>3 DEF ReceiveTakes, Taken
        <3>8. message_received' = TRUE /\ message_sent' = FALSE
            BY <1>8, <2>2 DEF ReceiveTakes
        <3>5. ChannelTypeOK' /\ FirstFlag'
            BY <1>8, <3>2, <3>3, <3>8 DEF ReceiveTakes, ChannelTypeOK, FirstFlag
        <3>9. SecondFlag' /\ Locks'
            BY <1>8, <2>1, <3>1, <3>2, <3>4, <3>8 DEF ReceiveTakes, SecondFlag, Locks, Holds, Waits
        <3>6. SendersMet'
            BY <3>1, <3>2, <3>4 DEF SendersMet, Waits
        <3>7. ReceiversMet'
            BY <2>1, <3>1, <3>2, <3>3 DEF ReceiversMet
        <3> QED BY <3>5, <3>6, <3>7, <3>9
    <2>3. CASE ~message_sent
        <3>1. /\ place' \in [Thread -> Place] /\ place'[r] = "waits"
              /\ \A u \in Thread \ {r} : place'[u] = place[u]
            BY <1>t, <1>8, <2>3, GoMoves DEF ReceiveTakes
        <3> QED BY <1>8, <2>1, <2>3, <3>1 DEF ReceiveTakes, ChannelTypeOK, Locks, FirstFlag,
                   SecondFlag, SendersMet, ReceiversMet, Holds, Waits, Taken
    <2> QED BY <2>2, <2>3
<1>9. ASSUME NEW r \in Receiver, ReceiveReturns(r) PROVE ChannelInv'
    <2>1. place[r] = "leaves" /\ received = r
        BY <1>9 DEF ReceiveReturns, Locks, Holds
    <2>2. /\ place' \in [Thread -> Place] /\ place'[r] = "returned"
          /\ \A u \in Thread \ {r} : place'[u] = place[u]
        BY <1>t, <1>9, GoMoves DEF ReceiveReturns
    <2> QED BY <1>9, <2>1, <2>2 DEF ReceiveReturns, ChannelTypeOK, Locks, FirstFlag, SecondFlag,
               SendersMet, ReceiversMet, Holds, Waits, Taken
<1>10. CASE UNCHANGED channelVars
    BY <1>10 DEF channelVars, ChannelTypeOK, Locks, FirstFlag, SecondFlag, SendersMet,
       ReceiversMet, Holds, Waits, Taken
<1> QED BY <1>1, <1>2, <1>3, <1>4, <1>5, <1>6, <1>7, <1>8, <1>9, <1>10
        DEF ChannelNext, Send, Receive

(* It always holds.                                                           *)
LEMMA ChannelAlways == ChannelSpec => []ChannelInv
BY ChannelInitial, ChannelStep, PTL DEF ChannelSpec

(* The flags, locks and messages keep their types, whoever sends and receives *)
(* (the fields of Channel.java).                                              *)
THEOREM ChannelTypeCorrect == ChannelSpec => []ChannelTypeOK
<1>1. ChannelInv => ChannelTypeOK
    BY DEF ChannelInv
<1> QED BY <1>1, ChannelAlways, PTL

-----------------------------------------------------------------------------
(* Every step is a step of the abstract channel, or none of it (send and      *)
(* receive of Channel.java).                                                  *)
AbsInside == {t \in Thread : Inside(t)}
AbsGone == {t \in Thread : place[t] = "returned"}

LEMMA ChannelSimulates ==
  ChannelInv /\ [ChannelNext]_channelVars => [Sync!Next]_(Sync!vars)
<1> SUFFICES ASSUME ChannelInv, [ChannelNext]_channelVars PROVE [Sync!Next]_(Sync!vars)
    OBVIOUS
<1> USE ChannelThreads DEF ChannelInv
<1>t. /\ place \in [Thread -> Place] /\ got \in [Receiver -> Sender \cup {Nothing}]
      /\ "outside" \in Place /\ "calls" \in Place /\ "enters" \in Place /\ "waits" \in Place
      /\ "woken" \in Place /\ "leaves" \in Place /\ "returned" \in Place
      /\ Sender \subseteq Thread /\ Receiver \subseteq Thread
    BY DEF ChannelTypeOK, Place, Thread
<1>m. \A t \in Thread : Sync!Met(t) = IF t \in Receiver THEN got[t] # Nothing ELSE Taken(t)
    BY DEF Sync!Met, Taken, Thread
<1>1. ASSUME NEW t \in Thread, Call(t) PROVE Sync!Next
    <2>1. /\ place'[t] = "calls" /\ place[t] = "outside"
          /\ \A u \in Thread \ {t} : place'[u] = place[u]
        BY <1>t, <1>1, GoMoves DEF Call
    <2>2. AbsInside' = AbsInside \cup {t} /\ AbsGone' = AbsGone /\ got' = got
          /\ t \notin AbsInside \cup AbsGone
        BY <1>1, <2>1 DEF AbsInside, AbsGone, Inside, Call
    <2> QED BY <2>2 DEF AbsInside, AbsGone, Sync!Next, Sync!Call, Thread
<1>2. ASSUME NEW t \in Thread, place'[t] \in {"enters", "waits", "woken", "leaves"},
             place[t] \in {"calls", "enters", "waits", "woken"},
             \A u \in Thread \ {t} : \/ place'[u] = place[u]
                                     \/ place[u] = "waits" /\ place'[u] = "woken"
      PROVE  AbsInside' = AbsInside /\ AbsGone' = AbsGone
    BY <1>2 DEF AbsInside, AbsGone, Inside
<1>3. ASSUME got' = got, AbsInside' = AbsInside, AbsGone' = AbsGone PROVE UNCHANGED Sync!vars
    BY <1>3 DEF AbsInside, AbsGone, Sync!vars
<1>4. ASSUME NEW t \in Thread, Spurious(t) PROVE UNCHANGED Sync!vars
    <2>1. /\ place'[t] = "woken" /\ place[t] = "waits"
          /\ \A u \in Thread \ {t} : place'[u] = place[u]
        BY <1>t, <1>4, GoMoves DEF Spurious
    <2> QED BY <1>4, <2>1, <1>2, <1>3 DEF Spurious
<1>5. ASSUME NEW s \in Sender, SendLocks(s) \/ SendEnters(s) \/ SendWakes(s)
      PROVE UNCHANGED Sync!vars
    <2>1. CASE SendLocks(s)
        <3>1. /\ place'[s] = "enters" /\ place[s] = "calls"
              /\ \A u \in Thread \ {s} : place'[u] = place[u]
            BY <1>t, <2>1, GoMoves DEF SendLocks
        <3> QED BY <1>t, <2>1, <3>1, <1>2, <1>3 DEF SendLocks
    <2>2. CASE SendEnters(s)
        <3>1. /\ place'[s] \in {"waits", "leaves"} /\ place[s] = "enters"
              /\ \A u \in Thread \ {s} : \/ place'[u] = place[u]
                                         \/ place[u] = "waits" /\ place'[u] = "woken"
            BY <1>t, <2>2, NotifyWakes DEF SendEnters
        <3> QED BY <1>t, <2>2, <3>1, <1>2, <1>3 DEF SendEnters
    <2>3. CASE SendWakes(s)
        <3>1. /\ place'[s] \in {"waits", "leaves"} /\ place[s] = "woken"
              /\ \A u \in Thread \ {s} : place'[u] = place[u]
            BY <1>t, <2>3, GoMoves DEF SendWakes
        <3> QED BY <1>t, <2>3, <3>1, <1>2, <1>3 DEF SendWakes
    <2> QED BY <1>5, <2>1, <2>2, <2>3
<1>6. ASSUME NEW t \in Thread, place[t] = "leaves", place' = Go(t, "returned"), got' = got
      PROVE  Sync!Next
    <2>1. /\ place'[t] = "returned" /\ \A u \in Thread \ {t} : place'[u] = place[u]
        BY <1>t, <1>6, GoMoves
    <2>2. AbsInside' = AbsInside \ {t} /\ AbsGone' = AbsGone \cup {t} /\ t \in AbsInside
        BY <1>6, <2>1 DEF AbsInside, AbsGone, Inside
    <2>3. Sync!Met(t)
        BY <1>m, <1>6 DEF SendersMet, ReceiversMet, Thread
    <2> QED BY <1>6, <2>2, <2>3 DEF AbsInside, AbsGone, Sync!Next, Sync!Return, Thread
<1>7. ASSUME NEW r \in Receiver, ReceiveLocks(r) PROVE UNCHANGED Sync!vars
    <2>1. /\ place'[r] = "enters" /\ place[r] = "calls"
          /\ \A u \in Thread \ {r} : place'[u] = place[u]
        BY <1>t, <1>7, GoMoves DEF ReceiveLocks
    <2> QED BY <1>t, <1>7, <2>1, <1>2, <1>3 DEF ReceiveLocks
<1>8. ASSUME NEW r \in Receiver, ReceiveTakes(r), ~message_sent PROVE UNCHANGED Sync!vars
    <2>1. /\ place'[r] = "waits" /\ place[r] \in {"enters", "woken"}
          /\ \A u \in Thread \ {r} : place'[u] = place[u]
        BY <1>t, <1>8, GoMoves DEF ReceiveTakes
    <2> QED BY <1>t, <1>8, <2>1, <1>2, <1>3 DEF ReceiveTakes
<1>9. ASSUME NEW r \in Receiver, ReceiveTakes(r), message_sent PROVE Sync!Next
    <2>1. /\ sent \in Sender /\ message = sent /\ place[sent] \in {"waits", "woken"} /\ ~Taken(sent)
        BY <1>9 DEF FirstFlag, Waits
    <2>2. /\ place[r] \in {"enters", "woken"} /\ got[r] = Nothing
          /\ got' = [got EXCEPT ![r] = sent]
        BY <1>9, <2>1 DEF ReceiveTakes, ReceiversMet
    <2>3. /\ place'[r] = "leaves"
          /\ \A u \in Thread \ {r} : \/ place'[u] = place[u]
                                     \/ place[u] = "waits" /\ place'[u] = "woken"
        BY <1>t, <1>9, <2>2, NotifyWakes DEF ReceiveTakes
    <2>4. AbsInside' = AbsInside /\ AbsGone' = AbsGone
        BY <1>t, <2>2, <2>3, <1>2
    <2>5. sent \in AbsInside /\ r \in AbsInside
        BY <1>t, <2>1, <2>2 DEF AbsInside, Inside
    <2>6. ~Sync!Met(sent) /\ ~Sync!Met(r)
        BY <1>t, <1>m, <2>1, <2>2
    <2>7. Sync!Meet(sent, r)
        BY <2>2, <2>4, <2>5, <2>6 DEF AbsInside, AbsGone, Sync!Meet
    <2> QED BY <2>1, <2>7 DEF Sync!Next
<1>10. ASSUME UNCHANGED channelVars PROVE UNCHANGED Sync!vars
    BY <1>10, <1>3 DEF channelVars, AbsInside, AbsGone, Inside
<1>11. ASSUME NEW s \in Sender, Send(s) PROVE [Sync!Next]_(Sync!vars)
    <2>1. CASE SendReturns(s)
        BY <1>t, <1>6, <2>1 DEF SendReturns
    <2> QED BY <1>5, <1>11, <2>1 DEF Send
<1>12. ASSUME NEW r \in Receiver, Receive(r) PROVE [Sync!Next]_(Sync!vars)
    <2>1. CASE ReceiveReturns(r)
        BY <1>t, <1>6, <2>1 DEF ReceiveReturns
    <2> QED BY <1>7, <1>8, <1>9, <1>12, <2>1 DEF Receive
<1> QED BY <1>1, <1>4, <1>10, <1>11, <1>12 DEF ChannelNext

(* With any number of senders and receivers, every send meets one receive and *)
(* both return only after that (send and receive of Channel.java).            *)
THEOREM ChannelImplements == ChannelSpec => ChannelMeets
<1>1. ChannelInit => Sync!Init
    BY DEF ChannelInit, Sync!Init, Inside
<1>2. ChannelMeets <=> (Sync!Init /\ [][Sync!Next]_(Sync!vars))
    BY DEF ChannelMeets, Sync!Spec
<1> QED BY <1>1, <1>2, ChannelAlways, ChannelSimulates, PTL DEF ChannelSpec

-----------------------------------------------------------------------------
(* Channel.java: what is told is heard.  A sender that waits has left a flag  *)
(* up, and whom a flag is for does not sleep.                                 *)
Flagged == \A s \in Sender : sent = s /\ Waits(s) => message_sent \/ message_received
SenderHears == \A s \in Sender : sent = s /\ message_received => place[s] # "waits"
ReceiverHears == \A r \in Receiver : received = r /\ message_sent => place[r] # "waits"
Heard == Flagged /\ SenderHears /\ ReceiverHears

LEMMA HeardInitial == ChannelInit => Heard
BY ChannelThreads DEF ChannelInit, Heard, Flagged, SenderHears, ReceiverHears

(* If just one thread waits, notify wakes that one.                           *)
LEMMA NotifyWakesTheOne ==
  ASSUME place \in [Thread -> Place], NEW t \in Thread, NEW p \in Place, Notify(Go(t, p)),
         NEW u \in Thread \ {t}, place[u] = "waits", \A v \in Thread : place[v] = "waits" => v = u
  PROVE  place'[u] = "woken"
<1>1. {v \in Thread : place[v] = "waits"} = {u}
    OBVIOUS
<1>2. place' = [Go(t, p) EXCEPT ![u] = "woken"]
    BY <1>1 DEF Notify
<1>3. Go(t, p) \in [Thread -> Place]
    BY DEF Go
<1> QED BY <1>2, <1>3

LEMMA HeardStep ==
  ASSUME ChannelInv, Heard, [ChannelNext]_channelVars
  PROVE  Heard'
<1> USE ChannelThreads DEF Thread
<1>t. /\ place \in [Thread -> Place] /\ Locks /\ FirstFlag /\ SecondFlag
      /\ "outside" \in Place /\ "calls" \in Place /\ "enters" \in Place /\ "waits" \in Place
      /\ "woken" \in Place /\ "leaves" \in Place /\ "returned" \in Place
    BY DEF ChannelInv, ChannelTypeOK, Place
<1>1. ASSUME NEW t \in Thread, Call(t) PROVE Heard'
    <2>1. /\ place'[t] = "calls" /\ place[t] = "outside"
          /\ \A u \in Thread \ {t} : place'[u] = place[u]
        BY <1>t, <1>1, GoMoves DEF Call
    <2> QED BY <1>1, <2>1 DEF Call, Heard, Flagged, SenderHears, ReceiverHears, Waits
<1>2. ASSUME NEW t \in Thread, Spurious(t) PROVE Heard'
    <2>1. /\ place'[t] = "woken" /\ place[t] = "waits"
          /\ \A u \in Thread \ {t} : place'[u] = place[u]
        BY <1>t, <1>2, GoMoves DEF Spurious
    <2> QED BY <1>2, <2>1 DEF Spurious, Heard, Flagged, SenderHears, ReceiverHears, Waits
<1>3. ASSUME NEW s \in Sender, SendLocks(s) PROVE Heard'
    <2>1. /\ place'[s] = "enters" /\ place[s] = "calls"
          /\ \A u \in Thread \ {s} : place'[u] = place[u]
        BY <1>t, <1>3, GoMoves DEF SendLocks
    <2> QED BY <1>3, <2>1 DEF SendLocks, Heard, Flagged, SenderHears, ReceiverHears, Waits
<1>4. ASSUME NEW s \in Sender, SendEnters(s) PROVE Heard'
    <2>1. place[s] = "enters" /\ sent = s /\ ~message_received
        BY <1>4, <1>t DEF SendEnters, Locks, Holds, SecondFlag, Waits
    <2>2. Notify(Go(s, "waits")) /\ message_sent' = TRUE /\ ~message_received' /\ UNCHANGED <<sent, received>>
        BY <1>4, <2>1 DEF SendEnters
    <2>3. ReceiverHears'
        <3> SUFFICES ASSUME NEW r \in Receiver, received = r PROVE place'[r] # "waits"
            BY <2>2 DEF ReceiverHears
        <3>1. r \in Thread \ {s}
            OBVIOUS
        <3>2. CASE place[r] = "waits"
            <4>1. \A v \in Thread : place[v] = "waits" => v = r
                BY <1>t, <2>1 DEF Locks, Holds
            <4>2. place'[r] = "woken"
                BY <1>t, <2>2, <3>1, <3>2, <4>1, NotifyWakesTheOne
            <4> QED BY <4>2
        <3>3. CASE place[r] # "waits"
            BY <1>t, <2>1, <2>2, <3>1, <3>3, NotifyWakes
        <3> QED BY <3>2, <3>3
    <2> QED BY <2>1, <2>2, <2>3 DEF Heard, Flagged, SenderHears
<1>5. ASSUME NEW s \in Sender, SendWakes(s) PROVE Heard'
    <2>1. place[s] = "woken" /\ sent = s
        BY <1>5, <1>t DEF SendWakes, Locks, Holds
    <2>2. CASE message_received
        <3>1. /\ place'[s] = "leaves" /\ \A u \in Thread \ {s} : place'[u] = place[u]
            BY <1>t, <1>5, <2>1, <2>2, GoMoves DEF SendWakes
        <3> QED BY <1>5, <2>1, <2>2, <3>1 DEF SendWakes, ResetReceived, Heard, Flagged, SenderHears,
                   ReceiverHears, Waits
    <2>3. CASE ~message_received
        <3>1. /\ place'[s] = "waits" /\ \A u \in Thread \ {s} : place'[u] = place[u]
            BY <1>t, <1>5, <2>3, GoMoves DEF SendWakes
        <3> QED BY <1>5, <2>1, <2>3, <3>1 DEF SendWakes, Heard, Flagged, SenderHears,
                   ReceiverHears, Waits
    <2> QED BY <2>2, <2>3
<1>6. ASSUME NEW s \in Sender, SendReturns(s) PROVE Heard'
    <2>1. /\ place'[s] = "returned" /\ place[s] = "leaves"
          /\ \A u \in Thread \ {s} : place'[u] = place[u]
        BY <1>t, <1>6, GoMoves DEF SendReturns
    <2> QED BY <1>6, <2>1 DEF SendReturns, Heard, Flagged, SenderHears, ReceiverHears
<1>7. ASSUME NEW r \in Receiver, ReceiveLocks(r) PROVE Heard'
    <2>1. /\ place'[r] = "enters" /\ place[r] = "calls"
          /\ \A u \in Thread \ {r} : place'[u] = place[u]
        BY <1>t, <1>7, GoMoves DEF ReceiveLocks
    <2> QED BY <1>7, <2>1 DEF ReceiveLocks, Heard, Flagged, SenderHears, ReceiverHears, Waits
<1>8. ASSUME NEW r \in Receiver, ReceiveTakes(r) PROVE Heard'
    <2>1. place[r] \in {"enters", "woken"} /\ received = r
        BY <1>8, <1>t DEF ReceiveTakes, Locks, Holds
    <2>2. CASE message_sent
        <3>1. Notify(Go(r, "leaves")) /\ ~message_sent' /\ message_received' /\ UNCHANGED <<sent, received>>
            BY <1>8, <2>2 DEF ReceiveTakes
        <3>2. SenderHears'
            <4> SUFFICES ASSUME NEW s \in Sender, sent = s PROVE place'[s] # "waits"
                BY <3>1 DEF SenderHears
            <4>1. s \in Thread \ {r}
                OBVIOUS
            <4>2. CASE place[s] = "waits"
                <5>1. \A v \in Thread : place[v] = "waits" => v = s
                    BY <1>t, <2>1 DEF Locks, Holds
                <5>2. place'[s] = "woken"
                    BY <1>t, <3>1, <4>1, <4>2, <5>1, NotifyWakesTheOne
                <5> QED BY <5>2
            <4>3. CASE place[s] # "waits"
                BY <1>t, <2>1, <3>1, <4>1, <4>3, NotifyWakes
            <4> QED BY <4>2, <4>3
        <3> QED BY <3>1, <3>2 DEF Heard, Flagged, ReceiverHears
    <2>3. CASE ~message_sent
        <3>1. /\ place'[r] = "waits" /\ \A u \in Thread \ {r} : place'[u] = place[u]
            BY <1>t, <1>8, <2>3, GoMoves DEF ReceiveTakes
        <3> QED BY <1>8, <2>1, <2>3, <3>1 DEF ReceiveTakes, Heard, Flagged, SenderHears,
                   ReceiverHears, Waits
    <2> QED BY <2>2, <2>3
<1>9. ASSUME NEW r \in Receiver, ReceiveReturns(r) PROVE Heard'
    <2>1. /\ place'[r] = "returned" /\ place[r] = "leaves"
          /\ \A u \in Thread \ {r} : place'[u] = place[u]
        BY <1>t, <1>9, GoMoves DEF ReceiveReturns
    <2> QED BY <1>9, <2>1 DEF ReceiveReturns, Heard, Flagged, SenderHears, ReceiverHears, Waits
<1>10. CASE UNCHANGED channelVars
    BY <1>10 DEF channelVars, Heard, Flagged, SenderHears, ReceiverHears, Waits
<1> QED BY <1>1, <1>2, <1>3, <1>4, <1>5, <1>6, <1>7, <1>8, <1>9, <1>10
        DEF ChannelNext, Send, Receive

(* A thread that the virtual machine may run: the guards of Send and Receive. *)
CanGo(t) ==
  \/ place[t] \in {"enters", "woken", "leaves"}
  \/ place[t] = "calls" /\ t \in Sender /\ sent = Nothing
  \/ place[t] = "calls" /\ t \in Receiver /\ received = Nothing

(* No send waits while a receive waits, and where one of each is under way    *)
(* some thread can go on.                                                     *)
NobodyStuck ==
  \A s \in Sender, r \in Receiver :
    /\ ~(place[s] = "waits" /\ place[r] = "waits")
    /\ Inside(s) /\ Inside(r) => \E t \in Thread : CanGo(t)

LEMMA HeardGoes == ChannelInv /\ Heard => NobodyStuck
<1> SUFFICES ASSUME ChannelInv, Heard, NEW s \in Sender, NEW r \in Receiver
             PROVE  /\ ~(place[s] = "waits" /\ place[r] = "waits")
                    /\ Inside(s) /\ Inside(r) => \E t \in Thread : CanGo(t)
    BY DEF NobodyStuck
<1> USE ChannelThreads DEF Thread
<1>1. /\ place \in [Thread -> Place] /\ Locks
      /\ sent \in Sender \cup {Nothing} /\ received \in Receiver \cup {Nothing}
    BY DEF ChannelInv, ChannelTypeOK
<1>2. \A q \in Sender, p \in Receiver : ~(place[q] = "waits" /\ place[p] = "waits")
    <2> SUFFICES ASSUME NEW q \in Sender, NEW p \in Receiver, place[q] = "waits", place[p] = "waits"
                 PROVE  FALSE
        OBVIOUS
    <2>1. sent = q /\ received = p
        BY <1>1 DEF Locks, Holds
    <2> QED BY <2>1 DEF Heard, Flagged, SenderHears, ReceiverHears, Waits
<1>3. ASSUME Inside(s), Inside(r), \A t \in Thread : ~CanGo(t) PROVE FALSE
    <2>1. \A t \in Thread : Inside(t) => place[t] \in {"calls", "waits"}
        BY <1>1, <1>3 DEF CanGo, Inside, Place
    <2>2. sent # Nothing /\ received # Nothing
        BY <1>1, <1>3, <2>1 DEF CanGo, Locks, Holds
    <2>3. Holds(sent) /\ Holds(received) /\ sent \in Sender /\ received \in Receiver
        BY <1>1, <2>2 DEF Locks
    <2>4. place[sent] = "waits" /\ place[received] = "waits"
        BY <2>1, <2>3 DEF Holds, Inside
    <2> QED BY <1>2, <2>3, <2>4
<1> QED BY <1>2, <1>3

(* However many send and receive: the one notify of send and of receive wakes *)
(* the right thread, so that no send and receive are left waiting for each    *)
(* other (Channel.java).                                                      *)
THEOREM ChannelNeverStuck == ChannelSpec => []NobodyStuck
<1>1. ChannelInit => ChannelInv /\ Heard
    BY ChannelInitial, HeardInitial
<1>2. ChannelInv /\ Heard /\ [ChannelNext]_channelVars => (ChannelInv /\ Heard)'
    BY ChannelStep, HeardStep
<1> QED BY <1>1, <1>2, HeardGoes, PTL DEF ChannelSpec

-----------------------------------------------------------------------------
(* SleepingBarber.java for any number of customers and chairs: the types, and *)
(* that no customer misses that he is done.                                   *)

InShop(c) == customer[c] \in {"sits", "waits", "woken"}

(* The barber has a customer only while he shaves him, one who came in and is *)
(* not shaved yet; whoever is on a chair came in, sits there once, and has    *)
(* not been touched.                                                          *)
HasCustomer ==
  /\ shaving \in Customer <=> barber \in {"starts", "shaves"}
  /\ shaving \in Customer => InShop(shaving) /\ shaving \notin shaved
  /\ \A c \in Customer : c \in beingshaved <=> c \in shaved \/ (barber = "shaves" /\ shaving = c)
OnChairs ==
  /\ \A i \in 1..Len(chairs) :
       InShop(chairs[i]) /\ chairs[i] \notin beingshaved /\ chairs[i] # shaving
  /\ \A i, j \in 1..Len(chairs) : chairs[i] = chairs[j] => i = j
ShavedCustomers == \A c \in Customer :
  /\ c \in shaved => customer[c] \in {"woken", "returned"}
  /\ customer[c] = "returned" => c \in shaved

BarberInv == BarberTypeOK /\ HasCustomer /\ OnChairs /\ ShavedCustomers

-----------------------------------------------------------------------------
(* The invariant holds at first, and says that nobody is forgotten.           *)
LEMMA BarberInitial == BarberInit => BarberInv
<1> SUFFICES ASSUME BarberInit PROVE BarberInv
    OBVIOUS
<1>1. BarberTypeOK
    <2>1. chairs \in Seq(Customer)
        BY EmptySeq DEF BarberInit
    <2>2. customer \in [Customer -> {"home", "enters", "sits", "waits", "woken", "left", "returned"}]
        BY DEF BarberInit
    <2> QED BY <2>1, <2>2 DEF BarberInit, BarberTypeOK
<1>2. HasCustomer /\ ShavedCustomers
    BY BarberConstants DEF BarberInit, HasCustomer, ShavedCustomers
<1>3. OnChairs
    BY DEF BarberInit, OnChairs
<1> QED BY <1>1, <1>2, <1>3 DEF BarberInv

LEMMA BarberSays == BarberInv => BarberTells
BY BarberConstants DEF BarberInv, BarberTells, HasCustomer, ShavedCustomers, BarberTypeOK

(* A customer is elsewhere and still in the shop, the rest is as it was.      *)
LEMMA CustomerMoves ==
  ASSUME BarberInv, NEW c \in Customer, NEW p \in {"waits", "woken", "returned"},
         InShop(c), customer' = [customer EXCEPT ![c] = p],
         p = "returned" <=> c \in shaved /\ p # "woken",
         UNCHANGED <<shaving, chairs, beingshaved, shaved, closing, told>>,
         barber' = barber \/ (barber = "sleeps" /\ barber' = "looks")
  PROVE  BarberInv'
<1> USE DEF BarberInv
<1>1. /\ customer' \in [Customer -> {"home", "enters", "sits", "waits", "woken", "left", "returned"}]
      /\ customer'[c] = p /\ \A d \in Customer \ {c} : customer'[d] = customer[d]
    BY DEF BarberTypeOK
<1>2. BarberTypeOK'
    BY <1>1 DEF BarberTypeOK
<1>3. \A d \in Customer : InShop(d) /\ d \notin shaved => InShop(d)'
    BY <1>1 DEF InShop
<1>4. HasCustomer'
    BY <1>3 DEF HasCustomer
<1>5. OnChairs'
    <2>1. \A i \in 1..Len(chairs) : chairs[i] \in Customer /\ chairs[i] \notin shaved
        BY DEF OnChairs, HasCustomer, BarberTypeOK
    <2> QED BY <1>3, <2>1 DEF OnChairs
<1>6. ShavedCustomers'
    BY <1>1 DEF ShavedCustomers
<1> QED BY <1>2, <1>4, <1>5, <1>6

(* Every step keeps it (the threads of SleepingBarber.java).                  *)
LEMMA BarberStep == BarberInv /\ [BarberNext]_barberVars => BarberInv'
<1> SUFFICES ASSUME BarberInv, [BarberNext]_barberVars PROVE BarberInv'
    OBVIOUS
<1> USE BarberConstants DEF BarberInv
<1>t. /\ customer \in [Customer -> {"home", "enters", "sits", "waits", "woken", "left", "returned"}]
      /\ chairs \in Seq(Customer) /\ Nobody \notin Customer
    BY DEF BarberTypeOK
<1>1. ASSUME StartBarber \/ Check \/ NobodyThere \/ Sleep \/ SetFinished PROVE BarberInv'
    <2>1. /\ barber' \in {"checks", "looks", "quit", "dozes", "sleeps"} \/ barber' = barber
          /\ barber \notin {"starts", "shaves"} \/ barber' = barber
          /\ UNCHANGED <<shaving, chairs, customer, beingshaved, shaved, told>> /\ closing' \in BOOLEAN
        BY <1>1 DEF StartBarber, Check, NobodyThere, Sleep, SetFinished, BarberTypeOK
    <2>2. BarberTypeOK'
        BY <2>1 DEF BarberTypeOK
    <2>3. HasCustomer'
        BY <2>1 DEF HasCustomer, InShop
    <2> QED BY <2>1, <2>2, <2>3 DEF OnChairs, ShavedCustomers, InShop
<1>2. ASSUME NEW c \in Customer, SendCustomer(c) PROVE BarberInv'
    <2>1. /\ customer[c] = "home" /\ customer'[c] = "enters"
          /\ \A d \in Customer \ {c} : customer'[d] = customer[d]
        BY <1>t, <1>2 DEF SendCustomer
    <2>2. BarberTypeOK'
        BY <1>2 DEF SendCustomer, BarberTypeOK
    <2>3. \A d \in Customer : InShop(d)' <=> InShop(d)
        BY <2>1 DEF InShop
    <2>4. HasCustomer' /\ ShavedCustomers'
        BY <1>2, <2>1, <2>3 DEF SendCustomer, HasCustomer, ShavedCustomers
    <2>5. OnChairs'
        BY <1>t, <1>2, <2>3 DEF SendCustomer, OnChairs
    <2> QED BY <2>2, <2>4, <2>5
<1>3. ASSUME NEW c \in Customer, Enter(c) PROVE BarberInv'
    <2>1. CASE Len(chairs) < Chairs
        <3>1. /\ customer[c] = "enters" /\ customer'[c] = "sits"
              /\ \A d \in Customer \ {c} : customer'[d] = customer[d]
              /\ chairs' = Append(chairs, c) /\ UNCHANGED <<shaving, beingshaved, shaved>>
            BY <1>t, <1>3, <2>1 DEF Enter
        <3>2. /\ chairs' \in Seq(Customer) /\ Len(chairs') = Len(chairs) + 1
              /\ chairs'[Len(chairs) + 1] = c /\ \A i \in 1..Len(chairs) : chairs'[i] = chairs[i]
              /\ Len(chairs) \in Nat
            BY <1>t, <3>1, AppendProperties
        <3>3. barber' = barber \/ (barber = "sleeps" /\ barber' = "looks")
            BY <1>3, <2>1 DEF Enter, WakeBarber
        <3>4. BarberTypeOK'
            BY <1>3, <2>1, <3>2, <3>3 DEF Enter, BarberTypeOK
        <3>5. \A d \in Customer : InShop(d)' <=> InShop(d) \/ d = c
            BY <3>1 DEF InShop
        <3>6. HasCustomer'
            BY <3>1, <3>3, <3>5 DEF HasCustomer
        <3>7. ~InShop(c) /\ c \notin beingshaved /\ c # shaving
            BY <3>1 DEF InShop, HasCustomer, ShavedCustomers
        <3>8. \A i \in 1..Len(chairs) : chairs[i] \in Customer /\ chairs[i] # c
            BY <1>t, <3>7 DEF OnChairs
        <3>9. \A i \in 1..Len(chairs') :
                (InShop(chairs[i]) /\ chairs[i] \notin beingshaved /\ chairs[i] # shaving)'
            <4> TAKE i \in 1..Len(chairs')
            <4>1. CASE i = Len(chairs) + 1
                BY <3>1, <3>2, <3>7, <4>1 DEF InShop
            <4>2. CASE i \in 1..Len(chairs)
                BY <3>1, <3>2, <3>8, <4>2 DEF OnChairs, InShop
            <4> QED BY <3>2, <4>1, <4>2
        <3>10. \A i, j \in 1..Len(chairs') : chairs'[i] = chairs'[j] => i = j
            BY <3>2, <3>8 DEF OnChairs
        <3>11. ShavedCustomers'
            BY <3>1 DEF ShavedCustomers
        <3> QED BY <3>4, <3>6, <3>9, <3>10, <3>11 DEF OnChairs
    <2>2. CASE ~(Len(chairs) < Chairs)
        <3>1. /\ customer[c] = "enters" /\ customer'[c] = "left"
              /\ \A d \in Customer \ {c} : customer'[d] = customer[d]
              /\ UNCHANGED <<barber, chairs, shaving, beingshaved, shaved, closing, told>>
            BY <1>t, <1>3, <2>2 DEF Enter
        <3>2. BarberTypeOK'
            BY <1>3, <2>2, <3>1 DEF Enter, BarberTypeOK
        <3>3. \A d \in Customer : InShop(d)' <=> InShop(d)
            BY <3>1 DEF InShop
        <3>4. HasCustomer' /\ ShavedCustomers'
            BY <3>1, <3>3 DEF HasCustomer, ShavedCustomers
        <3>5. OnChairs'
            BY <1>t, <3>1, <3>3 DEF OnChairs
        <3> QED BY <3>2, <3>4, <3>5
    <2> QED BY <2>1, <2>2
<1>4. ASSUME NEW c \in Customer, Wait(c) PROVE BarberInv'
    <2> DEFINE p == IF c \in beingshaved \cap shaved THEN "returned" ELSE "waits"
    <2>1. c \in shaved <=> c \in beingshaved \cap shaved
        BY DEF HasCustomer
    <2>2. customer' = [customer EXCEPT ![c] = p] /\ InShop(c)
        BY <1>4 DEF Wait, InShop
    <2>3. p \in {"waits", "woken", "returned"} /\ (p = "returned" <=> c \in shaved /\ p # "woken")
        BY <2>1
    <2>4. UNCHANGED <<shaving, chairs, beingshaved, shaved, closing, told>> /\ barber' = barber
        BY <1>4 DEF Wait
    <2> HIDE DEF p
    <2> QED BY <2>2, <2>3, <2>4, CustomerMoves
<1>5. ASSUME WakesUp PROVE BarberInv'
    <2>1. CASE barber = "sleeps" /\ barber' = "looks" /\ UNCHANGED customer
        <3>1. UNCHANGED <<shaving, chairs, customer, beingshaved, shaved, closing, told>>
            BY <1>5, <2>1 DEF WakesUp
        <3>2. BarberTypeOK'
            BY <2>1, <3>1 DEF BarberTypeOK
        <3>3. HasCustomer'
            BY <2>1, <3>1 DEF HasCustomer, InShop
        <3> QED BY <3>1, <3>2, <3>3 DEF OnChairs, ShavedCustomers, InShop
    <2>2. CASE \E c \in Customer : customer[c] = "waits" /\ UNCHANGED barber
                                   /\ customer' = [customer EXCEPT ![c] = "woken"]
        <3>1. PICK c \in Customer : customer[c] = "waits" /\ UNCHANGED barber
                                    /\ customer' = [customer EXCEPT ![c] = "woken"]
            BY <2>2
        <3>2. InShop(c) /\ UNCHANGED <<shaving, chairs, beingshaved, shaved, closing, told>>
            BY <1>5, <3>1 DEF WakesUp, InShop
        <3> QED BY <3>1, <3>2, CustomerMoves
    <2> QED BY <1>5, <2>1, <2>2 DEF WakesUp
<1>6. ASSUME LookForNext PROVE BarberInv'
    <2>1. CASE chairs = << >>
        <3>1. /\ barber = "looks" /\ barber' = "empty"
              /\ UNCHANGED <<shaving, chairs, customer, beingshaved, shaved, closing, told>>
            BY <1>6, <2>1 DEF LookForNext
        <3>2. BarberTypeOK'
            BY <3>1 DEF BarberTypeOK
        <3>3. HasCustomer'
            BY <3>1 DEF HasCustomer, InShop
        <3> QED BY <3>1, <3>2, <3>3 DEF OnChairs, ShavedCustomers, InShop
    <2>2. CASE chairs # << >>
        <3>1. /\ barber = "looks" /\ barber' = "starts" /\ shaving' = Head(chairs)
              /\ chairs' = Tail(chairs) /\ UNCHANGED <<customer, beingshaved, shaved, closing, told>>
            BY <1>6, <2>2 DEF LookForNext
        <3>2. /\ Len(chairs) \in Nat \ {0} /\ Head(chairs) = chairs[1] /\ chairs[1] \in Customer
              /\ chairs' \in Seq(Customer) /\ Len(chairs') = Len(chairs) - 1
              /\ \A i \in 1..Len(chairs') : chairs'[i] = chairs[i + 1]
            BY <1>t, <2>2, <3>1, HeadTailProperties, EmptySeq
        <3>3. BarberTypeOK'
            BY <3>1, <3>2 DEF BarberTypeOK
        <3>4. InShop(chairs[1]) /\ chairs[1] \notin beingshaved
            BY <3>2 DEF OnChairs
        <3>5. HasCustomer'
            BY <1>t, <3>1, <3>2, <3>4 DEF HasCustomer, InShop
        <3>6. \A i \in 1..Len(chairs') : i + 1 \in 1..Len(chairs) /\ i + 1 # 1
            BY <3>2
        <3>7. OnChairs'
            BY <3>1, <3>2, <3>6 DEF OnChairs, InShop
        <3> QED BY <3>1, <3>3, <3>5, <3>7 DEF ShavedCustomers
    <2> QED BY <2>1, <2>2
<1>7. ASSUME StartShaving PROVE BarberInv'
    <2>1. /\ barber = "starts" /\ barber' = "shaves" /\ shaving \in Customer /\ shaving \notin shaved
          /\ beingshaved' = beingshaved \cup {shaving} /\ customer' = [customer EXCEPT ![shaving] = "woken"]
          /\ UNCHANGED <<shaving, chairs, shaved, closing, told>>
        BY <1>7 DEF StartShaving, WakeCustomer, HasCustomer
    <2>2. BarberTypeOK'
        BY <2>1 DEF BarberTypeOK
    <2>3. customer'[shaving] = "woken" /\ \A d \in Customer \ {shaving} : customer'[d] = customer[d]
        BY <1>t, <2>1
    <2>4. \A d \in Customer : InShop(d) => InShop(d)'
        BY <2>3 DEF InShop
    <2>5. HasCustomer'
        BY <2>1, <2>4 DEF HasCustomer
    <2>6. OnChairs'
        BY <1>t, <2>1, <2>4 DEF OnChairs
    <2> QED BY <2>1, <2>2, <2>3, <2>5, <2>6 DEF ShavedCustomers
<1>8. ASSUME FinishShaving PROVE BarberInv'
    <2>1. /\ barber = "shaves" /\ barber' = "checks" /\ shaving \in Customer /\ shaving' = Nobody
          /\ shaved' = shaved \cup {shaving} /\ customer' = [customer EXCEPT ![shaving] = "woken"]
          /\ UNCHANGED <<chairs, beingshaved, closing, told>>
        BY <1>8 DEF FinishShaving, WakeCustomer, HasCustomer
    <2>2. BarberTypeOK'
        BY <2>1 DEF BarberTypeOK
    <2>3. customer'[shaving] = "woken" /\ \A d \in Customer \ {shaving} : customer'[d] = customer[d]
        BY <1>t, <2>1
    <2>4. \A d \in Customer : InShop(d) => InShop(d)'
        BY <2>3 DEF InShop
    <2>5. HasCustomer'
        BY <1>t, <2>1, <2>4 DEF HasCustomer
    <2>6. OnChairs'
        BY <1>t, <2>1, <2>4 DEF OnChairs
    <2> QED BY <2>1, <2>2, <2>3, <2>5, <2>6 DEF ShavedCustomers
<1>9. CASE UNCHANGED barberVars
    BY <1>9 DEF barberVars, BarberTypeOK, HasCustomer, OnChairs, ShavedCustomers, InShop
<1> QED BY <1>1, <1>2, <1>3, <1>4, <1>5, <1>6, <1>7, <1>8, <1>9
        DEF BarberNext, BarberRuns, CustomerRuns

(* However many come, no customer is left waiting when he is done, and none   *)
(* comes out who sat down and is not shaved (Customer.run, Barber.run).       *)
THEOREM BarberTellsAll == BarberSpec => []BarberTells
BY BarberInitial, BarberStep, BarberSays, PTL DEF BarberSpec

-----------------------------------------------------------------------------
(* SleepingBarber.java: a customer whose notify found the barber asleep is    *)
(* not forgotten.  Until he is shaved he has a chair or is shaved now, and    *)
(* the barber does not turn to sleep.                                         *)
Remembered == \A c \in told :
  \/ c \in shaved \/ barber = "quit"
  \/ shaving = c
  \/ c \in ToSet(chairs) /\ barber \notin {"empty", "dozes", "sleeps"}

LEMMA RememberedStep ==
  ASSUME BarberInv, Remembered, [BarberNext]_barberVars
  PROVE  Remembered'
<1> USE BarberConstants
<1>t. /\ chairs \in Seq(Customer) /\ Nobody \notin Customer /\ told \subseteq Customer
      /\ shaving \in Customer <=> barber \in {"starts", "shaves"}
      /\ shaving \in Customer \cup {Nobody}
    BY DEF BarberInv, BarberTypeOK, HasCustomer
<1>1. CASE StartBarber \/ Check \/ Sleep \/ NobodyThere \/ SetFinished
    BY <1>t, <1>1 DEF StartBarber, Check, Sleep, NobodyThere, SetFinished, Remembered
<1>2. ASSUME NEW c \in Customer, SendCustomer(c) \/ Wait(c) PROVE Remembered'
    BY <1>2 DEF SendCustomer, Wait, Remembered
<1>3. ASSUME NEW c \in Customer, Enter(c) PROVE Remembered'
    <2>1. CASE Len(chairs) < Chairs
        <3>1. /\ chairs' = Append(chairs, c) /\ barber' = WakeBarber /\ UNCHANGED <<shaving, shaved>>
              /\ told' = IF barber = "sleeps" THEN told \cup {c} ELSE told
            BY <1>3, <2>1 DEF Enter
        <3>2. ToSet(chairs') = ToSet(chairs) \cup {c}
            <4>1. Append(chairs, c) \in Seq(Customer) /\ Len(Append(chairs, c)) = Len(chairs) + 1
                BY <1>t, AppendProperties
            <4>2. /\ \A i \in 1..Len(chairs) : Append(chairs, c)[i] = chairs[i]
                  /\ Append(chairs, c)[Len(chairs) + 1] = c
                BY <1>t, AppendProperties
            <4>3. Len(chairs) \in Nat
                BY <1>t
            <4> QED BY <3>1, <4>1, <4>2, <4>3 DEF ToSet
        <3>3. CASE barber = "sleeps"
            BY <1>t, <3>1, <3>2, <3>3 DEF Remembered, WakeBarber
        <3>4. CASE barber # "sleeps"
            BY <3>1, <3>2, <3>4 DEF Remembered, WakeBarber
        <3> QED BY <3>3, <3>4
    <2>2. CASE ~(Len(chairs) < Chairs)
        BY <1>3, <2>2 DEF Enter, Remembered
    <2> QED BY <2>1, <2>2
<1>4. CASE LookForNext
    <2>1. CASE chairs # << >>
        <3>1. /\ barber' = "starts" /\ shaving' = Head(chairs) /\ chairs' = Tail(chairs)
              /\ UNCHANGED <<shaved, told>> /\ barber = "looks"
            BY <1>4, <2>1 DEF LookForNext
        <3>2. \A c \in ToSet(chairs) : c = Head(chairs) \/ c \in ToSet(Tail(chairs))
            <4>0. PICK rest : rest = Tail(chairs)
                OBVIOUS
            <4>1. PICK n \in Nat : n = Len(chairs)
                BY <1>t
            <4>2. /\ Head(chairs) = chairs[1] /\ Len(rest) = n - 1
                  /\ \A k \in 1..(n - 1) : rest[k] = chairs[k + 1]
                BY <1>t, <2>1, <4>0, <4>1, HeadTailProperties
            <4>3. ASSUME NEW i \in 1..n, i # 1 PROVE \E k \in 1..(n - 1) : rest[k] = chairs[i]
                <5>1. i - 1 \in 1..(n - 1) /\ (i - 1) + 1 = i
                    BY <4>3
                <5>2. PICK k \in 1..(n - 1) : k + 1 = i
                    BY <5>1
                <5>3. rest[k] = chairs[i]
                    BY <4>2, <5>2
                <5> QED BY <5>3
            <4>4. ToSet(chairs) = {chairs[i] : i \in 1..n}
                BY <1>t, <4>1 DEF ToSet
            <4>5. ToSet(rest) = {rest[k] : k \in 1..(n - 1)}
                <5>1. rest \in Seq(Customer)
                    BY <1>t, <2>1, <4>0, HeadTailProperties
                <5>2. DOMAIN rest = 1..(n - 1)
                    BY <4>2, <5>1
                <5> QED BY <5>2 DEF ToSet
            <4>6. ASSUME NEW c \in ToSet(chairs) PROVE c = Head(chairs) \/ c \in ToSet(rest)
                <5>1. PICK i \in 1..n : c = chairs[i]
                    BY <4>4
                <5>2. CASE i = 1
                    BY <4>2, <5>1, <5>2
                <5>3. CASE i # 1
                    BY <4>3, <4>5, <5>1, <5>3
                <5> QED BY <5>2, <5>3
            <4> QED BY <4>0, <4>6
        <3> QED BY <1>t, <3>1, <3>2 DEF Remembered
    <2>2. CASE chairs = << >>
        <3>1. ToSet(chairs) = {}
            BY <2>2, EmptySeq DEF ToSet
        <3> QED BY <1>t, <1>4, <2>2, <3>1 DEF LookForNext, Remembered
    <2> QED BY <2>1, <2>2
<1>5. CASE StartShaving
    BY <1>5 DEF StartShaving, Remembered
<1>6. CASE FinishShaving
    BY <1>6 DEF FinishShaving, Remembered
<1>7. CASE WakesUp
    BY <1>7 DEF WakesUp, Remembered
<1>8. CASE UNCHANGED barberVars
    BY <1>8 DEF barberVars, Remembered
<1> QED BY <1>1, <1>2, <1>3, <1>4, <1>5, <1>6, <1>7, <1>8
        DEF BarberNext, BarberRuns, CustomerRuns

(* While such a customer is not shaved the barber is about to look, or he     *)
(* shaves somebody, who lets him have his monitor or is about to.             *)
BarberNeverSleeps == \A c \in told :
  \/ c \in shaved \/ barber \in {"quit", "checks", "looks"}
  \/ barber \in {"starts", "shaves"} /\ (Free(shaving) \/ customer[shaving] = "sits")

LEMMA RememberedGoes ==
  ASSUME BarberInv, Remembered, told # {} => barber # "new"
  PROVE  BarberNeverSleeps
<1>1. barber \in {"new", "checks", "looks", "empty", "dozes", "sleeps", "starts", "shaves", "quit"}
    BY DEF BarberInv, BarberTypeOK
<1>2. shaving \in Customer <=> barber \in {"starts", "shaves"}
    BY DEF BarberInv, HasCustomer
<1>3. shaving \in Customer => Free(shaving) \/ customer[shaving] = "sits"
    BY DEF BarberInv, HasCustomer, InShop, Free
<1>4. told \subseteq Customer
    BY DEF BarberInv, BarberTypeOK
<1> QED BY <1>1, <1>2, <1>3, <1>4 DEF Remembered, BarberNeverSleeps

(* However many customers and chairs: who sits down while the barber sleeps   *)
(* wakes him, and he does not sleep again before that customer is shaved      *)
(* (Customer.run, Barber.run, getNextCustomer).                               *)
THEOREM BarberNeverForgets == BarberSpec => []BarberNeverSleeps
<1> DEFINE Begun == told # {} => barber # "new"
<1>1. BarberInit => BarberInv /\ Remembered /\ Begun
    BY BarberInitial DEF BarberInit, Remembered
<1>2. Begun /\ [BarberNext]_barberVars => Begun'
    BY DEF BarberNext, barberVars, BarberRuns, CustomerRuns, StartBarber, Check, Sleep, NobodyThere,
       SetFinished, SendCustomer, Wait, Enter, WakeBarber, LookForNext, StartShaving, FinishShaving, WakesUp
<1>3. BarberInv /\ Remembered /\ Begun /\ [BarberNext]_barberVars => (BarberInv /\ Remembered /\ Begun)'
    BY <1>2, BarberStep, RememberedStep
<1>4. BarberInv /\ Remembered /\ Begun => BarberNeverSleeps
    BY RememberedGoes
<1> HIDE DEF Begun
<1> QED BY <1>1, <1>3, <1>4, PTL DEF BarberSpec

-----------------------------------------------------------------------------
(* dxargs for any number of workers, any input and any -n: the types, that    *)
(* the tasks are the input in order, and that a worker that quits leaves no   *)
(* task behind.                                                               *)

Task == [last : TaskNo, size : 1..N]
Item == TaskNo \cup {Die}
Reading == main \in {"starts", "reads"}
Consumed == IF tasks = << >> THEN 0 ELSE tasks[Len(tasks)].last

(* The tasks so far: each goes on where the one before it ends, so that the   *)
(* task with number k ends at k at the earliest.                              *)
Chained ==
  \A k \in 1..Len(tasks) :
    /\ tasks[k].last - tasks[k].size = IF k = 1 THEN 0 ELSE tasks[k - 1].last
    /\ k < Len(tasks) => tasks[k].size = N
    /\ Reading => tasks[k].size = N
    /\ tasks[k].last >= k
Accounted == read = Consumed + tokens /\ (~Reading => tokens = 0)
InputInv == Chained /\ Accounted

(* No pill is put before the last task, so that pills have no task behind     *)
(* them and who quits has seen the last task go; a worker that has a task     *)
(* knows which; and no task is lost.                                          *)
PillsLast ==
  /\ Reading => pills = 0
  /\ pills = 0 => \A i \in 1..Len(queue) : queue[i] # Die
  /\ \A w \in Worker : worker[w] = "quit" => pills # 0 /\ \A i \in 1..Len(queue) : queue[i] = Die
  /\ \A i, j \in 1..Len(queue) : i < j /\ queue[i] = Die => queue[j] = Die
Busy(w) == worker[w] \in {"waits", "runs"}
HasTask == \A w \in Worker : Busy(w) => task[w] \in TaskNo
Kept(k) ==
  \/ k \in ran
  \/ \E i \in 1..Len(queue) : queue[i] = k
  \/ \E w \in Worker : task[w] = k /\ (Busy(w) \/ worker[w] = "fatal")
AllKept == \A k \in 1..Len(tasks) : Kept(k)
AllOver == main = "done" => \A w \in Worker : Over(w)
WorkInv == PillsLast /\ HasTask /\ AllKept /\ AllOver

DxInv == DxTypeOK /\ InputInv /\ WorkInv

-----------------------------------------------------------------------------
(* The invariant holds at first, and says what the program promises.          *)
LEMMA DxInitial == DxInit => DxInv
<1> SUFFICES ASSUME DxInit PROVE DxInv
    OBVIOUS
<1>1. tasks = << >> /\ tasks \in Seq(Task) /\ Len(tasks) = 0
    BY EmptySeq DEF DxInit
<1>2. queue \in Seq(Item) /\ Len(queue) = 0
    BY EmptySeq DEF DxInit
<1>3. Cardinality(Worker) \in Nat
    BY DxBounds, FS_CardinalityType
<1>4. DxTypeOK
    BY <1>1, <1>2, <1>3, DxBounds DEF DxInit, DxTypeOK, Task, Item
<1>5. InputInv
    BY <1>1 DEF DxInit, InputInv, Chained, Accounted, Consumed, Reading
<1>6. WorkInv
    BY <1>1, <1>2 DEF DxInit, WorkInv, PillsLast, HasTask, AllKept, AllOver, Busy
<1> QED BY <1>4, <1>5, <1>6 DEF DxInv

LEMMA DxSaysTokens == DxInv => DxTokens
<1> SUFFICES ASSUME DxInv PROVE DxTokens
    OBVIOUS
<1> USE DEF DxInv, InputInv
<1>1. \A k \in 1..Len(tasks) :
        /\ tasks[k].last - tasks[k].size = IF k = 1 THEN 0 ELSE tasks[k - 1].last
        /\ k < Len(tasks) => tasks[k].size = N
    BY DEF Chained
<1>2. tasks \in Seq(Task)
    BY DEF DxTypeOK, Task
<1>3. tasks # << >> => tasks[Len(tasks)] \in Task
    BY <1>2, EmptySeq
<1>4. Consumed \in Nat
    BY <1>3 DEF Consumed, Task, TaskNo
<1>5. ~Reading => read = Consumed
    BY <1>4 DEF Accounted
<1> QED BY <1>1, <1>5 DEF DxTokens, Reading, Consumed

LEMMA DxSaysNothingLeft == DxInv => DxNothingLeft
<1> SUFFICES ASSUME DxInv, NEW v \in Worker, worker[v] = "quit", main = "done",
                    NEW k \in 1..Len(tasks)
             PROVE  k \in ran \/ \E w \in Worker : task[w] = k /\ worker[w] = "fatal"
    BY DEF DxNothingLeft
<1>1. Kept(k) /\ \A w \in Worker : ~Busy(w)
    BY DEF DxInv, WorkInv, AllKept, AllOver, Over, Busy
<1>2. \A i \in 1..Len(queue) : queue[i] # k
    BY DEF DxInv, WorkInv, PillsLast, Die, DxTypeOK
<1> QED BY <1>1, <1>2 DEF Kept

-----------------------------------------------------------------------------
(* A task more than there are is put behind all the others (addtask).         *)
LEMMA TaskPut ==
  ASSUME DxInv, main = "reads", NEW size \in 1..N, size <= tokens, AddTask(size),
         main' \in {"reads", "finishes"}, main' = "reads" => size = N,
         main' = "finishes" => size = tokens,
         UNCHANGED <<read, pills, workVars>>
  PROVE  DxInv'
<1> USE DxBounds DEF DxInv
<1> DEFINE new == [last |-> read - tokens + size, size |-> size]
           n == Len(tasks)
<1>1. /\ tasks \in Seq(Task) /\ queue \in Seq(Item) /\ n \in Nat
      /\ read \in 0..MaxTokens /\ tokens \in 0..MaxTokens
    <2>1. tasks \in Seq(Task) /\ queue \in Seq(Item)
        BY DEF DxTypeOK, Task, Item
    <2>2. n \in Nat
        BY <2>1
    <2> QED BY <2>1, <2>2 DEF DxTypeOK
<1>2. read = Consumed + tokens /\ Consumed \in Nat /\ (n # 0 => Consumed = tasks[n].last)
      /\ (n = 0 => Consumed = 0) /\ Consumed >= n
    <2>1. read = Consumed + tokens
        BY DEF InputInv, Accounted
    <2>2. CASE tasks = << >>
        BY <2>1, <2>2, <1>1, EmptySeq DEF Consumed
    <2>3. CASE tasks # << >>
        <3>1. n \in Nat \ {0} /\ n \in 1..n
            BY <1>1, <2>3, EmptySeq
        <3>2. tasks[n].last \in TaskNo /\ tasks[n].last >= n
            <4>1. tasks[n] \in Task
                BY <1>1, <3>1
            <4> QED BY <3>1, <4>1 DEF InputInv, Chained, Task
        <3> QED BY <2>1, <2>3, <3>1, <3>2 DEF Consumed, TaskNo
    <2> QED BY <2>2, <2>3
<1>3. /\ new \in Task /\ new.last = Consumed + size /\ n + 1 \in TaskNo
    <2>1. PICK c \in Nat, l \in Nat : c = Consumed /\ l = n
        BY <1>1, <1>2
    <2>2. size \in 1..N /\ size \in Nat /\ size >= 1 /\ size <= tokens
        OBVIOUS
    <2>3. read - tokens + size = c + size /\ c + size \in 1..MaxTokens /\ l + 1 \in 1..MaxTokens
        BY <1>1, <1>2, <2>1, <2>2
    <2> QED BY <2>1, <2>2, <2>3 DEF Task, TaskNo
<1>4. /\ tasks' \in Seq(Task) /\ Len(tasks') = n + 1 /\ tasks'[n + 1] = new
      /\ \A k \in 1..n : tasks'[k] = tasks[k]
    BY <1>1, <1>3, AppendProperties DEF AddTask
<1>5. /\ queue' \in Seq(Item) /\ Len(queue') = Len(queue) + 1 /\ queue'[Len(queue) + 1] = n + 1
      /\ \A i \in 1..Len(queue) : queue'[i] = queue[i]
      /\ Len(queue) \in Nat
    BY <1>1, <1>3, AppendProperties DEF AddTask, Put, Item
<1>6. DxTypeOK'
    <2>1. tokens' \in 0..MaxTokens
        BY <1>1 DEF AddTask
    <2>2. main' \in {"starts", "reads", "finishes", "joins", "done"}
        OBVIOUS
    <2> QED BY <1>4, <1>5, <2>1, <2>2 DEF DxTypeOK, Task, Item, workVars
<1>7. InputInv'
    <2>1. \A k \in 1..n : tasks[k].size = N
        BY DEF InputInv, Chained, Reading
    <2>2. ASSUME NEW k \in 1..n + 1
          PROVE /\ tasks'[k].last - tasks'[k].size = IF k = 1 THEN 0 ELSE tasks'[k - 1].last
                /\ k < n + 1 => tasks'[k].size = N
                /\ Reading' => tasks'[k].size = N
                /\ tasks'[k].last >= k
        <3>1. CASE k = n + 1
            <4>1. tasks'[k].last = Consumed + size /\ tasks'[k].size = size
                BY <1>3, <1>4, <3>1
            <4>2. k # 1 => tasks'[k - 1].last = Consumed
                BY <1>1, <1>2, <1>4, <3>1
            <4>3. k = 1 => Consumed = 0
                BY <1>1, <1>2, <3>1
            <4>4. Reading' => size = N
                BY DEF Reading
            <4>5. /\ size \in Nat \ {0} /\ (Consumed + size) - size = Consumed
                  /\ Consumed + size >= n + 1 /\ ~(k < n + 1)
                BY <1>1, <1>2, <3>1
            <4> QED BY <3>1, <4>1, <4>2, <4>3, <4>4, <4>5
        <3>2. CASE k \in 1..n
            <4>1. tasks'[k] = tasks[k] /\ (k # 1 => tasks'[k - 1] = tasks[k - 1])
                <5>1. k \in Nat /\ (k # 1 => k - 1 \in 1..n)
                    BY <1>1, <3>2
                <5> QED BY <1>4, <3>2, <5>1
            <4> QED BY <2>1, <3>2, <4>1 DEF InputInv, Chained
        <3> QED BY <1>1, <3>1, <3>2
    <2>3. Chained'
        BY <1>4, <2>2 DEF Chained
    <2>4. Consumed' = Consumed + size
        BY <1>1, <1>3, <1>4, EmptySeq DEF Consumed
    <2>5. Accounted'
        BY <1>1, <1>2, <2>4 DEF Accounted, AddTask, Reading
    <2> QED BY <2>3, <2>5 DEF InputInv
<1>8. WorkInv'
    <2>1. pills = 0 /\ \A w \in Worker : worker[w] # "quit"
        BY DEF WorkInv, PillsLast, Reading
    <2>2. \A i \in 1..Len(queue') : queue'[i] # Die
        BY <1>1, <1>5, <2>1 DEF WorkInv, PillsLast, Die
    <2>3. PillsLast'
        BY <2>1, <2>2 DEF PillsLast, workVars
    <2>4. HasTask' /\ AllOver'
        BY DEF WorkInv, HasTask, AllOver, Busy, workVars
    <2>5. ASSUME NEW k \in 1..n + 1 PROVE Kept(k)'
        <3>1. CASE k = n + 1
            BY <1>5, <3>1 DEF Kept
        <3>2. CASE k \in 1..n
            BY <1>5, <3>2 DEF WorkInv, AllKept, Kept, Busy, workVars
        <3> QED BY <1>1, <3>1, <3>2
    <2> QED BY <1>4, <2>3, <2>4, <2>5 DEF WorkInv, AllKept
<1> QED BY <1>6, <1>7, <1>8

(* A worker goes on with what it has; the queue and the tasks stay.           *)
LEMMA WorkerMoves ==
  ASSUME DxInv, NEW w \in Worker, worker[w] # "quit", ~Over(w),
         NEW p \in {"gets", "waits", "runs", "refused", "fatal"},
         worker' = [worker EXCEPT ![w] = p],
         Busy(w) => p \in {"waits", "runs", "fatal"} \/ task[w] \in ran',
         p \in {"waits", "runs"} => Busy(w),
         ran \subseteq ran', DxTypeOK', UNCHANGED <<mainVars, queue, task>>
  PROVE  DxInv'
<1> USE DEF DxInv
<1>1. worker'[w] = p /\ \A v \in Worker \ {w} : worker'[v] = worker[v]
    BY DEF DxTypeOK
<1>2. InputInv'
    BY DEF InputInv, Chained, Accounted, Consumed, Reading, mainVars
<1>3. PillsLast'
    BY <1>1 DEF WorkInv, PillsLast, Reading, mainVars
<1>4. HasTask' /\ AllOver'
    BY <1>1 DEF WorkInv, HasTask, AllOver, Over, Busy, mainVars
<1>5. ASSUME NEW k \in 1..Len(tasks) PROVE Kept(k)'
    <2>1. Kept(k)
        BY DEF WorkInv, AllKept
    <2>2. CASE task[w] = k /\ Busy(w)
        BY <1>1, <2>2 DEF Kept, Busy
    <2>3. CASE \E v \in Worker \ {w} : task[v] = k /\ (Busy(v) \/ worker[v] = "fatal")
        BY <1>1, <2>3 DEF Kept, Busy
    <2>4. CASE k \in ran \/ \E i \in 1..Len(queue) : queue[i] = k
        BY <2>4 DEF Kept
    <2> QED BY <2>1, <2>2, <2>3, <2>4 DEF Kept, Over
<1> QED BY <1>2, <1>3, <1>4, <1>5 DEF WorkInv, AllKept, mainVars

(* A worker takes the first of the queue.                                     *)
LEMMA WorkerGets ==
  ASSUME DxInv, NEW w \in Worker, Get(w)
  PROVE  DxInv'
<1> USE DxBounds DEF DxInv
<1>1. /\ queue \in Seq(Item) /\ queue # << >> /\ worker[w] = "gets"
      /\ worker \in [Worker -> {"none", "new", "gets", "waits", "runs", "quit", "refused", "fatal"}]
      /\ task \in [Worker -> TaskNo \cup {0}]
    BY DEF DxTypeOK, Item, Get
<1>2. /\ queue' \in Seq(Item) /\ Len(queue) \in Nat \ {0} /\ Len(queue') = Len(queue) - 1
      /\ Head(queue) = queue[1] /\ queue[1] \in Item
      /\ \A i \in 1..Len(queue') : i + 1 \in 1..Len(queue) /\ queue'[i] = queue[i + 1]
    <2>1. queue' = Tail(queue)
        BY DEF Get
    <2>2. Len(queue) \in Nat \ {0} /\ Head(queue) = queue[1] /\ Head(queue) \in Item
        BY <1>1, EmptySeq, HeadTailProperties
    <2>3. /\ queue' \in Seq(Item) /\ Len(queue') = Len(queue) - 1
          /\ \A i \in 1..Len(queue') : queue'[i] = queue[i + 1]
        BY <1>1, <2>1, HeadTailProperties
    <2> QED BY <2>2, <2>3
<1>3. \A k : (\E i \in 1..Len(queue) : queue[i] = k)
               => k = queue[1] \/ \E i \in 1..Len(queue') : queue'[i] = k
    <2> SUFFICES ASSUME NEW k, NEW i \in 1..Len(queue), queue[i] = k, i # 1
                 PROVE  \E j \in 1..Len(queue') : queue'[j] = k
        OBVIOUS
    <2>1. i - 1 \in 1..Len(queue') /\ (i - 1) + 1 = i
        BY <1>2
    <2> QED BY <1>2, <2>1
<1>4. InputInv'
    BY DEF Get, InputInv, Chained, Accounted, Consumed, Reading, mainVars
<1>5. \A v \in Worker \ {w} : worker'[v] = worker[v] /\ task'[v] = task[v]
    BY <1>1 DEF Get, End
<1>6. PillsLast'
    <2>1. (pills = 0 => \A i \in 1..Len(queue') : queue'[i] # Die)
        BY <1>2 DEF WorkInv, PillsLast
    <2>2. \A i, j \in 1..Len(queue') : i < j /\ queue'[i] = Die => queue'[j] = Die
        <3> SUFFICES ASSUME NEW i \in 1..Len(queue'), NEW j \in 1..Len(queue'), i < j, queue'[i] = Die
                     PROVE  queue'[j] = Die
            OBVIOUS
        <3>1. i + 1 < j + 1
            OBVIOUS
        <3> QED BY <1>2, <3>1 DEF WorkInv, PillsLast
    <2>3. ASSUME NEW v \in Worker, worker'[v] = "quit"
          PROVE  pills # 0 /\ \A i \in 1..Len(queue') : queue'[i] = Die
        <3>1. CASE v = w
            <4>1. queue[1] = Die
                BY <1>1, <1>2, <2>3, <3>1 DEF Get
            <4>2. \A i \in 1..Len(queue') : i + 1 > 1
                BY <1>2
            <4> QED BY <1>2, <4>1, <4>2 DEF WorkInv, PillsLast
        <3>2. CASE v # w
            BY <1>2, <1>5, <2>3, <3>2 DEF WorkInv, PillsLast
        <3> QED BY <3>1, <3>2
    <2> QED BY <2>1, <2>2, <2>3 DEF WorkInv, PillsLast, Reading, Get, mainVars
<1>7. main' = main /\ tasks' = tasks /\ ran' = ran /\ ~Over(w)
    BY <1>1 DEF Get, mainVars, Over
<1>8. CASE Head(queue) = Die
    <2>1. /\ worker' = [worker EXCEPT ![w] = "quit"] /\ socket' = [socket EXCEPT ![w] = "none"]
          /\ UNCHANGED <<task, tries, master, ran, others, main, read, tokens, tasks, pills>>
        BY <1>8 DEF Get, End, mainVars
    <2>2. worker'[w] = "quit"
        BY <1>1, <2>1
    <2>3. DxTypeOK'
        BY <1>2, <2>1 DEF DxTypeOK, Item
    <2>4. HasTask' /\ AllOver'
        BY <1>5, <1>7, <2>1, <2>2 DEF WorkInv, HasTask, AllOver, Busy, Over
    <2>5. ASSUME NEW k \in 1..Len(tasks) PROVE Kept(k)'
        <3>1. Kept(k) /\ k # queue[1]
            BY <1>2, <1>8 DEF WorkInv, AllKept, Die
        <3> QED BY <1>1, <1>3, <1>5, <1>7, <3>1 DEF Kept, Busy
    <2> QED BY <1>4, <1>6, <1>7, <2>3, <2>4, <2>5 DEF WorkInv, AllKept
<1>9. CASE Head(queue) # Die
    <2>1. /\ worker' = [worker EXCEPT ![w] = "waits"] /\ task' = [task EXCEPT ![w] = Head(queue)]
          /\ tries' = [tries EXCEPT ![w] = Tries] /\ master' = master \cup {w}
          /\ UNCHANGED <<socket, ran, others, main, read, tokens, tasks, pills>>
        BY <1>9 DEF Get, mainVars
    <2>2. worker'[w] = "waits" /\ task'[w] = queue[1] /\ queue[1] \in TaskNo
        BY <1>1, <1>2, <1>9, <2>1 DEF Item
    <2>3. DxTypeOK'
        <3>1. tries' \in [Worker -> 0..Tries]
            BY <2>1 DEF DxTypeOK
        <3>2. worker' \in [Worker -> {"none", "new", "gets", "waits", "runs", "quit", "refused", "fatal"}]
            BY <1>1, <2>1
        <3>3. task' \in [Worker -> TaskNo \cup {0}]
            BY <1>1, <1>2, <2>1, <2>2
        <3> QED BY <1>2, <2>1, <3>1, <3>2, <3>3 DEF DxTypeOK, Item
    <2>4. HasTask' /\ AllOver'
        BY <1>5, <1>7, <2>1, <2>2 DEF WorkInv, HasTask, AllOver, Busy, Over
    <2>5. ASSUME NEW k \in 1..Len(tasks) PROVE Kept(k)'
        <3>1. Kept(k)
            BY DEF WorkInv, AllKept
        <3>2. CASE k = queue[1]
            BY <2>2, <3>2 DEF Kept, Busy
        <3> QED BY <1>1, <1>3, <1>5, <1>7, <3>1, <3>2 DEF Kept, Busy
    <2> QED BY <1>4, <1>6, <1>7, <2>3, <2>4, <2>5 DEF WorkInv, AllKept
<1> QED BY <1>8, <1>9

-----------------------------------------------------------------------------
(* Every step keeps it (main, finish and real_run of dxargs.py).              *)
LEMMA DxStep == DxInv /\ [DxNext]_dxVars => DxInv'
<1> SUFFICES ASSUME DxInv, [DxNext]_dxVars PROVE DxInv'
    OBVIOUS
<1> USE DxBounds DEF DxInv
<1>t. /\ worker \in [Worker -> {"none", "new", "gets", "waits", "runs", "quit", "refused", "fatal"}]
      /\ task \in [Worker -> TaskNo \cup {0}] /\ queue \in Seq(Item)
      /\ read \in 0..MaxTokens /\ tokens \in 0..MaxTokens
    BY DEF DxTypeOK, Item
<1>1. ASSUME NEW w \in Worker, StartPool(w) PROVE DxInv'
    <2>1. /\ worker[w] = "none" /\ worker'[w] = "new"
          /\ \A v \in Worker \ {w} : worker'[v] = worker[v]
          /\ main = "starts" /\ main' \in {"starts", "reads"}
        BY <1>t, <1>1 DEF StartPool
    <2>2. DxTypeOK'
        BY <1>t, <1>1, <2>1 DEF StartPool, DxTypeOK
    <2>3. InputInv'
        BY <1>1, <2>1 DEF StartPool, InputInv, Chained, Accounted, Consumed, Reading
    <2>4. PillsLast' /\ HasTask' /\ AllOver'
        BY <1>1, <2>1 DEF StartPool, WorkInv, PillsLast, HasTask, AllOver, Reading, Busy
    <2>5. AllKept'
        BY <1>1, <2>1 DEF StartPool, WorkInv, AllKept, Kept, Busy
    <2> QED BY <2>2, <2>3, <2>4, <2>5 DEF WorkInv
<1>2. ASSUME ReadLine PROVE DxInv'
    <2>1. PICK more \in 0..(MaxTokens - read) : read' = read + more /\ tokens' = tokens + more
        BY <1>2 DEF ReadLine
    <2>2. UNCHANGED <<main, tasks, queue, pills, worker, task, tries, master, socket, ran, others>>
          /\ main = "reads"
        BY <1>2 DEF ReadLine, workVars
    <2>3. Consumed \in Nat /\ read = Consumed + tokens
        <3>1. tasks \in Seq(Task)
            BY DEF DxTypeOK, Task
        <3>2. tasks # << >> => tasks[Len(tasks)] \in Task
            BY <3>1, EmptySeq
        <3> QED BY <3>2 DEF Consumed, Task, TaskNo, InputInv, Accounted
    <2>4. read' \in 0..MaxTokens /\ tokens' \in 0..MaxTokens
        BY <1>t, <2>1, <2>3
    <2>5. DxTypeOK'
        BY <2>2, <2>4 DEF DxTypeOK
    <2>6. InputInv'
        <3>1. Consumed' = Consumed
            BY <2>2 DEF Consumed
        <3>2. Accounted'
            BY <1>t, <2>1, <2>2, <2>3, <3>1 DEF Accounted, Reading
        <3> QED BY <2>2, <3>2 DEF InputInv, Chained, Reading
    <2> QED BY <2>2, <2>5, <2>6 DEF WorkInv, PillsLast, HasTask, AllKept, AllOver, Kept, Busy,
               Over, Reading
<1>3. ASSUME Cut PROVE DxInv'
    <2>1. N \in 1..N /\ N <= tokens
        BY <1>t, <1>3 DEF Cut, Enough
    <2> QED BY <1>3, <2>1, TaskPut DEF Cut
<1>4. ASSUME EndOfInput PROVE DxInv'
    <2>1. CASE tokens > 0
        <3>1. tokens < N /\ tokens \in 1..N
            BY <1>t, <1>4, <2>1 DEF EndOfInput, Enough
        <3>2. AddTask(tokens) /\ main = "reads" /\ main' = "finishes" /\ UNCHANGED <<read, pills, workVars>>
            BY <1>4, <2>1, <3>1 DEF EndOfInput, Leftover
        <3>3. tokens <= tokens
            BY <1>t
        <3> QED BY <3>1, <3>2, <3>3, TaskPut
    <2>2. CASE ~(tokens > 0)
        <3>1. /\ main = "reads" /\ main' = "finishes" /\ tokens = 0
              /\ UNCHANGED <<read, tokens, tasks, queue, pills, worker, task, tries, master,
                             socket, ran, others>>
            BY <1>t, <1>4, <2>2 DEF EndOfInput, Leftover, workVars
        <3>2. DxTypeOK'
            BY <3>1 DEF DxTypeOK
        <3>3. InputInv'
            BY <3>1 DEF InputInv, Chained, Accounted, Consumed, Reading
        <3> QED BY <3>1, <3>2, <3>3 DEF WorkInv, PillsLast, HasTask, AllKept, AllOver, Kept, Busy,
                   Over, Reading
    <2> QED BY <2>1, <2>2
<1>5. ASSUME Pill PROVE DxInv'
    <2>1. /\ main = "finishes" /\ pills < Cardinality(Worker) /\ pills' = pills + 1
          /\ queue' = Append(queue, Die)
          /\ UNCHANGED <<main, read, tokens, tasks, worker, task, tries, master, socket, ran, others>>
        BY <1>5 DEF Pill, MorePills, Put, workVars
    <2>2. /\ queue' \in Seq(Item) /\ Len(queue) \in Nat /\ Len(queue') = Len(queue) + 1
          /\ queue'[Len(queue) + 1] = Die /\ \A i \in 1..Len(queue) : queue'[i] = queue[i]
        BY <1>t, <2>1, AppendProperties DEF Item
    <2>3. Cardinality(Worker) \in Nat /\ pills \in Nat
        BY FS_CardinalityType DEF DxTypeOK
    <2>4. pills' \in 0..Cardinality(Worker) /\ pills' # 0
        BY <2>1, <2>3
    <2>5. DxTypeOK'
        BY <2>1, <2>2, <2>4 DEF DxTypeOK, Item
    <2>6. InputInv'
        BY <2>1 DEF InputInv, Chained, Accounted, Consumed, Reading
    <2>7. PillsLast'
        <3>1. \A i, j \in 1..Len(queue') : i < j /\ queue'[i] = Die => queue'[j] = Die
            <4> SUFFICES ASSUME NEW i \in 1..Len(queue'), NEW j \in 1..Len(queue'), i < j,
                                queue'[i] = Die
                         PROVE  queue'[j] = Die
                OBVIOUS
            <4>1. CASE j = Len(queue) + 1
                BY <2>2, <4>1
            <4>2. CASE j # Len(queue) + 1
                <5>1. i \in 1..Len(queue) /\ j \in 1..Len(queue)
                    BY <2>2, <4>2
                <5> QED BY <2>2, <5>1 DEF WorkInv, PillsLast
            <4> QED BY <4>1, <4>2
        <3>2. ASSUME NEW w \in Worker, worker'[w] = "quit", NEW i \in 1..Len(queue')
              PROVE  queue'[i] = Die
            <4>1. i \in 1..Len(queue) \/ i = Len(queue) + 1
                BY <2>2
            <4> QED BY <2>1, <2>2, <3>2, <4>1 DEF WorkInv, PillsLast
        <3> QED BY <2>1, <2>4, <3>1, <3>2 DEF PillsLast, Reading
    <2>8. HasTask' /\ AllOver'
        BY <2>1 DEF WorkInv, HasTask, AllOver, Busy, Over
    <2>9. AllKept'
        <3>1. \A i \in 1..Len(queue) : i \in 1..Len(queue')
            BY <2>2
        <3> QED BY <2>1, <2>2, <3>1 DEF WorkInv, AllKept, Kept, Busy
    <2> QED BY <2>5, <2>6, <2>7, <2>8, <2>9 DEF WorkInv
<1>6. ASSUME Join \/ Joined PROVE DxInv'
    <2>1. /\ ~Reading /\ ~Reading' /\ main' \in {"joins", "done"}
          /\ main' = "done" => \A w \in Worker : Over(w)
          /\ UNCHANGED <<read, tokens, tasks, queue, pills, worker, task, tries, master, socket,
                         ran, others>>
        BY <1>6 DEF Join, Joined, Reading, workVars
    <2>2. DxTypeOK'
        BY <2>1 DEF DxTypeOK
    <2>3. InputInv'
        BY <2>1 DEF InputInv, Chained, Accounted, Consumed
    <2> QED BY <2>1, <2>2, <2>3 DEF WorkInv, PillsLast, HasTask, AllKept, AllOver, Kept, Busy, Over
<1>7. ASSUME NEW w \in Worker, Start(w) PROVE DxInv'
    <2>1. PICK p \in {"gets", "refused"} : worker' = [worker EXCEPT ![w] = p]
        BY <1>7 DEF Start, End
    <2>2. DxTypeOK'
        BY <1>t, <1>7, <2>1 DEF Start, End, DxTypeOK, mainVars
    <2>3. worker[w] = "new" /\ UNCHANGED <<mainVars, queue, task, ran>>
        BY <1>7 DEF Start
    <2> QED BY <2>1, <2>2, <2>3, WorkerMoves DEF Over, Busy
<1>8. ASSUME NEW w \in Worker, Look(w) PROVE DxInv'
    <2>1. PICK p \in {"waits", "runs", "fatal"} : worker' = [worker EXCEPT ![w] = p]
        BY <1>t, <1>8 DEF Look, End
    <2>2. tries' \in [Worker -> 0..Tries]
        BY <1>8 DEF Look, DxTypeOK
    <2>3. socket' \in [Worker -> {"none", "ours", "theirs"}]
        BY <1>8 DEF Look, End, DxTypeOK
    <2>4. worker[w] = "waits" /\ UNCHANGED <<mainVars, queue, task, master, ran, others>>
        BY <1>8 DEF Look
    <2>5. DxTypeOK'
        BY <1>t, <2>1, <2>2, <2>3, <2>4 DEF DxTypeOK, mainVars
    <2> QED BY <2>1, <2>4, <2>5, WorkerMoves DEF Over, Busy
<1>9. ASSUME NEW w \in Worker, Run(w) PROVE DxInv'
    <2>1. PICK p \in {"gets", "fatal"} : worker' = [worker EXCEPT ![w] = p]
        BY <1>9 DEF Run, End
    <2>2. /\ worker[w] = "runs" /\ ran' = ran \cup {task[w]} /\ task[w] \in TaskNo
          /\ UNCHANGED <<mainVars, queue, task, tries, master, others>>
        BY <1>9 DEF Run, WorkInv, HasTask, Busy
    <2>3. DxTypeOK'
        BY <1>t, <1>9, <2>1, <2>2 DEF Run, End, DxTypeOK, mainVars
    <2> QED BY <2>1, <2>2, <2>3, WorkerMoves DEF Over, Busy
<1>10. ASSUME NEW w \in Worker, Connect(w) \/ Disconnect(w) \/ Other(w) PROVE DxInv'
    <2>1. UNCHANGED <<main, read, tokens, tasks, pills, queue, worker, task, tries, master, ran>>
        BY <1>10 DEF Connect, Disconnect, Other, mainVars
    <2>2. socket' \in [Worker -> {"none", "ours", "theirs"}] /\ others' \in 0..MaxOthers
        <3>1. /\ socket \in [Worker -> {"none", "ours", "theirs"}]
              /\ others \in 0..MaxOthers /\ MaxOthers \in Nat
            BY DEF DxTypeOK
        <3>2. CASE Connect(w)
            BY <3>1, <3>2 DEF Connect
        <3>3. CASE Disconnect(w)
            BY <3>1, <3>3 DEF Disconnect
        <3>4. CASE Other(w)
            BY <3>1, <3>4 DEF Other
        <3> QED BY <1>10, <3>2, <3>3, <3>4
    <2>3. DxTypeOK'
        BY <2>1, <2>2 DEF DxTypeOK
    <2>4. InputInv'
        BY <2>1 DEF InputInv, Chained, Accounted, Consumed, Reading
    <2> QED BY <2>1, <2>3, <2>4 DEF WorkInv, PillsLast, HasTask, AllKept, AllOver, Kept, Busy,
               Over, Reading
<1>11. CASE UNCHANGED dxVars
    <2>1. DxTypeOK'
        BY <1>11 DEF dxVars, DxTypeOK
    <2>2. InputInv'
        BY <1>11 DEF dxVars, InputInv, Chained, Accounted, Consumed, Reading
    <2> QED BY <1>11, <2>1, <2>2 DEF dxVars, WorkInv, PillsLast, HasTask, AllKept, AllOver, Kept,
               Busy, Over, Reading
<1> QED BY <1>1, <1>2, <1>3, <1>4, <1>5, <1>6, <1>7, <1>8, <1>9, <1>10, <1>11, WorkerGets
        DEF DxNext, MainThread, WorkerThread

(* It always holds.                                                           *)
LEMMA DxAlways == DxSpec => []DxInv
BY DxInitial, DxStep, PTL DEF DxSpec

(* For any input and any -n, the tasks are the input, in order, all of the    *)
(* size asked for but the last (main of dxargs.py).                           *)
THEOREM DxTokensAll == DxSpec => []DxTokens
BY DxAlways, DxSaysTokens, PTL

(* With any number of workers, a task that never ran is lost only with its    *)
(* worker, or when no worker quits: the pills are behind every task (finish   *)
(* and real_run of dxargs.py).                                                *)
THEOREM DxNothingLeftAll == DxSpec => []DxNothingLeft
BY DxAlways, DxSaysNothingLeft, PTL

-----------------------------------------------------------------------------
(* dxargs: as many pills are in the queue, behind all tasks, as finish put    *)
(* there and no worker took; main waits for the workers only when there was   *)
(* one for each.                                                              *)
Quitters == {w \in Worker : worker[w] = "quit"}
PillsBehind(p) ==
  /\ p <= Len(queue)
  /\ \A i \in 1..Len(queue) : queue[i] = Die <=> i > Len(queue) - p
Counted == \E p \in Nat : p + Cardinality(Quitters) = pills /\ PillsBehind(p)
PoolUp ==
  /\ main # "starts" => \A w \in Worker : worker[w] # "none"
  /\ main \in {"joins", "done"} => pills = Cardinality(Worker)

LEMMA QuittersStay ==
  ASSUME UNCHANGED <<queue, pills>>, Counted, Quitters' = Quitters
  PROVE  Counted'
BY DEF Counted, PillsBehind

(* A task or a pill more, at the end.                                         *)
LEMMA BehindGrows ==
  ASSUME DxInv, NEW item \in Item, queue' = Append(queue, item), NEW p \in Nat, PillsBehind(p),
         NEW q \in Nat, item = Die => q = p + 1, item # Die => q = 0 /\ p = 0
  PROVE  PillsBehind(q)'
<1> PICK n \in Nat : n = Len(queue)
    BY DEF DxInv, DxTypeOK
<1>1. /\ Len(queue') = n + 1 /\ queue'[n + 1] = item
      /\ \A i \in 1..n : queue'[i] = queue[i]
    BY AppendProperties DEF DxInv, DxTypeOK, Item
<1>2. p <= n /\ \A i \in 1..n : queue[i] = Die <=> i > n - p
    BY DEF PillsBehind
<1>3. ASSUME NEW i \in 1..(n + 1) PROVE queue'[i] = Die <=> i > (n + 1) - q
    <2>1. CASE i = n + 1
        BY <1>1, <1>2, <2>1
    <2>2. CASE i \in 1..n
        <3>1. queue'[i] = Die <=> i > n - p
            BY <1>1, <1>2, <2>2
        <3> QED BY <2>2, <3>1
    <2> QED BY <2>1, <2>2
<1>4. q <= n + 1
    BY <1>2
<1> QED BY <1>1, <1>3, <1>4 DEF PillsBehind

(* The first of the queue is taken: a task, or a pill when pills are all.     *)
LEMMA BehindShrinks ==
  ASSUME DxInv, queue # << >>, queue' = Tail(queue), NEW p \in Nat, PillsBehind(p)
  PROVE  /\ Head(queue) = Die => p # 0 /\ \A q \in Nat : p = q + 1 => PillsBehind(q)'
         /\ Head(queue) # Die => PillsBehind(p)'
<1> PICK n \in Nat : n = Len(queue)
    BY DEF DxInv, DxTypeOK
<1>1. /\ n # 0 /\ Head(queue) = queue[1] /\ Len(queue') = n - 1
      /\ \A i \in 1..(n - 1) : queue'[i] = queue[i + 1]
    <2>1. queue \in Seq(Item)
        BY DEF DxInv, DxTypeOK, Item
    <2>2. n # 0
        BY <2>1, EmptySeq
    <2>3. Head(queue) = queue[1] /\ Len(queue') = n - 1
        BY <2>1, HeadTailProperties
    <2>4. \A i \in 1..Len(Tail(queue)) : Tail(queue)[i] = queue[i + 1]
        BY <2>1, HeadTailProperties
    <2> QED BY <2>2, <2>3, <2>4
<1>2. p <= n /\ \A i \in 1..n : queue[i] = Die <=> i > n - p
    BY DEF PillsBehind
<1>3. ASSUME NEW i \in 1..(n - 1) PROVE queue'[i] = Die <=> i + 1 > n - p
    <2>1. i + 1 \in 1..n
        OBVIOUS
    <2> QED BY <1>1, <1>2, <2>1
<1>4. queue[1] = Die <=> 1 > n - p
    BY <1>1, <1>2
<1>5. ASSUME queue[1] = Die PROVE p # 0 /\ \A q \in Nat : p = q + 1 => PillsBehind(q)'
    <2>1. p = n
        BY <1>2, <1>4, <1>5
    <2>2. ASSUME NEW q \in Nat, p = q + 1 PROVE PillsBehind(q)'
        <3>1. q <= n - 1
            BY <2>1, <2>2
        <3>2. ASSUME NEW i \in 1..(n - 1) PROVE queue'[i] = Die <=> i > (n - 1) - q
            <4>1. queue'[i] = Die
                BY <1>3, <2>1
            <4>2. (n - 1) - q = 0 /\ i > 0
                BY <2>1, <2>2
            <4> QED BY <4>1, <4>2
        <3> QED BY <1>1, <3>1, <3>2 DEF PillsBehind
    <2> QED BY <1>1, <2>1, <2>2
<1>6. ASSUME queue[1] # Die PROVE PillsBehind(p)'
    <2>1. p <= n - 1
        BY <1>2, <1>4, <1>6
    <2>2. ASSUME NEW i \in 1..(n - 1) PROVE queue'[i] = Die <=> i > (n - 1) - p
        BY <1>3
    <2> QED BY <1>1, <2>1, <2>2 DEF PillsBehind
<1> QED BY <1>1, <1>5, <1>6

LEMMA CountedInitial == DxInit => Counted /\ PoolUp
<1> SUFFICES ASSUME DxInit PROVE Counted /\ PoolUp
    OBVIOUS
<1>1. Quitters = {}
    BY DEF DxInit, Quitters
<1>2. Len(queue) = 0
    BY EmptySeq DEF DxInit
<1>3. PillsBehind(0)
    BY <1>2 DEF PillsBehind
<1>4. 0 + Cardinality(Quitters) = pills
    BY <1>1, FS_EmptySet DEF DxInit
<1>5. Counted
    BY <1>3, <1>4 DEF Counted
<1> QED BY <1>5 DEF DxInit, PoolUp

LEMMA CountedStep ==
  ASSUME DxInv, Counted, PoolUp, [DxNext]_dxVars
  PROVE  Counted' /\ PoolUp'
<1> USE DxBounds
<1>t. /\ worker \in [Worker -> {"none", "new", "gets", "waits", "runs", "quit", "refused", "fatal"}]
      /\ pills \in 0..Cardinality(Worker) /\ Cardinality(Worker) \in Nat /\ tasks \in Seq(Task)
      /\ main \in {"starts", "reads", "finishes", "joins", "done"}
    BY FS_CardinalityType DEF DxInv, DxTypeOK, Task
<1>q. Cardinality(Quitters) \in Nat /\ IsFiniteSet(Quitters)
    <2>1. Quitters \subseteq Worker
        BY DEF Quitters
    <2>2. IsFiniteSet(Quitters)
        BY <2>1, FS_Subset
    <2> QED BY <2>2, FS_CardinalityType
<1>1. ASSUME NEW w \in Worker, StartPool(w) PROVE Counted' /\ PoolUp'
    <2>1. /\ worker'[w] = "new" /\ worker[w] = "none" /\ main = "starts"
          /\ \A v \in Worker \ {w} : worker'[v] = worker[v]
          /\ UNCHANGED <<queue, pills>>
          /\ main' = IF \A v \in Worker \ {w} : worker[v] # "none" THEN "reads" ELSE "starts"
        BY <1>t, <1>1 DEF StartPool
    <2>2. Quitters' = Quitters
        BY <2>1 DEF Quitters
    <2>3. PoolUp'
        BY <2>1 DEF PoolUp
    <2> QED BY <2>1, <2>2, <2>3, QuittersStay
<1>2. CASE ReadLine \/ Joined
    <2>1. Quitters' = Quitters /\ UNCHANGED <<queue, pills, worker>>
        BY <1>2 DEF ReadLine, Joined, workVars, Quitters
    <2>2. PoolUp'
        BY <1>2, <2>1 DEF ReadLine, Joined, PoolUp
    <2> QED BY <2>1, <2>2, QuittersStay
<1>3. CASE Join
    <2>1. Quitters' = Quitters /\ UNCHANGED <<queue, pills, worker>>
        BY <1>3 DEF Join, workVars, Quitters
    <2>2. PoolUp'
        BY <1>t, <1>3, <2>1 DEF Join, MorePills, PoolUp
    <2> QED BY <2>1, <2>2, QuittersStay
<1>4. CASE Cut \/ EndOfInput
    <2>1. pills = 0 /\ UNCHANGED <<pills, worker>> /\ main = "reads" /\ main' \in {"reads", "finishes"}
        BY <1>4 DEF Cut, EndOfInput, workVars, DxInv, WorkInv, PillsLast, Reading
    <2>2. PoolUp'
        BY <2>1 DEF PoolUp
    <2>3. Quitters' = Quitters
        BY <2>1 DEF Quitters
    <2>4. PICK p \in Nat : p + Cardinality(Quitters) = pills /\ PillsBehind(p)
        BY DEF Counted
    <2>5. p = 0
        BY <1>q, <2>1, <2>4
    <2>6. UNCHANGED queue \/ queue' = Append(queue, Len(tasks) + 1)
        BY <1>4 DEF Cut, EndOfInput, AddTask, Put
    <2>7. CASE UNCHANGED queue
        BY <2>1, <2>2, <2>3, <2>7, QuittersStay
    <2>8. CASE queue' = Append(queue, Len(tasks) + 1)
        <3>1. Len(tasks) + 1 \in Item /\ Len(tasks) + 1 # Die
            <4>1. Len(tasks) \in Nat
                BY <1>t
            <4>2. DxInv'
                BY DxStep
            <4>3. queue' \in Seq(Item) /\ Len(queue) \in Nat
                BY <4>2 DEF DxInv, DxTypeOK, Item
            <4>4. Len(queue') = Len(queue) + 1 /\ queue'[Len(queue) + 1] = Len(tasks) + 1
                BY <2>8, <4>3 DEF DxInv, DxTypeOK
            <4>5. queue'[Len(queue) + 1] \in Item
                BY <4>3, <4>4
            <4> QED BY <4>1, <4>4, <4>5 DEF Die
        <3>2. PillsBehind(p)'
            BY <2>4, <2>5, <2>8, <3>1, BehindGrows
        <3>3. (p + Cardinality(Quitters) = pills)'
            BY <2>1, <2>3, <2>4
        <3> QED BY <2>2, <3>2, <3>3 DEF Counted
    <2> QED BY <2>6, <2>7, <2>8
<1>5. CASE Pill
    <2>1. /\ queue' = Append(queue, Die) /\ pills' = pills + 1 /\ UNCHANGED <<main, worker>>
          /\ main = "finishes"
        BY <1>5 DEF Pill, Put, workVars, mainVars
    <2>2. Quitters' = Quitters /\ PoolUp'
        BY <2>1 DEF Quitters, PoolUp
    <2>3. PICK p \in Nat : p + Cardinality(Quitters) = pills /\ PillsBehind(p)
        BY DEF Counted
    <2>4. PICK q \in Nat : q = p + 1
        OBVIOUS
    <2>5. PillsBehind(q)'
        <3>1. Die \in Item
            BY DEF Item
        <3> QED BY <2>1, <2>3, <2>4, <3>1, BehindGrows
    <2>6. (q + Cardinality(Quitters) = pills)'
        BY <1>q, <2>1, <2>2, <2>3, <2>4
    <2> QED BY <2>2, <2>5, <2>6 DEF Counted
<1>6. ASSUME NEW w \in Worker, Start(w) \/ Look(w) \/ Run(w) PROVE Counted' /\ PoolUp'
    <2>1. /\ UNCHANGED <<queue, pills, main>> /\ worker[w] # "quit"
          /\ worker'[w] \notin {"none", "quit"} /\ \A v \in Worker \ {w} : worker'[v] = worker[v]
        BY <1>t, <1>6 DEF Start, Look, Run, End, mainVars, DxInv, DxTypeOK
    <2>2. Quitters' = Quitters
        BY <2>1 DEF Quitters
    <2>3. PoolUp'
        BY <2>1 DEF PoolUp
    <2> QED BY <2>1, <2>2, <2>3, QuittersStay
<1>7. ASSUME NEW w \in Worker, Get(w) PROVE Counted' /\ PoolUp'
    <2>1. /\ queue' = Tail(queue) /\ queue # << >> /\ UNCHANGED <<pills, main>> /\ worker[w] = "gets"
          /\ worker' = [worker EXCEPT ![w] = IF Head(queue) = Die THEN "quit" ELSE "waits"]
        BY <1>7 DEF Get, End, mainVars
    <2>2. /\ worker'[w] = IF Head(queue) = Die THEN "quit" ELSE "waits"
          /\ \A v \in Worker \ {w} : worker'[v] = worker[v]
        BY <1>t, <2>1
    <2>3. PoolUp'
        BY <2>1, <2>2 DEF PoolUp
    <2>4. PICK p \in Nat : p + Cardinality(Quitters) = pills /\ PillsBehind(p)
        BY DEF Counted
    <2>5. CASE Head(queue) = Die
        <3>1. Quitters' = Quitters \cup {w} /\ w \notin Quitters
            BY <2>1, <2>2, <2>5 DEF Quitters
        <3>2. Cardinality(Quitters \cup {w}) = Cardinality(Quitters) + 1
            BY <1>q, <3>1, FS_AddElement
        <3>3. p # 0 /\ \A q \in Nat : p = q + 1 => PillsBehind(q)'
            BY <2>1, <2>4, <2>5, BehindShrinks
        <3>4. PICK q \in Nat : p = q + 1
            <4>1. p - 1 \in Nat /\ p = (p - 1) + 1
                BY <3>3
            <4> QED BY <4>1
        <3>5. Cardinality(Quitters') = Cardinality(Quitters) + 1
            BY <3>1, <3>2
        <3>6. q + Cardinality(Quitters') = pills
            BY <1>q, <2>4, <3>4, <3>5
        <3>7. PillsBehind(q)'
            BY <3>3, <3>4
        <3> QED BY <2>1, <2>3, <3>6, <3>7 DEF Counted
    <2>6. CASE Head(queue) # Die
        <3>1. Quitters' = Quitters
            BY <2>1, <2>2, <2>6 DEF Quitters
        <3>2. PillsBehind(p)'
            BY <2>1, <2>4, <2>6, BehindShrinks
        <3> QED BY <2>1, <2>3, <2>4, <3>1, <3>2 DEF Counted
    <2> QED BY <2>5, <2>6
<1>8. CASE \E w \in Worker : Connect(w) \/ Disconnect(w) \/ Other(w)
    <2>1. UNCHANGED <<queue, pills, main, worker>>
        BY <1>8 DEF Connect, Disconnect, Other, mainVars
    <2>2. Quitters' = Quitters /\ PoolUp'
        BY <2>1 DEF Quitters, PoolUp
    <2> QED BY <2>1, <2>2, QuittersStay
<1>9. CASE UNCHANGED dxVars
    <2>1. UNCHANGED <<queue, pills, main, worker>>
        BY <1>9 DEF dxVars
    <2>2. Quitters' = Quitters /\ PoolUp'
        BY <2>1 DEF Quitters, PoolUp
    <2> QED BY <2>1, <2>2, QuittersStay
<1> QED BY <1>1, <1>2, <1>3, <1>4, <1>5, <1>6, <1>7, <1>8, <1>9 DEF DxNext, MainThread, WorkerThread

(* Of the workers that main waits for none waits itself: it is over, or at    *)
(* work, or has something to get.                                             *)
WorkersGo ==
  main = "joins" => \A w \in Worker :
    Over(w) \/ worker[w] \in {"new", "waits", "runs"} \/ (worker[w] = "gets" /\ queue # << >>)

LEMMA CountedGoes == DxInv /\ Counted /\ PoolUp => WorkersGo
<1> SUFFICES ASSUME DxInv, Counted, PoolUp, main = "joins", NEW w \in Worker
             PROVE  Over(w) \/ worker[w] \in {"new", "waits", "runs"} \/ (worker[w] = "gets" /\ queue # << >>)
    BY DEF WorkersGo
<1>a. worker[w] \in {"new", "gets", "waits", "runs", "quit", "refused", "fatal"}
    <2>1. worker[w] \in {"none", "new", "gets", "waits", "runs", "quit", "refused", "fatal"}
        BY DEF DxInv, DxTypeOK
    <2>2. worker[w] # "none"
        BY DEF PoolUp
    <2> QED BY <2>1, <2>2
<1> SUFFICES ASSUME worker[w] = "gets" PROVE queue # << >>
    BY <1>a DEF Over
<1>1. Quitters \subseteq Worker /\ Quitters # Worker
    BY DEF Quitters
<1>2. Cardinality(Quitters) < Cardinality(Worker) /\ Cardinality(Quitters) \in Nat /\ Cardinality(Worker) \in Nat
    BY <1>1, DxBounds, FS_Subset, FS_CardinalityType
<1>3. PICK p \in Nat : p + Cardinality(Quitters) = pills /\ PillsBehind(p)
    BY DEF Counted
<1>4. pills = Cardinality(Worker)
    BY DEF PoolUp
<1>5. p > 0
    BY <1>2, <1>3, <1>4
<1>6. Len(queue) # 0
    BY <1>3, <1>5 DEF PillsBehind
<1> QED BY <1>6, EmptySeq

(* Whichever workers fail, and whenever: finish puts a pill for every worker  *)
(* and none takes two, so main never joins a worker that waits for ever       *)
(* (finish of ThreadPool, real_run of SSHWorker).                             *)
THEOREM DxWorkersGo == DxSpec => []WorkersGo
<1>1. DxInit => DxInv /\ Counted /\ PoolUp
    BY DxInitial, CountedInitial
<1>2. DxInv /\ Counted /\ PoolUp /\ [DxNext]_dxVars => (DxInv /\ Counted /\ PoolUp)'
    BY DxStep, CountedStep
<1> QED BY <1>1, <1>2, CountedGoes, PTL DEF DxSpec

-----------------------------------------------------------------------------
(* FancyDB for any rules, rows, times and bounds.                            *)

Pending == notifications \cup taken \cup Windows(tell["writer"]) \cup Windows(tell["evaluator"])
Entry(w, t) == <<t, data[<<w.rule.source, t>>]>>

(* The result of a window is there, and computed from what the window has.   *)
Aggregated(w) ==
  /\ <<w.rule.target, w.end>> \in DOMAIN data
  /\ {e \in data[<<w.rule.target, w.end>>].is : e[1] # w.end} = {Entry(w, t) : t \in Times(w)}

(* A window that no float touched and no exception forgot, and of which       *)
(* nobody is still to be told.                                                *)
Settled(w) == Untouched(w) /\ w \notin lost /\ w \notin Pending

(* The rules of the session are the saved ones; one rule makes a row.        *)
RulesKept ==
  /\ saved \in Seq(Rule) /\ rules \in Seq(Rule) /\ ToSet(rules) = ToSet(saved)
  /\ \A p, q \in ToSet(saved) : p.target = q.target => p = q

Shape(w) ==
  /\ w.start \in Nat /\ w.end \in Nat /\ w.float \in BOOLEAN
  /\ w.end = w.start + w.rule.steps * Second
  /\ w = [rule |-> w.rule, start |-> w.start, end |-> w.end, float |-> w.float]

(* A window is owed since its source row got a value in it, unless the time   *)
(* of that was a float.                                                       *)
OwedWindows ==
  \A w \in owed :
    /\ w.rule \in ToSet(saved) /\ ByTime(w.rule) /\ Shape(w)
    /\ ~w.float => \E t \in Times(w) : w = Window(w.rule, [micro |-> t, float |-> FALSE])

(* Where the two threads are, and what is empty then.                        *)
Threads ==
  /\ DOMAIN tell = {"writer", "evaluator"}
  /\ writer # "tells" => tell["writer"] = {}
  /\ evaluator # "tells" => tell["evaluator"] = {}
  /\ evaluator \in {"off", "raised", "takes", "waits"} => taken = {}
  /\ evaluator = "off" =>
       notifications = {} /\ writer \in {"closing", "finishes", "joins", "closed"}
  /\ evaluator = "raised" => notifications \subseteq lost
  /\ writer = "closed" => ~IsAlive
  /\ finish => writer \in {"closing", "finishes", "joins", "closed"}
  /\ last => finish /\ evaluator = "runs" /\ notifications = {} /\ taken = {}

Evaluating == evaluator \in {"reads", "writes"}

(* What the evaluator has seen of a settled window is what the window has,   *)
(* from the cursor on.                                                       *)
SeenIsRight ==
  Evaluating =>
    /\ window \in owed
    /\ evaluator = "writes" => cursor = 0
    /\ Settled(window) =>
         /\ \A t \in Times(window) : t >= cursor => Entry(window, t) \in seen
         /\ \A e \in seen :
              e[1] # window.end => e[1] \in Times(window) /\ e = Entry(window, e[1])

(* A settled window that is not evaluated has its result.                    *)
NothingForgotten ==
  \A w \in owed : Settled(w) /\ Clear(w) => (Evaluating /\ w = window) \/ Aggregated(w)

FancyInv ==
  /\ FancyTypeOK /\ RulesKept /\ OwedWindows /\ Threads /\ SeenIsRight /\ NothingForgotten

-----------------------------------------------------------------------------
(* A non-empty set of naturals has a least one, and, when it is bounded, a   *)
(* greatest one.                                                             *)
LEMMA LeastOf ==
  ASSUME NEW S, S \subseteq Nat, S # {}
  PROVE  \E m \in S : \A n \in S : m <= n
<1>1. PICK m \in S : \A n \in S : ~ (<<n, m>> \in OpToRel(<, Nat))
  BY NatLessThanWellFounded, WFMin, Zenon
<1>2. \A n \in S : ~ (n < m)
  <2> HIDE <1>1
  <2>1. SUFFICES ASSUME NEW n \in S, n < m PROVE FALSE
    OBVIOUS
  <2>2. <<n, m>> \in OpToRel(<, Nat)
    BY <2>1 DEF OpToRel
  <2> QED BY <1>1, <2>2
<1>3. \A n \in S : m <= n
  BY <1>2
<1> QED BY <1>3

LEMMA MaxOf ==
  ASSUME NEW S, S \subseteq Nat, S # {}, NEW b \in Nat, \A n \in S : n <= b
  PROVE  Max(S) \in S /\ \A n \in S : n <= Max(S)
<1> DEFINE T == {b - n : n \in S}
<1>1. T \subseteq Nat /\ T # {}
  <2>1. \A n \in S : b - n \in Nat
    OBVIOUS
  <2>2. T \subseteq Nat
    BY <2>1
  <2>3. PICK n \in S : TRUE
    OBVIOUS
  <2>4. b - n \in T
    BY <2>3
  <2> QED BY <2>2, <2>4
<1>2. PICK m \in T : \A n \in T : m <= n
  BY <1>1, LeastOf
<1>3. PICK x \in S : m = b - x
  OBVIOUS
<1>4. \A n \in S : x >= n
  <2> SUFFICES ASSUME NEW n \in S PROVE x >= n
    OBVIOUS
  <2>1. m <= b - n
    BY <1>2
  <2> QED BY <1>3, <2>1
<1>5. Max(S) \in S /\ \A n \in S : Max(S) >= n
  BY <1>4 DEF Max
<1> QED BY <1>5

(* Two multiples of n that are less than n apart are one.                    *)
LEMMA MultipleOnce ==
  ASSUME NEW a \in Int, NEW b \in Int, NEW n \in Nat \ {0}, n * a < n * b + n, n * b < n * a + n
  PROVE  a = b
<1>1. ASSUME a > b PROVE FALSE
  <2>1. n * (a - b) >= n
    BY <1>1
  <2> QED BY <2>1
<1>2. ASSUME b > a PROVE FALSE
  <2>1. n * (b - a) >= n
    BY <1>2
  <2> QED BY <2>1
<1> QED BY <1>1, <1>2

(* The window of a time holds it, and is the window of all it holds.         *)
LEMMA WindowHolds ==
  ASSUME NEW r \in Rule, NEW t, t.micro \in Nat, t.float \in BOOLEAN
  PROVE  LET w == Window(r, t) IN
           /\ w.rule = r /\ w.float = t.float /\ Shape(w) /\ NumberOf(t) \in Nat
           /\ w.start <= NumberOf(t) /\ NumberOf(t) < w.end
           /\ \A u : /\ NumberOf(u) \in Nat /\ u.float = t.float
                     /\ w.start <= NumberOf(u) /\ NumberOf(u) < w.end
                     => Window(r, u) = w
<1>1. r.steps \in Nat \ {0} /\ Second \in Nat \ {0}
  BY FancyConstants
<1>2. NumberOf(t) \in Nat
  <2>1. PICK s \in Nat \ {0} : s = Second
    BY <1>1
  <2>2. t.micro \div s \in Nat
    OBVIOUS
  <2> QED BY <2>1, <2>2 DEF NumberOf
<1>3. r.steps * Second \in Nat \ {0}
  <2>1. PICK a \in Nat \ {0}, b \in Nat \ {0} : a = r.steps /\ b = Second
    BY <1>1
  <2>2. a * b \in Nat
    OBVIOUS
  <2>3. a * b >= a
    OBVIOUS
  <2> QED BY <2>1, <2>2, <2>3
<1> PICK n \in Nat \ {0} : n = r.steps * Second
  BY <1>3
<1> PICK x \in Nat : x = NumberOf(t)
  BY <1>2
<1>4. \A u \in Nat : u % n \in 0..(n - 1) /\ u \div n \in Nat /\ u = n * (u \div n) + (u % n)
  OBVIOUS
<1>5. ASSUME NEW u \in Nat, x - (x % n) <= u, u < x - (x % n) + n
      PROVE  u - (u % n) = x - (x % n)
  <2>1. /\ x % n \in 0..(n - 1) /\ x \div n \in Nat /\ x = n * (x \div n) + (x % n)
        /\ u % n \in 0..(n - 1) /\ u \div n \in Nat /\ u = n * (u \div n) + (u % n)
    BY <1>4
  <2>2. PICK a \in Nat, b \in Nat, c \in 0..(n - 1), d \in 0..(n - 1) :
          a = x \div n /\ b = u \div n /\ c = x % n /\ d = u % n
    BY <2>1
  <2>3. x = n * a + c /\ u = n * b + d
    BY <2>1, <2>2
  <2>4. n * a <= u /\ u < n * a + n
    BY <1>5, <2>2, <2>3
  <2>5. n * a < n * b + n /\ n * b < n * a + n
    BY <2>3, <2>4
  <2>6. a = b
    BY <2>5, MultipleOnce
  <2> QED BY <2>2, <2>3, <2>6
<1>6. x - (x % n) \in Nat /\ x - (x % n) <= x /\ x < x - (x % n) + n
  <2>1. x % n \in 0..(n - 1) /\ x \div n \in Nat /\ x = n * (x \div n) + (x % n)
    BY <1>4
  <2>2. PICK d \in Nat, c \in 0..(n - 1) : d = x \div n /\ c = x % n
    BY <2>1
  <2>3. x = n * d + c
    BY <2>1, <2>2
  <2>4. n * d \in Nat
    OBVIOUS
  <2>5. PICK a \in Nat : a = n * d
    BY <2>4
  <2>6. x = a + c
    BY <2>3, <2>5
  <2>7. x - c \in Nat /\ x - c <= x /\ x < x - c + n
    BY <2>6
  <2> QED BY <2>2, <2>7
<1> PICK m \in Nat : m = x - (x % n)
  BY <1>6
<1>7. Window(r, t) = [rule |-> r, start |-> m, end |-> m + n, float |-> t.float]
  BY DEF Window
<1>8. ASSUME NEW u, NumberOf(u) \in Nat, u.float = t.float, m <= NumberOf(u), NumberOf(u) < m + n
      PROVE  Window(r, u) = Window(r, t)
  <2>1. NumberOf(u) - (NumberOf(u) % n) = m
    BY <1>5, <1>8
  <2>2. Window(r, u) = [rule |-> r, start |-> m, end |-> m + n, float |-> u.float]
    BY <2>1 DEF Window
  <2> QED BY <1>7, <1>8, <2>2
<1> QED BY <1>6, <1>7, <1>8 DEF Shape

-----------------------------------------------------------------------------
(* The windows of a row at a time are those of the rules on it, by time.     *)
LEMMA Listening ==
  ASSUME RulesKept, NEW row, NEW t
  PROVE  /\ \A w \in Windows(Listeners(row, t)) :
              /\ w.rule \in ToSet(saved) /\ w.rule \in Rule /\ w.rule.source = row
              /\ ByTime(w.rule) /\ w = Window(w.rule, t)
         /\ \A r \in ToSet(saved) :
              r.source = row /\ ByTime(r) => Window(r, t) \in Windows(Listeners(row, t))
<1>1. /\ rules \in Seq(Rule) /\ ToSet(rules) = ToSet(saved)
      /\ \A i \in DOMAIN rules : rules[i] \in Rule /\ rules[i] \in ToSet(rules)
  <2>1. rules \in Seq(Rule) /\ ToSet(rules) = ToSet(saved)
    BY DEF RulesKept
  <2>2. \A i \in DOMAIN rules : rules[i] \in ToSet(rules)
    BY DEF ToSet
  <2>3. DOMAIN rules = 1..Len(rules) /\ \A i \in 1..Len(rules) : rules[i] \in Rule
    BY <2>1
  <2> QED BY <2>1, <2>2, <2>3
<1>2. ASSUME NEW w \in Windows(Listeners(row, t))
      PROVE  /\ w.rule \in ToSet(saved) /\ w.rule \in Rule /\ w.rule.source = row
             /\ ByTime(w.rule) /\ w = Window(w.rule, t)
  <2>1. PICK i \in DOMAIN rules : rules[i].source = row /\ w = Window(rules[i], t) /\ ByTime(w.rule)
    BY <1>2 DEF Listeners, Windows
  <2>2. w.rule = rules[i]
    BY <2>1 DEF Window
  <2> QED BY <1>1, <2>1, <2>2
<1>3. ASSUME NEW r \in ToSet(saved), r.source = row, ByTime(r)
      PROVE  Window(r, t) \in Windows(Listeners(row, t))
  <2>1. PICK i \in DOMAIN rules : rules[i] = r
    BY <1>1 DEF ToSet
  <2>2. [place |-> i, window |-> Window(rules[i], t)] \in Listeners(row, t)
    BY <1>3, <2>1 DEF Listeners
  <2>3. Window(r, t) \in {l.window : l \in Listeners(row, t)}
    BY <2>1, <2>2
  <2>4. Window(r, t).rule = r
    BY DEF Window
  <2> QED BY <1>3, <2>3, <2>4 DEF Windows
<1> QED BY <1>2, <1>3

(* A window that is owed is that of each of its times.                       *)
LEMMA OwedIs ==
  ASSUME RulesKept, OwedWindows, NEW w \in owed
  PROVE  /\ w.rule \in Rule /\ w.rule \in ToSet(saved) /\ ByTime(w.rule) /\ Shape(w)
         /\ ~w.float => Times(w) # {}
         /\ \A u \in w.start..(w.end - 1) : u \in Nat /\ w.start <= u /\ u < w.end
         /\ \A t : ~w.float /\ t.float = FALSE /\ t.micro \in w.start..(w.end - 1)
                     => w = Window(w.rule, t)
<1>1. w.rule \in ToSet(saved) /\ w.rule \in Rule /\ ByTime(w.rule) /\ Shape(w)
  BY DEF OwedWindows, RulesKept, ToSet
<1>2. \A u \in w.start..(w.end - 1) : u \in Nat /\ w.start <= u /\ u < w.end
  BY <1>1 DEF Shape
<1>3. ASSUME ~w.float
      PROVE  /\ Times(w) # {}
             /\ \A t : t.float = FALSE /\ t.micro \in w.start..(w.end - 1) => w = Window(w.rule, t)
  <2>1. PICK u \in Times(w) : w = Window(w.rule, [micro |-> u, float |-> FALSE])
    BY <1>3 DEF OwedWindows
  <2>2. u \in Nat
    BY <1>2, <2>1 DEF Times
  <2>3. ASSUME NEW t, t.float = FALSE, t.micro \in w.start..(w.end - 1)
        PROVE  w = Window(w.rule, t)
    <3>1. NumberOf(t) = t.micro
      BY <2>3 DEF NumberOf
    <3>2. NumberOf(t) \in Nat /\ w.start <= NumberOf(t) /\ NumberOf(t) < w.end
      BY <1>2, <2>3, <3>1
    <3> DEFINE at == [micro |-> u, float |-> FALSE]
    <3>3. at.micro \in Nat /\ at.float = FALSE /\ at.float \in BOOLEAN /\ w = Window(w.rule, at)
      BY <2>1, <2>2
    <3> HIDE DEF at
    <3>4. \A v : /\ NumberOf(v) \in Nat /\ v.float = at.float
                 /\ Window(w.rule, at).start <= NumberOf(v) /\ NumberOf(v) < Window(w.rule, at).end
                 => Window(w.rule, v) = Window(w.rule, at)
      BY <1>1, <3>3, WindowHolds
    <3>5. \A v : /\ NumberOf(v) \in Nat /\ v.float = FALSE
                 /\ w.start <= NumberOf(v) /\ NumberOf(v) < w.end
                 => Window(w.rule, v) = w
      BY <3>3, <3>4
    <3> QED BY <2>3, <3>2, <3>5
  <2> QED BY <2>1, <2>3
<1> QED BY <1>1, <1>2, <1>3

(* What a record stored at a key leaves as it is, for the windows settled then. *)
SettledKept(key) ==
  \A w \in owed' : Settled(w)' =>
    /\ w \in owed /\ Settled(w)
    /\ Times(w)' = Times(w) /\ \A u \in Times(w) : Entry(w, u)' = Entry(w, u)
    /\ <<w.rule.target, w.end>> # key =>
         (Clear(w)' => Clear(w)) /\ (Aggregated(w) => Aggregated(w)')

(* A record is stored: every window it lies in is told again, unless its time *)
(* is a float, and the others have what they had.                             *)
LEMMA StoreKeeps ==
  ASSUME FancyInv, NEW who \in {"writer", "evaluator"}, NEW row \in Row, NEW t,
         t.micro \in Nat, t.float \in BOOLEAN, NEW value, NEW text,
         StoreRow(who, row, t, value, text), tell[who] = {},
         UNCHANGED <<saved, rules, notifications, taken, lost>>
  PROVE  /\ owed \subseteq owed' /\ OwedWindows' /\ RulesKept'
         /\ \A at \in DOMAIN data' : at \in Row \X Nat
         /\ <<row, t.micro>> \in DOMAIN data'
         /\ data'[<<row, t.micro>>] = [is |-> value, text |-> text, float |-> t.float]
         /\ DOMAIN tell' = {"writer", "evaluator"}
         /\ \A other \in {"writer", "evaluator"} : other # who => tell'[other] = tell[other]
         /\ \A any \in {"writer", "evaluator"} : Windows(tell'[any]) \subseteq owed'
         /\ SettledKept(<<row, t.micro>>)
<1> DEFINE on == Listeners(row, t)
           key == <<row, t.micro>>
           record == [is |-> value, text |-> text, float |-> t.float]
<1>1. /\ data' = [at \in DOMAIN data \cup {key} |-> IF at = key THEN record ELSE data[at]]
      /\ tell' = [tell EXCEPT ![who] = on]
      /\ owed' = owed \cup Windows(on)
  BY DEF StoreRow
<1>2. /\ DOMAIN data' = DOMAIN data \cup {key} /\ data'[key] = record
      /\ \A at \in DOMAIN data : at # key => data'[at] = data[at]
  BY <1>1
<1>3. /\ \A w \in Windows(on) :
           /\ w.rule \in ToSet(saved) /\ w.rule \in Rule /\ w.rule.source = row
           /\ ByTime(w.rule) /\ w = Window(w.rule, t)
      /\ \A r \in ToSet(saved) : r.source = row /\ ByTime(r) => Window(r, t) \in Windows(on)
  BY Listening DEF FancyInv
<1>4. RulesKept'
  <2>1. saved' = saved /\ rules' = rules
    OBVIOUS
  <2>2. ToSet(saved)' = ToSet(saved) /\ ToSet(rules)' = ToSet(rules)
    BY <2>1, Zenon DEF ToSet
  <2> QED BY <2>1, <2>2 DEF FancyInv, RulesKept
<1>5. \A at \in DOMAIN data' : at \in Row \X Nat
  <2>1. key \in Row \X Nat
    OBVIOUS
  <2> QED BY <1>2, <2>1 DEF FancyInv, FancyTypeOK
<1>6. \A w \in owed : Times(w) \subseteq Times(w)'
  BY <1>2 DEF Times
<1>7. ASSUME NEW w \in Windows(on)
      PROVE  /\ Shape(w)
             /\ ~w.float => t.micro \in Times(w)' /\ w = Window(w.rule, [micro |-> t.micro, float |-> FALSE])
  <2>1. w.rule \in Rule /\ w.rule.source = row /\ w = Window(w.rule, t)
    BY <1>3
  <2>2. Shape(w) /\ w.float = t.float /\ w.start <= NumberOf(t) /\ NumberOf(t) < w.end
    BY <2>1, WindowHolds
  <2>3. ASSUME ~w.float
        PROVE  t.micro \in Times(w)' /\ w = Window(w.rule, [micro |-> t.micro, float |-> FALSE])
    <3>1. ~t.float /\ NumberOf(t) = t.micro
      BY <2>2, <2>3 DEF NumberOf
    <3>2. t.micro \in w.start..(w.end - 1)
      BY <2>2, <3>1 DEF Shape
    <3>3. t.micro \in Times(w)'
      BY <1>2, <2>1, <3>2 DEF Times
    <3>4. t.float = FALSE
      BY <3>1
    <3>5. Window(w.rule, t) = Window(w.rule, [micro |-> t.micro, float |-> FALSE])
      BY <3>4 DEF Window, NumberOf
    <3> QED BY <2>1, <3>3, <3>5
  <2> QED BY <2>2, <2>3
<1>8. OwedWindows'
  <2> SUFFICES ASSUME NEW w \in owed'
               PROVE  /\ w.rule \in ToSet(saved) /\ ByTime(w.rule) /\ Shape(w)
                      /\ ~w.float => \E u \in Times(w)' : w = Window(w.rule, [micro |-> u, float |-> FALSE])
    BY DEF OwedWindows, ToSet, Window, ByTime, Shape, NumberOf
  <2>1. CASE w \in owed
    BY <1>6, <2>1 DEF FancyInv, OwedWindows
  <2>2. CASE w \in Windows(on)
    BY <1>3, <1>7, <2>2
  <2> QED BY <1>1, <2>1, <2>2
<1>9. /\ DOMAIN tell' = {"writer", "evaluator"}
      /\ \A other \in {"writer", "evaluator"} : other # who => tell'[other] = tell[other]
      /\ tell'[who] = on
  <2>1. DOMAIN tell = {"writer", "evaluator"}
    BY DEF FancyInv, Threads
  <2> HIDE DEF on
  <2> QED BY <1>1, <2>1
<1>10. Pending' = Pending \cup Windows(on)
  <2>1. Windows(tell[who]) = {}
    BY DEF Windows
  <2>2. Windows(tell'[who]) = Windows(on)
    BY <1>9
  <2>3. \A other \in {"writer", "evaluator"} : other # who => Windows(tell'[other]) = Windows(tell[other])
    BY <1>9
  <2>4. Pending' = notifications \cup taken \cup Windows(tell'["writer"]) \cup Windows(tell'["evaluator"])
    BY DEF Pending, Windows, ByTime
  <2> HIDE DEF on
  <2> QED BY <2>1, <2>2, <2>3, <2>4 DEF Pending
<1>11. \A any \in {"writer", "evaluator"} : Windows(tell'[any]) \subseteq owed'
  <2>1. \A any \in {"writer", "evaluator"} : Windows(tell[any]) \subseteq owed
    BY DEF FancyInv, FancyTypeOK
  <2> HIDE DEF on
  <2> QED BY <1>1, <1>9, <2>1
<1>12. ASSUME NEW w \in owed', Settled(w)'
       PROVE  /\ w \in owed /\ Settled(w)
              /\ Times(w)' = Times(w) /\ \A u \in Times(w) : Entry(w, u)' = Entry(w, u)
              /\ <<w.rule.target, w.end>> # key =>
                   (Clear(w)' => Clear(w)) /\ (Aggregated(w) => Aggregated(w)')
  <2>1. w \notin lost /\ w \notin Pending /\ w \notin Windows(on) /\ w \in owed
    BY <1>1, <1>10, <1>12 DEF Settled
  <2>2. /\ ~w.float /\ [w EXCEPT !.float = TRUE] \notin owed'
        /\ \A u \in Times(w)' : ~data'[<<w.rule.source, u>>].float
    BY <1>12 DEF Settled, Untouched
  <2>3. /\ w.rule \in ToSet(saved) /\ ByTime(w.rule)
        /\ t.float = FALSE /\ t.micro \in w.start..(w.end - 1) => w = Window(w.rule, t)
    BY <2>1, <2>2, OwedIs DEF FancyInv
  <2>4. \A u \in w.start..(w.end - 1) : <<w.rule.source, u>> # key
    <3> SUFFICES ASSUME NEW u \in w.start..(w.end - 1), <<w.rule.source, u>> = key PROVE FALSE
      OBVIOUS
    <3>1. w.rule.source = row /\ u = t.micro
      OBVIOUS
    <3>2. u \in Times(w)'
      BY <1>2 DEF Times
    <3>3. ~t.float
      BY <1>2, <2>2, <3>2
    <3>4. w \in Windows(on)
      BY <1>3, <2>3, <3>1, <3>3
    <3> QED BY <2>1, <3>4
  <2>5. Times(w)' = Times(w)
    BY <1>2, <2>4 DEF Times
  <2>6. \A u \in Times(w) : <<w.rule.source, u>> \in DOMAIN data /\ <<w.rule.source, u>> # key
    BY <2>4 DEF Times
  <2>7. \A u \in Times(w) : data'[<<w.rule.source, u>>] = data[<<w.rule.source, u>>]
    BY <1>2, <2>6
  <2>8. \A u \in Times(w) : Entry(w, u)' = Entry(w, u)
    BY <2>7 DEF Entry
  <2>9. Settled(w)
    <3>1. \A u \in Times(w) : ~data[<<w.rule.source, u>>].float
      BY <2>2, <2>5, <2>7
    <3>2. [w EXCEPT !.float = TRUE] \notin owed
      BY <1>1, <2>2
    <3> QED BY <2>1, <2>2, <3>1, <3>2 DEF Settled, Untouched
  <2>10. ASSUME <<w.rule.target, w.end>> # key
         PROVE  (Clear(w)' => Clear(w)) /\ (Aggregated(w) => Aggregated(w)')
    <3> DEFINE at == <<w.rule.target, w.end>>
    <3>1. (at \in DOMAIN data' <=> at \in DOMAIN data) /\ (at \in DOMAIN data => data'[at] = data[at])
      BY <1>2, <2>10
    <3>2. Clear(w)' => Clear(w)
      BY <2>9, <3>1 DEF Clear, Settled
    <3>3. {Entry(w, u) : u \in Times(w)}' = {Entry(w, u) : u \in Times(w)}
      BY <2>5, <2>8
    <3>4. Aggregated(w) => Aggregated(w)'
      BY <3>1, <3>3 DEF Aggregated
    <3> QED BY <3>2, <3>4
  <2> QED BY <2>1, <2>5, <2>8, <2>9, <2>10
<1>13. SettledKept(key)
  BY <1>12 DEF SettledKept
<1> QED BY <1>1, <1>2, <1>4, <1>5, <1>8, <1>9, <1>11, <1>13

-----------------------------------------------------------------------------
LEMMA FancyInitial == FancyInit => FancyInv
<1> SUFFICES ASSUME FancyInit PROVE FancyInv
  OBVIOUS
<1>1. /\ data = [at \in {} |-> {}] /\ saved = << >> /\ rules = << >> /\ writer = "closed"
      /\ sessions = 0 /\ sets = 0 /\ evaluator = "off" /\ notifications = {} /\ finish = FALSE
      /\ taken = {} /\ last = FALSE /\ cursor = 0 /\ lost = {}
      /\ tell = [who \in {"writer", "evaluator"} |-> {}] /\ owed = {}
  BY DEF FancyInit
<1>2. ToSet(saved) = {} /\ ToSet(rules) = {} /\ DOMAIN data = {}
  BY <1>1 DEF ToSet
<1>3. Windows(tell["writer"]) = {} /\ Windows(tell["evaluator"]) = {}
  BY <1>1 DEF Windows
<1>4. FancyTypeOK
  <2>1. \A who \in {"writer", "evaluator"} : Windows(tell[who]) \subseteq owed
    BY <1>3
  <2>2. notifications \cup taken \cup lost \subseteq owed
    BY <1>1
  <2>3. sessions \in 0..MaxSessions /\ sets \in 0..MaxSets
    BY <1>1, FancyConstants
  <2>4. \A at \in DOMAIN data : at \in Row \X Nat
    BY <1>2
  <2>5. ToSet(saved) \subseteq Rule /\ ToSet(rules) = ToSet(saved)
    BY <1>2
  <2>6. finish \in BOOLEAN /\ last \in BOOLEAN /\ cursor \in Nat /\ writer = "closed" /\ evaluator = "off"
    BY <1>1
  <2> QED BY <2>1, <2>2, <2>3, <2>4, <2>5, <2>6 DEF FancyTypeOK
<1>5. RulesKept
  BY <1>1, <1>2 DEF RulesKept
<1>6. OwedWindows /\ NothingForgotten /\ SeenIsRight
  BY <1>1 DEF OwedWindows, NothingForgotten, SeenIsRight, Evaluating
<1>7. Threads
  BY <1>1 DEF Threads, IsAlive
<1> QED BY <1>4, <1>5, <1>6, <1>7 DEF FancyInv

(* What a step that stores nothing and adds no rule leaves.                  *)
LEMMA DataKept ==
  ASSUME UNCHANGED <<data, saved, owed>>
  PROVE  /\ OwedWindows => OwedWindows'
         /\ \A w : Times(w)' = Times(w) /\ Aggregated(w)' = Aggregated(w)
         /\ \A w : Untouched(w)' = Untouched(w) /\ Clear(w)' = Clear(w)
         /\ \A w, t : Entry(w, t)' = Entry(w, t)
         /\ ToSet(saved)' = ToSet(saved)
         /\ DOMAIN data' = DOMAIN data
<1>1. data' = data /\ saved' = saved /\ owed' = owed
  OBVIOUS
<1>2. \A w : Times(w)' = Times(w)
  BY <1>1 DEF Times
<1>3. \A w, t : Entry(w, t)' = Entry(w, t)
  BY <1>1 DEF Entry
<1>4. \A w : Aggregated(w)' = Aggregated(w)
  BY <1>1, Zenon DEF Aggregated, Times, Entry
<1>5. \A w : Untouched(w)' = Untouched(w)
  BY <1>1, Zenon DEF Untouched, Times
<1>6. \A w : Clear(w)' = Clear(w)
  BY <1>1, Zenon DEF Clear, Untouched, Times
<1>7. ToSet(saved)' = ToSet(saved)
  BY <1>1, Zenon DEF ToSet
<1>8. OwedWindows => OwedWindows'
  BY <1>1, <1>2, <1>7 DEF OwedWindows, Window, ByTime, Shape, NumberOf
<1> QED BY <1>1, <1>2, <1>3, <1>4, <1>5, <1>6, <1>7, <1>8

(* No window is settled that was not: none is told and gone, none recalled.   *)
SettlesNone == \A w \in owed : Settled(w)' => Settled(w)

LEMMA NoneSettled ==
  ASSUME UNCHANGED <<data, saved, owed>>, Pending \cup lost \subseteq Pending' \cup lost'
  PROVE  SettlesNone
<1> SUFFICES ASSUME NEW w \in owed, Settled(w)' PROVE Settled(w)
  BY DEF SettlesNone
<1>1. Untouched(w)' = Untouched(w)
  BY DataKept
<1>2. Untouched(w)' /\ w \notin lost' /\ w \notin Pending'
  BY DEF Settled
<1>3. Untouched(w)
  BY <1>1, <1>2
<1> QED BY <1>2, <1>3 DEF Settled

(* A step that leaves the data and the evaluation as they are, and settles no *)
(* window, forgets none.                                                      *)
LEMMA StaysRight ==
  ASSUME FancyInv, UNCHANGED <<data, owed, window, cursor, seen>>,
         ToSet(saved) \subseteq ToSet(saved)', SettlesNone,
         evaluator' = evaluator \/ (~Evaluating /\ ~Evaluating')
  PROVE  OwedWindows' /\ SeenIsRight' /\ NothingForgotten'
<1>1. /\ data' = data /\ owed' = owed /\ window' = window /\ cursor' = cursor /\ seen' = seen
  OBVIOUS
<1>2. /\ \A w : Times(w)' = Times(w)
      /\ \A w, t : Entry(w, t)' = Entry(w, t)
  BY <1>1 DEF Times, Entry
<1>3. /\ \A w : Aggregated(w)' = Aggregated(w)
      /\ \A w : Clear(w)' = Clear(w)
  BY <1>1, Zenon DEF Aggregated, Clear, Untouched, Times, Entry
<1>4. OwedWindows'
  BY <1>1, <1>2 DEF FancyInv, OwedWindows, Window, ByTime, Shape, NumberOf
<1>5. Evaluating' = Evaluating
  BY DEF Evaluating
<1>6. NothingForgotten'
  <2> SUFFICES ASSUME NEW w \in owed', Settled(w)', Clear(w)'
               PROVE  (Evaluating' /\ w = window') \/ Aggregated(w)'
    BY Zenon DEF NothingForgotten
  <2>1. w \in owed /\ Settled(w) /\ Clear(w)
    BY <1>1, <1>3 DEF SettlesNone
  <2>2. (Evaluating /\ w = window) \/ Aggregated(w)
    BY <2>1 DEF FancyInv, NothingForgotten
  <2> QED BY <1>1, <1>3, <1>5, <2>2
<1>7. SeenIsRight'
  <2> SUFFICES ASSUME Evaluating'
               PROVE  SeenIsRight'
    BY DEF SeenIsRight
  <2> PICK w : w = window
    OBVIOUS
  <2>1. /\ w \in owed /\ (evaluator = "writes" => cursor = 0)
        /\ Settled(w) =>
             /\ \A t \in Times(w) : t >= cursor => Entry(w, t) \in seen
             /\ \A e \in seen : e[1] # w.end => e[1] \in Times(w) /\ e = Entry(w, e[1])
    BY <1>5 DEF FancyInv, SeenIsRight
  <2>2. evaluator' = evaluator
    BY <1>5
  <2>3. w = window' /\ w \in owed'
    BY <1>1, <2>1
  <2>4. Settled(w)' =>
          /\ \A t \in Times(w)' : t >= cursor' => Entry(w, t)' \in seen'
          /\ \A e \in seen' : e[1] # w.end => e[1] \in Times(w)' /\ e = Entry(w, e[1])'
    BY <1>1, <1>2, <2>1 DEF SettlesNone
  <2>5. Settled(w)' = Settled(window)'
    BY <2>3, Zenon DEF Settled, Untouched, Pending, Times
  <2> QED BY <1>1, <2>1, <2>2, <2>3, <2>4, <2>5 DEF SeenIsRight, Times, Entry
<1> QED BY <1>4, <1>6, <1>7

(* A sequence to which one is appended has its elements and that one.        *)
LEMMA AddsOne ==
  ASSUME NEW S, NEW q \in Seq(S), NEW r \in S
  PROVE  ToSet(Append(q, r)) = ToSet(q) \cup {r}
<1> DEFINE a == Append(q, r)
<1>1. /\ DOMAIN a = 1..(Len(q) + 1) /\ DOMAIN q = 1..Len(q) /\ Len(q) \in Nat
      /\ \A i \in 1..Len(q) : a[i] = q[i]
      /\ a[Len(q) + 1] = r
  BY AppendProperties
<1> HIDE DEF a
<1>2. \A i \in 1..(Len(q) + 1) : i \in 1..Len(q) \/ i = Len(q) + 1
  BY <1>1
<1>3. {a[i] : i \in DOMAIN a} = {q[i] : i \in DOMAIN q} \cup {r}
  BY <1>1, <1>2
<1> QED BY <1>3 DEF a, ToSet

(* The first listener that is told passes its window on: what an earlier     *)
(* notification is equal to it, it is itself or told by a float.             *)
LEMMA NotifyMoves ==
  ASSUME FancyInv, NEW who \in {"writer", "evaluator"}, NotifyEvaluator(who),
         UNCHANGED <<data, saved, taken, owed, evaluator>>
  PROVE  /\ SettlesNone /\ notifications' \cup lost' \subseteq owed'
         /\ evaluator = "raised" => notifications' \subseteq lost'
         /\ DOMAIN tell' = {"writer", "evaluator"}
         /\ \A other \in {"writer", "evaluator"} : other # who => tell'[other] = tell[other]
         /\ \A any \in {"writer", "evaluator"} : Windows(tell'[any]) \subseteq owed'
<1>1. PICK first \in tell[who] :
        LET w == first.window IN
        /\ ByTime(w.rule)
        /\ notifications' = IF \E v \in notifications : [v EXCEPT !.float = w.float] = w
                              THEN notifications ELSE notifications \cup {w}
        /\ lost' = IF evaluator = "raised" THEN lost \cup {w} ELSE lost \ {w}
        /\ tell' = [tell EXCEPT ![who] = @ \ {first}]
  BY DEF NotifyEvaluator
<1> DEFINE w == first.window
<1>2. /\ DOMAIN tell = {"writer", "evaluator"}
      /\ notifications \cup taken \cup lost \subseteq owed /\ owed' = owed /\ taken' = taken
      /\ \A any \in {"writer", "evaluator"} : Windows(tell[any]) \subseteq owed
      /\ evaluator = "raised" => notifications \subseteq lost
  BY DEF FancyInv, Threads, FancyTypeOK
<1>3. /\ DOMAIN tell' = {"writer", "evaluator"}
      /\ \A other \in {"writer", "evaluator"} : other # who => tell'[other] = tell[other]
      /\ tell'[who] = tell[who] \ {first}
  BY <1>1, <1>2
<1>4. w \in owed
  BY <1>1, <1>2 DEF Windows
<1>5. Windows(tell[who]) \subseteq Windows(tell'[who]) \cup {w}
  BY <1>3 DEF Windows
<1>6. Windows(tell'[who]) \subseteq Windows(tell[who])
  BY <1>3 DEF Windows
<1>7. \A any \in {"writer", "evaluator"} : Windows(tell'[any]) \subseteq owed'
  BY <1>2, <1>3, <1>6
<1>8. Pending' = notifications' \cup taken' \cup Windows(tell'["writer"]) \cup Windows(tell'["evaluator"])
  BY DEF Pending, Windows, ByTime
<1>9. notifications \subseteq notifications' /\ notifications' \subseteq notifications \cup {w}
  BY <1>1
<1>10. lost' \subseteq lost \cup {w} /\ lost \subseteq lost' \cup {w}
       /\ (evaluator = "raised" => w \in lost' /\ lost \subseteq lost')
  BY <1>1
<1>11. Pending \subseteq Pending' \cup {w}
  <2> HIDE DEF w
  <2>1. CASE who = "writer"
    BY <1>2, <1>3, <1>5, <1>8, <1>9, <2>1 DEF Pending
  <2>2. CASE who = "evaluator"
    BY <1>2, <1>3, <1>5, <1>8, <1>9, <2>2 DEF Pending
  <2> QED BY <2>1, <2>2
<1>12. Settled(w)' => FALSE
  <2> SUFFICES ASSUME Untouched(w)', w \notin lost', w \notin Pending' PROVE FALSE
    BY DEF Settled
  <2>1. evaluator # "raised" /\ w \notin notifications'
    BY <1>8, <1>10
  <2>2. PICK v \in notifications : [v EXCEPT !.float = w.float] = w
    BY <1>1, <2>1
  <2>3. v \in owed /\ Shape(v) /\ v # w
    BY <1>2, <1>9, <2>1, <2>2 DEF FancyInv, OwedWindows
  <2>4. ~w.float /\ [w EXCEPT !.float = TRUE] \notin owed
    BY <1>2 DEF Untouched
  <2>5. v = [rule |-> v.rule, start |-> v.start, end |-> v.end, float |-> v.float] /\ v.float \in BOOLEAN
    BY <2>3 DEF Shape
  <2>6. w = [rule |-> v.rule, start |-> v.start, end |-> v.end, float |-> w.float]
    BY <2>2, <2>5
  <2>7. w.float \in BOOLEAN
    BY <1>4 DEF FancyInv, OwedWindows, Shape
  <2>8. v.float = TRUE
    BY <2>3, <2>4, <2>5, <2>6, <2>7
  <2>9. [w EXCEPT !.float = TRUE] = v
    BY <2>5, <2>6, <2>8
  <2> QED BY <2>3, <2>4, <2>9
<1>13. SettlesNone
  <2> SUFFICES ASSUME NEW x \in owed, Settled(x)' PROVE Settled(x)
    BY DEF SettlesNone
  <2>1. x # w
    BY <1>12
  <2>2. x \notin lost' /\ x \notin Pending' /\ Untouched(x)'
    BY DEF Settled
  <2>3. Untouched(x)
    BY <2>2, DataKept
  <2> HIDE DEF w
  <2> QED BY <1>10, <1>11, <2>1, <2>2, <2>3 DEF Settled
<1> HIDE DEF w
<1>14. notifications' \cup lost' \subseteq owed'
  BY <1>2, <1>4, <1>9, <1>10
<1>15. evaluator = "raised" => notifications' \subseteq lost'
  BY <1>2, <1>9, <1>10
<1> QED BY <1>3, <1>7, <1>9, <1>13, <1>14, <1>15

(* An exception in what is told: nobody else hears of it.                     *)
LEMMA RaiseDrops ==
  ASSUME FancyInv, NEW who \in {"writer", "evaluator"}, RuleRaises(who)
  PROVE  /\ DOMAIN tell' = {"writer", "evaluator"} /\ tell'[who] = {}
         /\ \A other \in {"writer", "evaluator"} : other # who => tell'[other] = tell[other]
         /\ \A any \in {"writer", "evaluator"} : Windows(tell'[any]) \subseteq owed
<1>1. tell' = [tell EXCEPT ![who] = {}]
  BY DEF RuleRaises
<1>2. /\ DOMAIN tell = {"writer", "evaluator"}
      /\ \A any \in {"writer", "evaluator"} : Windows(tell[any]) \subseteq owed
  BY DEF FancyInv, Threads, FancyTypeOK
<1>3. /\ DOMAIN tell' = {"writer", "evaluator"} /\ tell'[who] = {}
      /\ \A other \in {"writer", "evaluator"} : other # who => tell'[other] = tell[other]
  BY <1>1, <1>2
<1>4. Windows({}) = {}
  BY DEF Windows
<1> QED BY <1>2, <1>3, <1>4

(* The steps of the writer that set no row keep the invariant.               *)
LEMMA WriterStep ==
  ASSUME FancyInv, MainGoesOn \/ OpenDB \/ CloseDB \/ (\E r \in Rule : AddRule(r))
  PROVE  FancyInv'
<1> USE DEF FancyInv
<1>t. /\ \A at \in DOMAIN data : at \in Row \X Nat
      /\ ToSet(saved) \subseteq Rule /\ ToSet(rules) = ToSet(saved)
      /\ writer \in {"closed", "open", "tells", "closing", "finishes", "joins"}
      /\ sessions \in 0..MaxSessions /\ sets \in 0..MaxSets
      /\ evaluator \in {"off", "raised", "takes", "waits", "runs", "reads", "writes", "tells"}
      /\ finish \in BOOLEAN /\ last \in BOOLEAN /\ cursor \in Nat
      /\ notifications \cup taken \cup lost \subseteq owed
      /\ \A who \in {"writer", "evaluator"} : Windows(tell[who]) \subseteq owed
  BY DEF FancyTypeOK
<1>1. CASE OpenDB
  <2>1. /\ writer = "closed" /\ sessions < MaxSessions
        /\ writer' = "open" /\ sessions' = sessions + 1
        /\ rules' = Reverse(saved)
        /\ evaluator' = "takes" /\ notifications' = {} /\ finish' = FALSE
        /\ UNCHANGED <<data, saved, sets, owed, lost, taken, last, readVars, tell>>
    BY <1>1 DEF OpenDB
  <2>2. evaluator \in {"off", "raised"} /\ notifications \subseteq lost /\ taken = {} /\ last = FALSE
    BY <2>1, <1>t DEF Threads, IsAlive
  <2>3. Threads'
    BY <2>1, <2>2 DEF Threads, IsAlive
  <2>4. rules' \in Seq(Rule) /\ ToSet(rules)' = ToSet(saved)' /\ ToSet(saved)' = ToSet(saved)
    <3>1. saved \in Seq(Rule)
      BY DEF RulesKept
    <3>2. PICK n \in Nat : n = Len(saved)
      BY <3>1
    <3>3. DOMAIN saved = 1..n /\ \A i \in 1..n : saved[i] \in Rule
      BY <3>1, <3>2
    <3>4. rules' = [i \in 1..n |-> saved[(n - i) + 1]]
      BY <2>1, <3>2 DEF Reverse
    <3>5. rules' \in [1..n -> Rule]
      BY <3>3, <3>4
    <3>6. rules' \in Seq(Rule)
      BY <3>5, SeqDef
    <3>7. ToSet(saved)' = ToSet(saved)
      BY <2>1, Zenon DEF ToSet
    <3>8. DOMAIN rules' = 1..n
      BY <3>4
    <3>9. ASSUME NEW r \in ToSet(saved) PROVE r \in ToSet(rules)'
      <4>1. PICK i \in 1..n : r = saved[i]
        BY <3>3, <3>9 DEF ToSet
      <4>2. (n - i) + 1 \in 1..n /\ (n - ((n - i) + 1)) + 1 = i
        BY <4>1
      <4>3. rules'[(n - i) + 1] = r
        BY <3>4, <4>1, <4>2
      <4> QED BY <3>8, <4>2, <4>3 DEF ToSet
    <3>10. ASSUME NEW r \in ToSet(rules)' PROVE r \in ToSet(saved)
      <4>1. PICK i \in 1..n : r = rules'[i]
        BY <3>8, <3>10 DEF ToSet
      <4>2. (n - i) + 1 \in 1..n /\ r = saved[(n - i) + 1]
        BY <3>4, <4>1
      <4> QED BY <3>3, <4>2 DEF ToSet
    <3> QED BY <3>6, <3>7, <3>9, <3>10
  <2>5. RulesKept'
    BY <2>1, <2>4 DEF RulesKept
  <2>6. SettlesNone
    <3>1. Windows(tell["writer"])' = Windows(tell["writer"]) /\ Windows(tell["evaluator"])' = Windows(tell["evaluator"])
      BY <2>1, Zenon DEF Windows, ByTime
    <3>2. Pending \cup lost \subseteq Pending' \cup lost'
      BY <2>1, <2>2, <3>1 DEF Pending
    <3> QED BY <2>1, <3>2, NoneSettled
  <2>7. OwedWindows' /\ SeenIsRight' /\ NothingForgotten'
    BY <2>1, <2>2, <2>4, <2>6, StaysRight DEF Evaluating, readVars
  <2>8. FancyTypeOK'
    <3>1. \A who \in {"writer", "evaluator"} : (Windows(tell[who]) \subseteq owed)'
      BY <1>t, <2>1 DEF Windows, ByTime
    <3>2. sessions' \in 0..MaxSessions
      BY <1>t, <2>1, FancyConstants
    <3>3. (\A at \in DOMAIN data : at \in Row \X Nat)'
      BY <1>t, <2>1
    <3>4. /\ cursor' \in Nat /\ sets' \in 0..MaxSets /\ last' \in BOOLEAN
          /\ notifications' \cup taken' \cup lost' \subseteq owed'
      BY <1>t, <2>1, <2>2 DEF readVars
    <3> QED BY <1>t, <2>1, <2>4, <3>1, <3>2, <3>3, <3>4 DEF FancyTypeOK
  <2> QED BY <2>3, <2>5, <2>7, <2>8
<1>2. CASE \E r \in Rule : AddRule(r)
  <2>1. PICK r \in Rule :
          /\ writer = "open" /\ \A q \in ToSet(rules) : q.target # r.target
          /\ rules' = Append(rules, r) /\ saved' = Append(saved, r)
          /\ UNCHANGED <<data, writer, sessions, sets, evaluator, notifications, finish, taken, last,
                         readVars, tell, owed, lost>>
    BY <1>2 DEF AddRule
  <2>2. saved \in Seq(Rule) /\ rules \in Seq(Rule) /\ ToSet(rules) = ToSet(saved)
    BY DEF RulesKept
  <2>3. /\ ToSet(saved)' = ToSet(saved) \cup {r} /\ ToSet(rules)' = ToSet(rules) \cup {r}
    <3>1. /\ ToSet(Append(saved, r)) = ToSet(saved) \cup {r}
          /\ ToSet(Append(rules, r)) = ToSet(rules) \cup {r}
      <4>1. r \in Rule
        BY <2>1
      <4> QED BY <2>2, <4>1, AddsOne
    <3>2. ToSet(saved)' = ToSet(Append(saved, r)) /\ ToSet(rules)' = ToSet(Append(rules, r))
      BY <2>1, Zenon DEF ToSet
    <3> QED BY <3>1, <3>2
  <2>4. RulesKept'
    BY <2>1, <2>2, <2>3 DEF RulesKept
  <2>5. Threads'
    BY <2>1 DEF Threads, IsAlive
  <2>6. SettlesNone
    <3>1. Pending' = Pending
      BY <2>1, Zenon DEF Pending, Windows, ByTime
    <3>2. \A w : Untouched(w)' = Untouched(w)
      BY <2>1, Zenon DEF Untouched, Times
    <3> QED BY <2>1, <3>1, <3>2 DEF SettlesNone, Settled
  <2>7. OwedWindows' /\ SeenIsRight' /\ NothingForgotten'
    BY <2>1, <2>3, <2>6, StaysRight DEF readVars
  <2>8. FancyTypeOK'
    <3>1. \A who \in {"writer", "evaluator"} : (Windows(tell[who]) \subseteq owed)'
      BY <1>t, <2>1 DEF Windows, ByTime
    <3>3. (\A at \in DOMAIN data : at \in Row \X Nat)'
      BY <1>t, <2>1
    <3>4. cursor' \in Nat /\ notifications' \cup taken' \cup lost' \subseteq owed'
      BY <1>t, <2>1 DEF readVars
    <3> QED BY <1>t, <2>1, <2>3, <3>1, <3>3, <3>4 DEF FancyTypeOK
  <2> QED BY <2>4, <2>5, <2>7, <2>8
<1>3. CASE MainGoesOn \/ CloseDB
  <2>1. /\ UNCHANGED <<data, saved, rules, owed, sessions, sets, taken, last, window, cursor, seen>>
        /\ writer' \in {"closed", "open", "tells", "closing", "finishes", "joins"}
        /\ evaluator' = evaluator \/ (evaluator = "waits" /\ evaluator' = "takes")
    BY <1>3, <1>t DEF MainGoesOn, MainNotifies, MainRaises, FinishSets, FinishNotifies, JoinReturns,
                 AllClosed, CloseDB, dbVars, readVars, Woken
  <2>2. /\ SettlesNone /\ notifications' \cup lost' \subseteq owed' /\ Threads'
        /\ \A any \in {"writer", "evaluator"} : Windows(tell'[any]) \subseteq owed'
        /\ finish' \in BOOLEAN
    <3>1. CASE MainNotifies /\ NotifyEvaluator("writer")
      <4>1. writer = "tells" /\ UNCHANGED <<writer, dbVars, evaluator, finish, taken, last, readVars>>
        BY <3>1 DEF MainNotifies, NotifyEvaluator
      <4>2. /\ SettlesNone /\ notifications' \cup lost' \subseteq owed'
            /\ evaluator = "raised" => notifications' \subseteq lost'
            /\ DOMAIN tell' = {"writer", "evaluator"}
            /\ tell'["evaluator"] = tell["evaluator"]
            /\ \A any \in {"writer", "evaluator"} : Windows(tell'[any]) \subseteq owed'
        BY <2>1, <3>1, <4>1, NotifyMoves
      <4>3. evaluator # "off" /\ last = FALSE /\ finish = FALSE
        BY <4>1, <1>t DEF Threads
      <4>4. Threads'
        BY <4>1, <4>2, <4>3 DEF Threads, IsAlive
      <4> QED BY <1>t, <4>1, <4>2, <4>4
    <3>2. CASE MainRaises
      <4>1. /\ writer = "tells" /\ writer' = "closing" /\ lost' = lost \cup Windows(tell["writer"])
            /\ UNCHANGED <<dbVars, evaluator, notifications, finish, taken, last, readVars>>
        BY <3>2 DEF MainRaises
      <4>2. /\ DOMAIN tell' = {"writer", "evaluator"} /\ tell'["writer"] = {}
            /\ tell'["evaluator"] = tell["evaluator"]
            /\ \A any \in {"writer", "evaluator"} : Windows(tell'[any]) \subseteq owed'
        BY <2>1, <3>2, RaiseDrops DEF MainRaises
      <4>3. Pending' = notifications \cup taken \cup Windows(tell'["writer"]) \cup Windows(tell["evaluator"])
        BY <2>1, <4>1, <4>2 DEF Pending, Windows, ByTime
      <4>4. Pending \cup lost \subseteq Pending' \cup lost'
        BY <4>1, <4>3 DEF Pending
      <4>5. SettlesNone
        BY <2>1, <4>4, NoneSettled
      <4>6. Threads'
        BY <1>t, <4>1, <4>2 DEF Threads, IsAlive
      <4>7. notifications' \cup lost' \subseteq owed' /\ finish' \in BOOLEAN
        BY <1>t, <2>1, <4>1
      <4> QED BY <4>2, <4>5, <4>6, <4>7
    <3>3. CASE ~NotifyEvaluator("writer") /\ ~MainRaises
      <4>1. tell' = tell /\ notifications' = notifications /\ lost' = lost
        BY <1>3, <3>3 DEF MainGoesOn, MainNotifies, FinishSets, FinishNotifies, JoinReturns, AllClosed, CloseDB
      <4>2. Pending' = Pending
        BY <2>1, <4>1, Zenon DEF Pending, Windows, ByTime
      <4>3. \A any \in {"writer", "evaluator"} : Windows(tell'[any]) \subseteq owed'
        BY <1>t, <2>1, <4>1 DEF Windows
      <4>4. Threads'
        BY <1>3, <1>t, <2>1, <3>3, <4>1
        DEF Threads, IsAlive, MainGoesOn, MainNotifies, FinishSets, FinishNotifies, JoinReturns, AllClosed,
            CloseDB, dbVars, readVars, Woken
      <4>5. finish' \in BOOLEAN
        BY <1>3, <1>t, <3>3
        DEF MainGoesOn, MainNotifies, FinishSets, FinishNotifies, JoinReturns, AllClosed, CloseDB
      <4>6. SettlesNone
        BY <2>1, <4>1, <4>2, NoneSettled
      <4> QED BY <1>t, <2>1, <4>1, <4>3, <4>4, <4>5, <4>6
    <3>4. CASE ~MainNotifies /\ NotifyEvaluator("writer") /\ ~MainRaises
      <4>1. tell' = tell
        BY <1>3, <3>4 DEF MainGoesOn, FinishSets, FinishNotifies, JoinReturns, AllClosed, CloseDB
      <4>2. tell' # tell
        BY <3>4 DEF NotifyEvaluator, FancyInv, Threads
      <4> QED BY <4>1, <4>2
    <3> QED BY <3>1, <3>2, <3>3, <3>4
  <2>3. ToSet(saved)' = ToSet(saved) /\ ToSet(rules)' = ToSet(rules)
    BY <2>1, Zenon DEF ToSet
  <2>4. RulesKept'
    BY <2>1, <2>3 DEF RulesKept
  <2>5. OwedWindows' /\ SeenIsRight' /\ NothingForgotten'
    BY <2>1, <2>2, <2>3, StaysRight DEF Evaluating
  <2>6. FancyTypeOK'
    <3>1. (\A at \in DOMAIN data : at \in Row \X Nat)'
      BY <1>t, <2>1
    <3>2. notifications' \cup taken' \cup lost' \subseteq owed'
      BY <1>t, <2>1, <2>2
    <3> QED BY <1>t, <2>1, <2>2, <2>3, <3>1, <3>2 DEF FancyTypeOK
  <2> QED BY <2>2, <2>4, <2>5, <2>6
<1> QED BY <1>1, <1>2, <1>3

(* So do the steps of the evaluator that read and write nothing.             *)
LEMMA EvaluatorStep ==
  ASSUME FancyInv, Take \/ EvaluatorNotifies \/ EndRun \/ UNCHANGED fancyVars
  PROVE  FancyInv'
<1> USE DEF FancyInv
<1>t. /\ \A at \in DOMAIN data : at \in Row \X Nat
      /\ ToSet(saved) \subseteq Rule /\ ToSet(rules) = ToSet(saved)
      /\ writer \in {"closed", "open", "tells", "closing", "finishes", "joins"}
      /\ sessions \in 0..MaxSessions /\ sets \in 0..MaxSets
      /\ evaluator \in {"off", "raised", "takes", "waits", "runs", "reads", "writes", "tells"}
      /\ finish \in BOOLEAN /\ last \in BOOLEAN /\ cursor \in Nat
      /\ notifications \cup taken \cup lost \subseteq owed
      /\ \A who \in {"writer", "evaluator"} : Windows(tell[who]) \subseteq owed
  BY DEF FancyTypeOK
<1>1. /\ UNCHANGED <<data, saved, rules, owed, sessions, sets, writer, finish, window, cursor, seen>>
      /\ evaluator' \in {"off", "raised", "takes", "waits", "runs", "reads", "writes", "tells"}
      /\ evaluator' = evaluator \/ (~Evaluating /\ ~Evaluating')
  BY <1>t DEF Take, EvaluatorNotifies, EndRun, fancyVars, dbVars, readVars, Evaluating
<1>2. /\ SettlesNone /\ notifications' \cup taken' \cup lost' \subseteq owed' /\ Threads'
      /\ \A any \in {"writer", "evaluator"} : Windows(tell'[any]) \subseteq owed'
      /\ last' \in BOOLEAN
  <2>1. CASE EvaluatorNotifies /\ NotifyEvaluator("evaluator")
    <3>1. evaluator = "tells" /\ UNCHANGED <<writer, dbVars, evaluator, finish, taken, last, readVars>>
      BY <2>1 DEF EvaluatorNotifies, NotifyEvaluator
    <3>2. /\ SettlesNone /\ notifications' \cup lost' \subseteq owed'
          /\ DOMAIN tell' = {"writer", "evaluator"}
          /\ tell'["writer"] = tell["writer"]
          /\ \A any \in {"writer", "evaluator"} : Windows(tell'[any]) \subseteq owed'
      BY <1>1, <2>1, <3>1, NotifyMoves
    <3>3. last = FALSE
      BY <3>1, <1>t DEF Threads
    <3>4. Threads'
      BY <3>1, <3>2, <3>3 DEF Threads, IsAlive
    <3> QED BY <1>t, <1>1, <3>1, <3>2, <3>4
  <2>2. CASE Take \/ EndRun \/ UNCHANGED fancyVars \/ (EvaluatorNotifies /\ ~NotifyEvaluator("evaluator"))
    <3>1. tell' = tell /\ lost' = lost
      BY <2>2 DEF Take, EvaluatorNotifies, EndRun, fancyVars
    <3>2. \A any \in {"writer", "evaluator"} : Windows(tell'[any]) \subseteq owed'
      BY <1>t, <1>1, <3>1 DEF Windows
    <3>3. Pending' = notifications' \cup taken' \cup Windows(tell["writer"]) \cup Windows(tell["evaluator"])
      BY <3>1, Zenon DEF Pending, Windows, ByTime
    <3>4. notifications \cup taken \subseteq notifications' \cup taken' /\ notifications' \cup taken' \subseteq owed'
      BY <1>t, <1>1, <2>2 DEF Take, EvaluatorNotifies, EndRun, fancyVars, Threads
    <3>5. Pending \cup lost \subseteq Pending' \cup lost'
      BY <3>1, <3>3, <3>4 DEF Pending
    <3>6. Threads'
      BY <1>t, <1>1, <2>2, <3>1 DEF Threads, IsAlive, Take, EvaluatorNotifies, EndRun, fancyVars, LastRun
    <3>7. last' \in BOOLEAN
      BY <1>t, <2>2 DEF Take, EvaluatorNotifies, EndRun, fancyVars, LastRun
    <3>8. SettlesNone
      BY <1>1, <3>5, NoneSettled
    <3> QED BY <1>t, <1>1, <3>1, <3>2, <3>4, <3>6, <3>7, <3>8
  <2> QED BY <2>1, <2>2
<1>3. ToSet(saved)' = ToSet(saved) /\ ToSet(rules)' = ToSet(rules)
  BY <1>1, Zenon DEF ToSet
<1>4. RulesKept'
  BY <1>1, <1>3 DEF RulesKept
<1>5. OwedWindows' /\ SeenIsRight' /\ NothingForgotten'
  BY <1>1, <1>2, <1>3, StaysRight DEF Evaluating
<1>6. FancyTypeOK'
  <2>1. (\A at \in DOMAIN data : at \in Row \X Nat)'
    BY <1>t, <1>1
  <2> QED BY <1>t, <1>1, <1>2, <1>3, <2>1 DEF FancyTypeOK
<1> QED BY <1>2, <1>4, <1>5, <1>6

(* So does an exception: it forgets what it had taken and what was notified.  *)
LEMMA EvaluatorRaisesStep ==
  ASSUME FancyInv, EvaluatorRaises
  PROVE  FancyInv'
<1> USE DEF FancyInv
<1>t. /\ \A at \in DOMAIN data : at \in Row \X Nat
      /\ ToSet(saved) \subseteq Rule /\ ToSet(rules) = ToSet(saved)
      /\ writer \in {"closed", "open", "tells", "closing", "finishes", "joins"}
      /\ sessions \in 0..MaxSessions /\ sets \in 0..MaxSets
      /\ finish \in BOOLEAN /\ last \in BOOLEAN /\ cursor \in Nat
      /\ notifications \cup taken \cup lost \subseteq owed
      /\ \A who \in {"writer", "evaluator"} : Windows(tell[who]) \subseteq owed
      /\ DOMAIN tell = {"writer", "evaluator"}
  BY DEF FancyTypeOK, Threads
<1>1. /\ evaluator \in {"writes", "tells"} /\ evaluator' = "raised"
      /\ taken' = {} /\ last' = FALSE
      /\ lost' = lost \cup notifications \cup taken \cup Windows(tell["evaluator"])
                      \cup (IF evaluator = "writes" THEN {window} ELSE {})
      /\ UNCHANGED <<data, saved, rules, sessions, sets, owed, writer, notifications, finish, cursor>>
  BY DEF EvaluatorRaises, dbVars
<1>2. /\ DOMAIN tell' = {"writer", "evaluator"} /\ tell'["evaluator"] = {}
      /\ tell'["writer"] = tell["writer"]
      /\ \A any \in {"writer", "evaluator"} : Windows(tell'[any]) \subseteq owed
  <2>1. CASE evaluator = "tells" /\ RuleRaises("evaluator")
    BY <2>1, RaiseDrops
  <2>2. CASE evaluator = "writes" /\ tell' = tell
    BY <1>t, <2>2 DEF Threads
  <2> QED BY <2>1, <2>2 DEF EvaluatorRaises
<1>3. Pending' = notifications \cup Windows(tell["writer"]) \cup Windows(tell'["evaluator"])
  BY <1>1, <1>2 DEF Pending, Windows, ByTime
<1>4. Pending \cup lost \subseteq Pending' \cup lost'
  BY <1>1, <1>3 DEF Pending
<1>5. SettlesNone
  BY <1>1, <1>4, NoneSettled
<1>6. /\ OwedWindows'
      /\ \A v : Aggregated(v)' = Aggregated(v) /\ Clear(v)' = Clear(v)
  BY <1>1, DataKept
<1>7. ToSet(saved)' = ToSet(saved) /\ ToSet(rules)' = ToSet(rules)
  BY <1>1, Zenon DEF ToSet
<1>8. RulesKept'
  BY <1>1, <1>7 DEF RulesKept
<1>9. Threads'
  BY <1>t, <1>1, <1>2 DEF Threads, IsAlive
<1>10. SeenIsRight'
  BY <1>1 DEF SeenIsRight, Evaluating
<1>11. NothingForgotten'
  <2> SUFFICES ASSUME NEW w \in owed', Settled(w)', Clear(w)'
               PROVE  Aggregated(w)'
    BY Zenon DEF NothingForgotten
  <2>1. w \in owed /\ Settled(w) /\ Clear(w)
    BY <1>1, <1>5, <1>6 DEF SettlesNone
  <2>2. ~(Evaluating /\ w = window)
    <3>1. w \notin lost'
      BY DEF Settled
    <3> QED BY <1>1, <3>1 DEF Evaluating
  <2> QED BY <1>6, <2>1, <2>2 DEF NothingForgotten
<1>12. FancyTypeOK'
  <2>1. \A who \in {"writer", "evaluator"} : (Windows(tell[who]) \subseteq owed)'
    BY <1>1, <1>2 DEF Windows, ByTime
  <2>2. (\A at \in DOMAIN data : at \in Row \X Nat)'
    BY <1>t, <1>1
  <2>3. notifications' \cup taken' \cup lost' \subseteq owed'
    BY <1>t, <1>1 DEF SeenIsRight, Evaluating
  <2> QED BY <1>t, <1>1, <1>7, <2>1, <2>2, <2>3 DEF FancyTypeOK
<1> QED BY <1>6, <1>8, <1>9, <1>10, <1>11, <1>12

(* A row that is set: what the evaluator reads meanwhile is told again.      *)
LEMMA SetRowStep ==
  ASSUME FancyInv, NEW row \in InputRow, NEW update \in Update, SetRow(row, update)
  PROVE  FancyInv'
<1> USE DEF FancyInv
<1>t. /\ ToSet(saved) \subseteq Rule /\ ToSet(rules) = ToSet(saved)
      /\ writer \in {"closed", "open", "tells", "closing", "finishes", "joins"}
      /\ sessions \in 0..MaxSessions /\ sets \in 0..MaxSets
      /\ evaluator \in {"off", "raised", "takes", "waits", "runs", "reads", "writes", "tells"}
      /\ finish \in BOOLEAN /\ last \in BOOLEAN /\ cursor \in Nat
      /\ notifications \cup taken \cup lost \subseteq owed
  BY DEF FancyTypeOK
<1>1. /\ writer = "open" /\ sets < MaxSets /\ StoreRow("writer", row, update, sets, update.text)
      /\ sets' = sets + 1 /\ writer' = "tells"
      /\ UNCHANGED <<saved, rules, sessions, evaluator, notifications, finish, taken, last, window, cursor,
                     seen, lost>>
  BY DEF SetRow, readVars
<1>2. /\ row \in Row /\ tell["writer"] = {} /\ UNCHANGED <<saved, rules, notifications, taken, lost>>
      /\ update.micro \in Nat /\ update.float \in BOOLEAN
  BY <1>1, FancyConstants DEF Row, Threads
<1>3. /\ owed \subseteq owed' /\ OwedWindows' /\ RulesKept'
      /\ \A at \in DOMAIN data' : at \in Row \X Nat
      /\ DOMAIN tell' = {"writer", "evaluator"}
      /\ tell'["evaluator"] = tell["evaluator"]
      /\ \A any \in {"writer", "evaluator"} : Windows(tell'[any]) \subseteq owed'
      /\ SettledKept(<<row, update.micro>>)
  BY <1>1, <1>2, StoreKeeps
<1>k. \A w \in owed' : Settled(w)' =>
        /\ w \in owed /\ Settled(w)
        /\ Times(w)' = Times(w) /\ \A u \in Times(w) : Entry(w, u)' = Entry(w, u)
        /\ <<w.rule.target, w.end>> # <<row, update.micro>> =>
             (Clear(w)' => Clear(w)) /\ (Aggregated(w) => Aggregated(w)')
  BY <1>3, Zenon DEF SettledKept
<1>4. Threads'
  BY <1>1, <1>3, <1>t DEF Threads, IsAlive
<1>5. FancyTypeOK'
  <2>1. \A who \in {"writer", "evaluator"} : (Windows(tell[who]) \subseteq owed)'
    BY <1>3 DEF Windows, ByTime
  <2>2. sets' \in 0..MaxSets /\ sessions' \in 0..MaxSessions
    BY <1>1, <1>t, FancyConstants
  <2>3. ToSet(saved)' = ToSet(saved) /\ ToSet(rules)' = ToSet(rules)
    BY <1>1, Zenon DEF ToSet
  <2>4. notifications' \cup taken' \cup lost' \subseteq owed'
    BY <1>1, <1>3, <1>t
  <2> QED BY <1>1, <1>3, <1>t, <2>1, <2>2, <2>3, <2>4 DEF FancyTypeOK
<1>6. NothingForgotten'
  <2> SUFFICES ASSUME NEW w \in owed', Settled(w)', Clear(w)', ~(Evaluating' /\ w = window')
               PROVE  Aggregated(w)'
    BY Zenon DEF NothingForgotten
  <2>1. w \in owed /\ Settled(w) /\ ~(Evaluating /\ w = window)
    BY <1>1, <1>k DEF Evaluating
  <2>2. w.rule.target # row
    BY <2>1, OwedIs, FancyConstants
  <2>3. Clear(w)
    BY <1>k, <2>2
  <2>4. Aggregated(w)
    BY <2>1, <2>3 DEF NothingForgotten
  <2> QED BY <1>k, <2>2, <2>4
<1>7. SeenIsRight'
  <2> SUFFICES ASSUME Evaluating'
               PROVE  SeenIsRight'
    BY DEF SeenIsRight
  <2> PICK w : w = window
    OBVIOUS
  <2>1. /\ w \in owed /\ (evaluator = "writes" => cursor = 0)
        /\ Settled(w) =>
             /\ \A u \in Times(w) : u >= cursor => Entry(w, u) \in seen
             /\ \A e \in seen : e[1] # w.end => e[1] \in Times(w) /\ e = Entry(w, e[1])
    BY <1>1 DEF SeenIsRight, Evaluating
  <2>2. w = window' /\ w \in owed' /\ (evaluator' = "writes" => cursor' = 0)
    BY <1>1, <1>3, <2>1
  <2>3. Settled(w)' =>
          /\ \A u \in Times(w)' : u >= cursor' => Entry(w, u)' \in seen'
          /\ \A e \in seen' : e[1] # w.end => e[1] \in Times(w)' /\ e = Entry(w, e[1])'
    BY <1>1, <1>k, <2>1, <2>2
  <2>4. Settled(w)' = Settled(window)'
    BY <2>2, Zenon DEF Settled, Untouched, Pending, Times
  <2> QED BY <2>2, <2>3, <2>4 DEF SeenIsRight, Times, Entry
<1> QED BY <1>3, <1>4, <1>5, <1>6, <1>7

(* The evaluation of a window begins: it has seen nothing yet.               *)
LEMMA BeginStep ==
  ASSUME FancyInv, NEW w \in taken, Begin(w)
  PROVE  FancyInv'
<1> USE DEF FancyInv
<1>t. /\ \A at \in DOMAIN data : at \in Row \X Nat
      /\ ToSet(saved) \subseteq Rule /\ ToSet(rules) = ToSet(saved)
      /\ writer \in {"closed", "open", "tells", "closing", "finishes", "joins"}
      /\ sessions \in 0..MaxSessions /\ sets \in 0..MaxSets
      /\ finish \in BOOLEAN /\ last \in BOOLEAN /\ cursor \in Nat
      /\ notifications \cup taken \cup lost \subseteq owed
      /\ \A who \in {"writer", "evaluator"} : Windows(tell[who]) \subseteq owed
  BY DEF FancyTypeOK
<1>1. /\ evaluator = "runs" /\ evaluator' = "reads" /\ taken' = taken \ {w}
      /\ window' = w /\ seen' = {}
      /\ \E missed \in (IF w.float THEN 0..Rounding ELSE {0}) : cursor' = w.end + 1 - missed
      /\ UNCHANGED <<data, saved, rules, sessions, sets, owed, lost, writer, notifications, finish, last, tell>>
  BY DEF Begin, dbVars
<1>2. w \in owed /\ w.rule \in Rule /\ Shape(w)
  BY <1>t, OwedIs
<1>3. cursor' \in Nat /\ (~w.float => cursor' = w.end + 1)
  <2>1. w.rule.steps \in Nat \ {0} /\ Second \in Nat \ {0} /\ Rounding \in 0..Second
    BY <1>2, FancyConstants
  <2>2. PICK a \in Nat \ {0}, b \in Nat \ {0} : a = w.rule.steps /\ b = Second
    BY <2>1
  <2>3. a * b \in Nat /\ a * b >= b
    OBVIOUS
  <2>4. PICK n \in Nat : n = a * b
    BY <2>3
  <2>5. w.start \in Nat /\ w.end = w.start + n /\ n >= b
    BY <1>2, <2>2, <2>3, <2>4 DEF Shape
  <2>6. PICK missed \in (IF w.float THEN 0..Rounding ELSE {0}) : cursor' = w.end + 1 - missed
    BY <1>1
  <2>7. missed \in 0..b /\ (~w.float => missed = 0)
    BY <2>1, <2>2, <2>6
  <2> QED BY <2>5, <2>6, <2>7
<1>4. /\ OwedWindows'
      /\ \A v : Times(v)' = Times(v) /\ Aggregated(v)' = Aggregated(v)
      /\ \A v : Untouched(v)' = Untouched(v) /\ Clear(v)' = Clear(v)
      /\ ToSet(saved)' = ToSet(saved)
  BY <1>1, DataKept
<1>5. Pending = Pending' \cup {w}
  BY <1>1 DEF Pending, Windows, ByTime
<1>6. RulesKept'
  <2>1. ToSet(rules)' = ToSet(rules)
    BY <1>1, Zenon DEF ToSet
  <2> QED BY <1>1, <1>4, <2>1 DEF RulesKept
<1>7. Threads'
  BY <1>1 DEF Threads, IsAlive
<1>8. NothingForgotten'
  <2> SUFFICES ASSUME NEW v \in owed', Settled(v)', Clear(v)', ~(Evaluating' /\ v = window')
               PROVE  Aggregated(v)'
    BY Zenon DEF NothingForgotten
  <2>1. v # w /\ v \in owed /\ Clear(v) /\ ~Evaluating
    BY <1>1, <1>4 DEF Evaluating
  <2>2. Untouched(v)' /\ v \notin lost' /\ v \notin Pending'
    BY DEF Settled
  <2>3. Settled(v)
    BY <1>1, <1>4, <1>5, <2>1, <2>2 DEF Settled
  <2> QED BY <1>4, <2>1, <2>3 DEF NothingForgotten
<1>9. SeenIsRight'
  <2>1. ASSUME Settled(w)' PROVE (\A t \in Times(w) : t >= cursor => Entry(w, t) \in seen)'
    <3>1. ~w.float
      BY <2>1 DEF Settled, Untouched
    <3>2. cursor' = w.end + 1 /\ w.start \in Nat /\ w.end \in Nat
      BY <1>2, <1>3, <3>1 DEF Shape
    <3>3. \A t \in Times(w)' : ~(t >= w.end + 1)
      BY <3>2, <1>4 DEF Times
    <3> QED BY <3>2, <3>3
  <2>2. Settled(w)' = Settled(window)'
    BY <1>1, Zenon DEF Settled, Untouched, Pending, Times
  <2>3. (\A t \in Times(window) : t >= cursor => Entry(window, t) \in seen)'
         = (\A t \in Times(w) : t >= cursor => Entry(w, t) \in seen)'
    BY <1>1, Zenon DEF Entry, Times
  <2> QED BY <1>1, <1>2, <2>1, <2>2, <2>3 DEF SeenIsRight
<1>10. FancyTypeOK'
  <2>1. \A who \in {"writer", "evaluator"} : (Windows(tell[who]) \subseteq owed)'
    BY <1>t, <1>1 DEF Windows, ByTime
  <2>2. notifications' \cup taken' \cup lost' \subseteq owed'
    BY <1>t, <1>1
  <2>3. ToSet(rules)' = ToSet(rules)
    BY <1>1, Zenon DEF ToSet
  <2>4. (\A at \in DOMAIN data : at \in Row \X Nat)'
    BY <1>t, <1>1
  <2> QED BY <1>t, <1>1, <1>3, <1>4, <2>1, <2>2, <2>3, <2>4 DEF FancyTypeOK
<1> QED BY <1>4, <1>6, <1>7, <1>8, <1>9, <1>10

(* The cursor goes to the latest value before it, or, when there is none, the *)
(* evaluation ends; a settled window has a value, so its result is written.   *)
LEMMA ReadStep ==
  ASSUME FancyInv, Read
  PROVE  FancyInv'
<1> USE DEF FancyInv
<1>t. /\ \A at \in DOMAIN data : at \in Row \X Nat
      /\ ToSet(saved) \subseteq Rule /\ ToSet(rules) = ToSet(saved)
      /\ writer \in {"closed", "open", "tells", "closing", "finishes", "joins"}
      /\ sessions \in 0..MaxSessions /\ sets \in 0..MaxSets
      /\ finish \in BOOLEAN /\ last \in BOOLEAN /\ cursor \in Nat
      /\ notifications \cup taken \cup lost \subseteq owed
      /\ \A who \in {"writer", "evaluator"} : Windows(tell[who]) \subseteq owed
  BY DEF FancyTypeOK
<1> PICK w : w = window
  OBVIOUS
<1> DEFINE ahead == {t \in w.start..w.end : t < cursor /\ <<w.rule.source, t>> \in DOMAIN data}
<1>1. /\ evaluator = "reads"
      /\ IF ahead = {}
           THEN evaluator' = (IF seen = {} THEN "runs" ELSE "writes") /\ cursor' = 0 /\ UNCHANGED seen
           ELSE /\ cursor' = Max(ahead) /\ UNCHANGED evaluator
                /\ seen' = seen \cup {Entry(w, Max(ahead))}
      /\ UNCHANGED <<data, saved, rules, sessions, sets, owed, lost, writer, notifications, finish, taken,
                     last, window, tell>>
  BY DEF Read, dbVars, Entry
<1>2. /\ w \in owed
      /\ Settled(w) =>
           /\ \A t \in Times(w) : t >= cursor => Entry(w, t) \in seen
           /\ \A e \in seen : e[1] # w.end => e[1] \in Times(w) /\ e = Entry(w, e[1])
  BY <1>1 DEF SeenIsRight, Evaluating
<1>3. w.start \in Nat /\ w.end \in Nat /\ (Settled(w) => Times(w) # {})
  BY <1>2, OwedIs DEF Shape, Settled, Untouched
<1>4. /\ OwedWindows'
      /\ \A v : Times(v)' = Times(v) /\ Aggregated(v)' = Aggregated(v)
      /\ \A v : Untouched(v)' = Untouched(v) /\ Clear(v)' = Clear(v)
      /\ \A v, t : Entry(v, t)' = Entry(v, t)
      /\ ToSet(saved)' = ToSet(saved)
  BY <1>1, DataKept
<1>5. \A v : Settled(v)' = Settled(v)
  <2>1. Pending' = Pending
    BY <1>1, Zenon DEF Pending, Windows, ByTime
  <2>2. \A v : Settled(v)' = (Untouched(v)' /\ v \notin lost' /\ v \notin Pending')
    BY Zenon DEF Settled
  <2> QED BY <1>1, <1>4, <2>1, <2>2 DEF Settled
<1>6. ahead \subseteq Nat /\ (\A t \in ahead : t <= w.end)
  BY <1>3
<1>7. ahead # {} => Max(ahead) \in ahead /\ \A t \in ahead : t <= Max(ahead)
  BY <1>3, <1>6, MaxOf
<1>8. \A t \in Times(w) : t \in Nat /\ (t < cursor => t \in ahead)
  BY <1>3 DEF Times
<1>9. RulesKept'
  <2>1. ToSet(rules)' = ToSet(rules)
    BY <1>1, Zenon DEF ToSet
  <2> QED BY <1>1, <1>4, <2>1 DEF RulesKept
<1>10. evaluator' \in {"runs", "writes", "reads"}
  BY <1>1
<1>11. Threads'
  BY <1>1, <1>10 DEF Threads, IsAlive
<1>12. FancyTypeOK'
  <2>1. \A who \in {"writer", "evaluator"} : (Windows(tell[who]) \subseteq owed)'
    BY <1>t, <1>1 DEF Windows, ByTime
  <2>2. cursor' \in Nat
    BY <1>1, <1>6, <1>7
  <2>3. ToSet(rules)' = ToSet(rules)
    BY <1>1, Zenon DEF ToSet
  <2>4. (\A at \in DOMAIN data : at \in Row \X Nat)'
    BY <1>t, <1>1
  <2>5. UNCHANGED <<sessions, sets, owed, lost, writer, notifications, finish, taken, last>>
    BY <1>1
  <2> HIDE DEF ahead
  <2> QED BY <1>t, <1>4, <1>10, <2>1, <2>2, <2>3, <2>4, <2>5 DEF FancyTypeOK
<1>w. w = window' /\ Settled(w)' = Settled(window)'
  <2>1. w = window'
    BY <1>1
  <2> QED BY <2>1, Zenon DEF Settled, Untouched, Pending, Times
<1>13. CASE ahead = {}
  <2>1. evaluator' = (IF seen = {} THEN "runs" ELSE "writes") /\ cursor' = 0 /\ seen' = seen
    BY <1>1, <1>13
  <2>2. Settled(w) => \A t \in Times(w) : Entry(w, t) \in seen
    <3>1. cursor \in Nat
      BY <1>t
    <3>2. \A t \in Times(w) : t >= cursor
      <4> HIDE DEF ahead
      <4>1. \A t \in Times(w) : t \in Nat /\ ~(t < cursor)
        BY <1>8, <1>13
      <4> QED BY <3>1, <4>1
    <3> QED BY <1>2, <3>2
  <2>3. Settled(w) => seen # {}
    BY <1>3, <2>2
  <2>4. NothingForgotten'
    <3> SUFFICES ASSUME NEW v \in owed', Settled(v)', Clear(v)', ~(Evaluating' /\ v = window')
                 PROVE  Aggregated(v)'
      BY Zenon DEF NothingForgotten
    <3>1. v \in owed /\ Settled(v) /\ Clear(v)
      BY <1>1, <1>4, <1>5
    <3>2. v # w
      BY <1>1, <2>1, <2>3, <3>1 DEF Evaluating
    <3> QED BY <1>4, <3>1, <3>2 DEF NothingForgotten
  <2>5. SeenIsRight'
    <3>1. /\ w \in owed' /\ cursor' = 0
          /\ Settled(w)' =>
               /\ \A t \in Times(w)' : t >= cursor' => Entry(w, t)' \in seen'
               /\ \A e \in seen' : e[1] # w.end => e[1] \in Times(w)' /\ e = Entry(w, e[1])'
      BY <1>1, <1>2, <1>4, <1>5, <2>1, <2>2
    <3> QED BY <1>w, <3>1 DEF SeenIsRight, Times, Entry
  <2> QED BY <1>4, <1>9, <1>11, <1>12, <2>4, <2>5
<1>14. CASE ahead # {}
  <2> PICK m \in ahead : m = Max(ahead)
    BY <1>7, <1>14
  <2>1. /\ evaluator' = "reads" /\ cursor' = m /\ seen' = seen \cup {Entry(w, m)}
        /\ m \in w.start..w.end /\ m < cursor /\ <<w.rule.source, m>> \in DOMAIN data
        /\ \A t \in ahead : t <= m
    BY <1>1, <1>7, <1>14
  <2>2. NothingForgotten'
    <3> SUFFICES ASSUME NEW v \in owed', Settled(v)', Clear(v)', ~(Evaluating' /\ v = window')
                 PROVE  Aggregated(v)'
      BY Zenon DEF NothingForgotten
    <3>1. v \in owed /\ Settled(v) /\ Clear(v) /\ v # w
      BY <1>1, <1>4, <1>5, <2>1 DEF Evaluating
    <3> QED BY <1>4, <3>1 DEF NothingForgotten
  <2>3. m # w.end => m \in Times(w)
    BY <1>3, <2>1 DEF Times
  <2>4. \A t \in Times(w) : t >= m => t >= cursor \/ t = m
    <3>1. cursor \in Nat /\ m \in Nat
      BY <1>t, <1>6
    <3>2. \A t \in Times(w) : t \in Nat /\ (t < cursor => t <= m)
      BY <1>8, <2>1
    <3> QED BY <3>1, <3>2
  <2>5. Entry(w, m)[1] = m
    BY DEF Entry
  <2>6. SeenIsRight'
    <3>1. /\ w \in owed' /\ evaluator' # "writes"
          /\ Settled(w)' => \A t \in Times(w)' : t >= cursor' => Entry(w, t)' \in seen'
      BY <1>1, <1>2, <1>4, <1>5, <2>1, <2>4
    <3>2. Settled(w)' => \A e \in seen' : e[1] # w.end => e[1] \in Times(w)' /\ e = Entry(w, e[1])'
      BY <1>2, <1>4, <1>5, <2>1, <2>3, <2>5
    <3> QED BY <1>w, <3>1, <3>2 DEF SeenIsRight, Times, Entry
  <2> QED BY <1>4, <1>9, <1>11, <1>12, <2>2, <2>6
<1> QED BY <1>13, <1>14

(* The result is written: the window has its aggregate, unless it was told   *)
(* again, and those of the rules on the target row are told.  The result of  *)
(* a window of floats makes the one whose place it takes no longer clear.    *)
LEMMA WriteStep ==
  ASSUME FancyInv, WriteResult
  PROVE  FancyInv'
<1> USE DEF FancyInv
<1>t. /\ ToSet(saved) \subseteq Rule /\ ToSet(rules) = ToSet(saved)
      /\ writer \in {"closed", "open", "tells", "closing", "finishes", "joins"}
      /\ sessions \in 0..MaxSessions /\ sets \in 0..MaxSets
      /\ finish \in BOOLEAN /\ last \in BOOLEAN /\ cursor \in Nat
      /\ notifications \cup taken \cup lost \subseteq owed
  BY DEF FancyTypeOK
<1> PICK w : w = window
  OBVIOUS
<1> PICK text : text = (w.rule.type = "last" /\ IsText(Newest(seen)))
  OBVIOUS
<1> PICK end : end = EndTime(w)
  OBVIOUS
<1>1. /\ evaluator = "writes" /\ StoreRow("evaluator", w.rule.target, end, seen, text)
      /\ evaluator' = "tells"
      /\ UNCHANGED <<saved, rules, writer, sessions, sets, notifications, finish, taken, last, cursor, lost>>
  BY DEF WriteResult
<1>2. /\ w \in owed /\ cursor = 0
      /\ Settled(w) =>
           /\ \A t \in Times(w) : t >= cursor => Entry(w, t) \in seen
           /\ \A e \in seen : e[1] # w.end => e[1] \in Times(w) /\ e = Entry(w, e[1])
  BY <1>1 DEF SeenIsRight, Evaluating
<1>3. w.rule \in ToSet(saved) /\ w.rule \in Rule /\ Shape(w)
  BY <1>2, OwedIs
<1>4. /\ w.rule.target \in Row /\ tell["evaluator"] = {}
      /\ UNCHANGED <<saved, rules, notifications, taken, lost>>
  BY <1>1, <1>3 DEF Row, Threads
<1>5. /\ end.micro \in Nat /\ end.float \in BOOLEAN /\ end.float = w.float
      /\ ~w.float => end.micro = w.end
  <2>1. w.end \in Nat /\ Second \in Nat /\ w.float \in BOOLEAN
    BY <1>3, FancyConstants DEF Shape
  <2>2. PICK a \in Nat, b \in Nat : a = w.end /\ b = Second
    BY <2>1
  <2>3. a * b \in Nat
    OBVIOUS
  <2>4. w.end * Second \in Nat
    BY <2>2, <2>3
  <2> QED BY <2>1, <2>4 DEF EndTime
<1>6. /\ owed \subseteq owed' /\ OwedWindows' /\ RulesKept'
      /\ \A at \in DOMAIN data' : at \in Row \X Nat
      /\ <<w.rule.target, end.micro>> \in DOMAIN data'
      /\ data'[<<w.rule.target, end.micro>>] = [is |-> seen, text |-> text, float |-> end.float]
      /\ DOMAIN tell' = {"writer", "evaluator"}
      /\ tell'["writer"] = tell["writer"]
      /\ \A any \in {"writer", "evaluator"} : Windows(tell'[any]) \subseteq owed'
      /\ SettledKept(<<w.rule.target, end.micro>>)
  BY <1>1, <1>4, <1>5, StoreKeeps
<1>k. \A v \in owed' : Settled(v)' =>
        /\ v \in owed /\ Settled(v)
        /\ Times(v)' = Times(v) /\ \A u \in Times(v) : Entry(v, u)' = Entry(v, u)
        /\ <<v.rule.target, v.end>> # <<w.rule.target, end.micro>> =>
             (Clear(v)' => Clear(v)) /\ (Aggregated(v) => Aggregated(v)')
  BY <1>6, Zenon DEF SettledKept
<1>7. Threads'
  BY <1>1, <1>6, <1>t DEF Threads, IsAlive
<1>8. FancyTypeOK'
  <2>1. \A who \in {"writer", "evaluator"} : (Windows(tell[who]) \subseteq owed)'
    BY <1>6 DEF Windows, ByTime
  <2>2. ToSet(saved)' = ToSet(saved) /\ ToSet(rules)' = ToSet(rules)
    BY <1>1, Zenon DEF ToSet
  <2>3. notifications' \cup taken' \cup lost' \subseteq owed'
    BY <1>1, <1>6, <1>t
  <2> QED BY <1>1, <1>6, <1>t, <2>1, <2>2, <2>3 DEF FancyTypeOK
<1>9. SeenIsRight'
  BY <1>1 DEF SeenIsRight, Evaluating
<1>10. ASSUME Settled(w)'
       PROVE  Aggregated(w)'
  <2>1. ~w.float /\ w \in owed'
    BY <1>2, <1>6, <1>10 DEF Settled, Untouched
  <2>2. /\ Settled(w) /\ Times(w)' = Times(w)
        /\ \A u \in Times(w) : Entry(w, u)' = Entry(w, u)
    BY <1>k, <1>10, <2>1
  <2>3. \A t \in Times(w) : t \in Nat /\ t >= cursor /\ t # w.end /\ Entry(w, t)[1] = t
    BY <1>2, <1>3 DEF Times, Entry, Shape
  <2>4. /\ \A t \in Times(w) : Entry(w, t) \in seen
        /\ \A e \in seen : e[1] # w.end => e[1] \in Times(w) /\ e = Entry(w, e[1])
    BY <1>2, <2>2, <2>3
  <2>5. {e \in seen : e[1] # w.end} = {Entry(w, t) : t \in Times(w)}
    <3>1. ASSUME NEW e \in seen, e[1] # w.end PROVE e \in {Entry(w, t) : t \in Times(w)}
      BY <2>4, <3>1
    <3>2. ASSUME NEW t \in Times(w) PROVE Entry(w, t) \in seen /\ Entry(w, t)[1] # w.end
      BY <2>3, <2>4
    <3> QED BY <3>1, <3>2
  <2>6. {Entry(w, t) : t \in Times(w)}' = {Entry(w, t) : t \in Times(w)}
    BY <2>2
  <2>7. <<w.rule.target, w.end>> \in DOMAIN data' /\ data'[<<w.rule.target, w.end>>].is = seen
    BY <1>5, <1>6, <2>1
  <2> QED BY <2>5, <2>6, <2>7 DEF Aggregated
<1>11. NothingForgotten'
  <2> SUFFICES ASSUME NEW v \in owed', Settled(v)', Clear(v)'
               PROVE  Aggregated(v)'
    BY Zenon DEF NothingForgotten
  <2>1. v \in owed /\ Settled(v)
    BY <1>k
  <2>2. CASE v = w
    BY <1>10, <2>2
  <2>3. CASE v # w
    <3>1. v.rule \in ToSet(saved) /\ v.rule \in Rule /\ Shape(v) /\ ~v.float
      BY <2>1, OwedIs DEF Settled, Untouched
    <3>2. ASSUME v.rule.target = w.rule.target, v.end = end.micro
          PROVE  FALSE
      <4>1. v.rule = w.rule
        BY <1>3, <3>1, <3>2 DEF RulesKept
      <4>2. ~end.float
        BY <1>6, <3>2 DEF Clear
      <4>3. v.end = w.end /\ w.float = FALSE /\ v.float = FALSE
        BY <1>3, <1>5, <3>1, <3>2, <4>2 DEF Shape
      <4>4. PICK n \in Nat : n = w.rule.steps * Second
        <5>1. w.rule.steps \in Nat /\ Second \in Nat
          BY <1>3, FancyConstants
        <5>2. PICK a \in Nat, b \in Nat : a = w.rule.steps /\ b = Second
          BY <5>1
        <5>3. a * b \in Nat
          OBVIOUS
        <5> QED BY <5>2, <5>3
      <4>5. v.start = w.start
        BY <1>3, <3>1, <4>1, <4>3, <4>4 DEF Shape
      <4> QED BY <1>3, <2>3, <3>1, <4>1, <4>3, <4>5 DEF Shape
    <3>3. Clear(v)
      BY <1>k, <3>2
    <3>4. Aggregated(v)
      BY <1>1, <2>1, <2>3, <3>3 DEF NothingForgotten
    <3> QED BY <1>k, <3>2, <3>4
  <2> QED BY <2>2, <2>3
<1> QED BY <1>6, <1>7, <1>8, <1>9, <1>11

-----------------------------------------------------------------------------
LEMMA FancyStep == FancyInv /\ [FancyNext]_fancyVars => FancyInv'
<1> SUFFICES ASSUME FancyInv, [FancyNext]_fancyVars PROVE FancyInv'
  OBVIOUS
<1>1. CASE MainGoesOn \/ OpenDB \/ CloseDB \/ (\E r \in Rule : AddRule(r))
  BY <1>1, WriterStep
<1>2. CASE Take \/ EvaluatorNotifies \/ EndRun \/ UNCHANGED fancyVars
  BY <1>2, EvaluatorStep
<1>3. CASE \E row \in InputRow, update \in Update : SetRow(row, update)
  BY <1>3, SetRowStep
<1>4. CASE \E w \in taken : Begin(w)
  BY <1>4, BeginStep
<1>5. CASE Read
  BY <1>5, ReadStep
<1>6. CASE WriteResult
  BY <1>6, WriteStep
<1>7. CASE EvaluatorRaises
  BY <1>7, EvaluatorRaisesStep
<1> QED BY <1>1, <1>2, <1>3, <1>4, <1>5, <1>6, <1>7 DEF FancyNext, Evaluates

(* The variables of FancyDB have their types.                                *)
THEOREM FancyTypeCorrect == FancySpec => []FancyTypeOK
<1>1. FancyInv => FancyTypeOK
  BY DEF FancyInv
<1> QED BY <1>1, FancyInitial, FancyStep, PTL DEF FancySpec

LEMMA FancySays == FancyInv => FancyAggregates
<1> SUFFICES ASSUME FancyInv, writer = "closed", NEW w \in owed, Clear(w), w \notin lost
             PROVE  LET at == <<w.rule.target, w.end>>
                    IN /\ at \in DOMAIN data
                       /\ {e \in data[at].is : e[1] # w.end}
                            = {<<t, data[<<w.rule.source, t>>]>> : t \in Times(w)}
  BY DEF FancyAggregates
<1>1. /\ evaluator \in {"off", "raised"} /\ notifications \subseteq lost /\ taken = {}
      /\ tell["writer"] = {} /\ tell["evaluator"] = {}
  BY DEF FancyInv, Threads, IsAlive
<1>2. w \notin Pending /\ ~Evaluating
  BY <1>1 DEF Pending, Windows, Evaluating
<1>3. Aggregated(w)
  BY <1>2 DEF FancyInv, NothingForgotten, Settled, Clear
<1> QED BY <1>3 DEF Aggregated, Entry

(* After a session every window that got a value under a rule has its        *)
(* aggregate, computed from exactly its values, for any rules, also those    *)
(* that feed each other or themselves and those that raise, and for any      *)
(* times - but those that a float had a part in, or an exception forgot.     *)
THEOREM FancyAggregatesAll == FancySpec => []FancyAggregates
BY FancyInitial, FancyStep, FancySays, PTL DEF FancySpec

-----------------------------------------------------------------------------
(* FancyDB: Close does not wait for an evaluator that sleeps.  It looked at   *)
(* the event before Finish set it only if Finish is yet to wake it.           *)
CloseWakes == evaluator = "waits" /\ finish => writer = "finishes"

LEMMA CloseWakesStep ==
  ASSUME CloseWakes, [FancyNext]_fancyVars
  PROVE  CloseWakes'
<1>1. CASE \/ OpenDB \/ CloseDB \/ (\E r \in Rule : AddRule(r))
           \/ (\E row \in InputRow, update \in Update : SetRow(row, update))
    BY <1>1 DEF CloseWakes, OpenDB, CloseDB, AddRule, SetRow
<1>2. CASE MainGoesOn
    BY <1>2 DEF CloseWakes, MainGoesOn, MainNotifies, MainRaises, FinishSets, FinishNotifies, Woken,
       JoinReturns, AllClosed, dbVars, IsAlive
<1>3. CASE Evaluates
    BY <1>3 DEF CloseWakes, Evaluates, Take, Begin, Read, WriteResult, EvaluatorNotifies, EvaluatorRaises,
       EndRun, dbVars
<1>4. CASE UNCHANGED fancyVars
    BY <1>4 DEF CloseWakes, fancyVars, dbVars
<1> QED BY <1>1, <1>2, <1>3, <1>4 DEF FancyNext

(* For any rules, sets and sessions: main never joins an evaluator that       *)
(* sleeps with the event set (Finish, Close, run of fancydb.py).              *)
THEOREM FancyCloseWakes == FancySpec => []CloseWakes
<1>1. FancyInit => CloseWakes
    BY DEF FancyInit, CloseWakes
<1> QED BY <1>1, CloseWakesStep, PTL DEF FancySpec
=============================================================================
