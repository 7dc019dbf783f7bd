--------------------------- MODULE GlobWatch_proofs --------------------------
(* Theorems about GlobWatch, for any names, files and bounds.                *)
EXTENDS GlobWatch, SequenceTheorems, TLAPS

GlobInv == GlobTypeOK /\ GlobIsTold

(* inotify has something to tell of a file.                                  *)
Told(es, i) == \E e \in 1..Len(es) : es[e].file = i

-----------------------------------------------------------------------------
LEMMA GlobInitial == GlobInit => GlobInv
<1> SUFFICES ASSUME GlobInit PROVE GlobInv
  OBVIOUS
<1>1. GlobTypeOK
  <2>1. events \in Seq(Event)
    BY DEF GlobInit
  <2>2. name \in [Inode -> Path \cup {"new", "outside", "gone"}] /\ watch \in [Inode -> Watch \cup {NoWatch}]
    BY DEF GlobInit
  <2>3. \A i, j \in Inode : name[i] = name[j] /\ name[i] \in Path => i = j
    BY GlobBounds DEF GlobInit
  <2>4. turns \in 0..MaxTurns
    BY GlobBounds DEF GlobInit
  <2> QED BY <2>1, <2>2, <2>3, <2>4 DEF GlobInit, GlobTypeOK
<1>2. GlobIsTold
  BY DEF GlobInit, GlobIsTold
<1> QED BY <1>1, <1>2 DEF GlobInv

(* What is told goes behind what was told.                                   *)
LEMMA ToldMore ==
  ASSUME NEW es \in Seq(Event), NEW new \in Seq(Event)
  PROVE  /\ es \o new \in Seq(Event)
         /\ \A i : Told(es \o new, i) <=> Told(es, i) \/ Told(new, i)
<1>1. PICK n \in Nat, m \in Nat : n = Len(es) /\ m = Len(new)
  OBVIOUS
<1>2. /\ es \o new \in Seq(Event) /\ Len(es \o new) = n + m
      /\ \A k \in 1..n : (es \o new)[k] = es[k]
      /\ \A k \in 1..m : (es \o new)[n + k] = new[k]
  <2>1. \A k \in 1..m : n + k \in 1..(n + m) /\ n + k > n /\ (n + k) - n = k
    OBVIOUS
  <2>2. es \o new \in Seq(Event) /\ Len(es \o new) = n + m
    BY <1>1, ConcatProperties
  <2>3. \A k \in 1..(n + m) : (es \o new)[k] = IF k <= n THEN es[k] ELSE new[k - n]
    BY <1>1, ConcatProperties
  <2> QED BY <2>1, <2>2, <2>3
<1>3. \A k \in 1..(n + m) : k \in 1..n \/ \E l \in 1..m : k = n + l
  <2> SUFFICES ASSUME NEW k \in 1..(n + m), k \notin 1..n PROVE \E l \in 1..m : k = n + l
    OBVIOUS
  <2>1. k - n \in 1..m /\ k = n + (k - n)
    OBVIOUS
  <2> QED BY <2>1
<1>4. \A l \in 1..m : n + l \in 1..(n + m)
  OBVIOUS
<1>5. \A k \in 1..n : k \in 1..(n + m)
  OBVIOUS
<1>6. ASSUME NEW i PROVE Told(es \o new, i) <=> Told(es, i) \/ Told(new, i)
  <2>1. Told(es \o new, i) <=> \E k \in 1..(n + m) : (es \o new)[k].file = i
    BY <1>2 DEF Told
  <2>2. Told(es, i) <=> \E k \in 1..n : es[k].file = i
    BY <1>1 DEF Told
  <2>3. Told(new, i) <=> \E k \in 1..m : new[k].file = i
    BY <1>1 DEF Told
  <2>4. ASSUME NEW k \in 1..(n + m), (es \o new)[k].file = i
        PROVE  (\E l \in 1..n : es[l].file = i) \/ (\E l \in 1..m : new[l].file = i)
    BY <1>2, <1>3, <2>4
  <2>5. ASSUME NEW k \in 1..n, es[k].file = i
        PROVE  k \in 1..(n + m) /\ (es \o new)[k].file = i
    BY <1>2, <1>5, <2>5
  <2>6. ASSUME NEW k \in 1..m, new[k].file = i
        PROVE  n + k \in 1..(n + m) /\ (es \o new)[n + k].file = i
    BY <1>2, <1>4, <2>6
  <2> QED BY <2>1, <2>2, <2>3, <2>4, <2>5, <2>6
<1> QED BY <1>2, <1>6

(* A watched file is told of; of several files that end, one is.             *)
LEMMA Notes ==
  ASSUME GlobTypeOK, NEW i \in Inode, NEW kind \in {"moved", "deleted"}
  PROVE  /\ Note(kind, i) \in Seq(Event)
         /\ watch[i] # NoWatch => Told(Note(kind, i), i)
<1>1. [kind |-> kind, file |-> i] \in Event
  BY DEF Event
<1>2. CASE watch[i] = NoWatch
  BY <1>2 DEF Note
<1>3. CASE watch[i] # NoWatch
  <2>1. Note(kind, i) = <<[kind |-> kind, file |-> i]>>
    BY <1>3 DEF Note
  <2>2. Len(Note(kind, i)) = 1 /\ Note(kind, i)[1].file = i /\ Note(kind, i) \in Seq(Event)
    BY <1>1, <2>1
  <2> QED BY <2>2 DEF Told
<1> QED BY <1>2, <1>3

LEMMA GoneTells ==
  ASSUME GlobTypeOK, NEW who \in SUBSET Inode, \A i, j \in who : i = j
  PROVE  /\ Gone(who) \in Seq(Event)
         /\ \A i \in who : watch[i] # NoWatch => Told(Gone(who), i)
<1>1. CASE who = {}
  BY <1>1 DEF Gone
<1>2. CASE who # {}
  <2> PICK i \in who : i = CHOOSE j \in who : TRUE
    BY <1>2
  <2>1. Gone(who) = Note("deleted", i)
    BY <1>2 DEF Gone
  <2> QED BY <2>1, Notes
<1> QED BY <1>1, <1>2

(* One event is taken: the other files are still told of.                    *)
LEMMA ToldRest ==
  ASSUME NEW es \in Seq(Event), es # << >>
  PROVE  /\ Head(es) \in Event /\ Tail(es) \in Seq(Event)
         /\ \A i : Told(es, i) => Told(Tail(es), i) \/ i = Head(es).file
<1>1. PICK n \in Nat : Len(es) = n + 1
  <2>1. Len(es) \in Nat /\ Len(es) # 0
    BY EmptySeq
  <2>2. Len(es) - 1 \in Nat /\ Len(es) = (Len(es) - 1) + 1
    BY <2>1
  <2> QED BY <2>2
<1>2. /\ Head(es) = es[1] /\ Head(es) \in Event /\ Tail(es) \in Seq(Event) /\ Len(Tail(es)) = n
      /\ \A k \in 1..n : Tail(es)[k] = es[k + 1]
  BY <1>1, HeadTailProperties
<1>3. \A k \in 1..(n + 1) : k = 1 \/ \E l \in 1..n : k = l + 1
  <2> SUFFICES ASSUME NEW k \in 1..(n + 1), k # 1 PROVE \E l \in 1..n : k = l + 1
    OBVIOUS
  <2>1. k - 1 \in 1..n /\ k = (k - 1) + 1
    OBVIOUS
  <2> QED BY <2>1
<1>4. ASSUME NEW i, Told(es, i) PROVE Told(Tail(es), i) \/ i = Head(es).file
  <2>1. PICK k \in 1..(n + 1) : es[k].file = i
    BY <1>1, <1>4 DEF Told
  <2> QED BY <1>2, <1>3, <2>1 DEF Told
<1> QED BY <1>2, <1>4

(* When the one file that ends is told of, none that was open is forgotten.  *)
LEMMA EndsTold ==
  ASSUME GlobTypeOK, NEW wr, NEW ts, \A i, j \in Open \ OpenOf(wr, ts) : i = j
  PROVE  /\ Gone(Ended(wr, ts)) \in Seq(Event)
         /\ \A j \in Inode : j \in Open /\ j \notin OpenOf(wr, ts) /\ name[j] = "gone" /\ watch[j] # NoWatch
                             => Told(Gone(Ended(wr, ts)), j)
<1>1. Open \subseteq Inode
  BY DEF Open, OpenOf, GlobTypeOK
<1>2. Ended(wr, ts) \in SUBSET Inode /\ \A i, j \in Ended(wr, ts) : i = j
  BY <1>1 DEF Ended
<1>3. \A j \in Open : j \notin OpenOf(wr, ts) /\ name[j] = "gone" => j \in Ended(wr, ts)
  BY DEF Ended
<1> QED BY <1>2, <1>3, GoneTells

(* A FileTail that opens its path again lets go of one file at most.         *)
LEMMA ReopenLets ==
  ASSUME GlobTypeOK, NEW t \in tails, Reopen(t)
  PROVE  /\ reactor' \in {reactor, "dead"}
         /\ tails' \subseteq Path \X Inode
         /\ \A i, j \in Open \ OpenOf(written, tails') : i = j
<1>1. \A u \in tails : u # t => u \in tails'
  BY DEF Reopen
<1>2. \A i \in Open \ OpenOf(written, tails') : i = t[2]
  BY <1>1 DEF Open, OpenOf
<1>3. tails' \subseteq Path \X Inode
  <2>1. t[1] \in Path /\ FileAt(t[1]) \subseteq Inode
    BY DEF FileAt, GlobTypeOK
  <2> QED BY <2>1 DEF Reopen, GlobTypeOK
<1>4. reactor' \in {reactor, "dead"}
  BY DEF Reopen
<1> QED BY <1>2, <1>3, <1>4

-----------------------------------------------------------------------------
(* What the glob believes of a file, or why it may be wrong.                 *)
Excused(j) == name[j] = watch[j].path \/ Told(events, j) \/ (name[j] = "gone" /\ j \in Open)
OfGlob(j) == watch[j] # NoWatch /\ watch[j].who = "glob"

LEMMA IsTold == GlobIsTold <=> \A j \in Inode : OfGlob(j) => Excused(j)
BY DEF GlobIsTold, OfGlob, Excused, Told

LEMMA WatchType ==
  ASSUME GlobTypeOK, NEW i \in Inode, NEW w \in Watch
  PROVE  /\ WatchFile(i, w) \in [Inode -> Watch \cup {NoWatch}]
         /\ \A j \in Inode : WatchFile(i, w)[j] = watch[j] \/ (j = i /\ WatchFile(i, w)[j] = w)
BY DEF WatchFile, GlobTypeOK

(* find_files and add: the lists hold paths.                                 *)
LEMMA ContinueType ==
  ASSUME GlobTypeOK, NEW todo \in SUBSET Path, NEW gone \in SUBSET Path, Continue(todo, gone)
  PROVE  /\ reactor' \in {"watch", "idle"} /\ adding' \subseteq Path /\ current' \in SUBSET Path
         /\ missing' \subseteq Path /\ files' \subseteq Path
BY DEF GlobTypeOK, Continue, Forget

(* The steps of the reactor keep the invariant.                              *)
LEMMA ReactorStep == ASSUME GlobInv, Reactor PROVE GlobInv'
<1>t. /\ reactor \in {"new", "idle", "watch", "tail", "dead"}
      /\ adding \subseteq Path /\ current \in SUBSET Path
      /\ missing \subseteq Path /\ files \subseteq Path /\ tails \subseteq Path \X Inode
      /\ watch \in [Inode -> Watch \cup {NoWatch}]
      /\ events \in Seq(Event)
      /\ name \in [Inode -> Path \cup {"new", "outside", "gone"}]
      /\ \A i, j \in Inode : name[i] = name[j] /\ name[i] \in Path => i = j
      /\ secret \subseteq Inode /\ written \subseteq Inode /\ turns \in 0..MaxTurns
  BY DEF GlobInv, GlobTypeOK
<1>k. GlobTypeOK /\ \A j \in Inode : OfGlob(j) => Excused(j)
  BY IsTold DEF GlobInv
<1>d. UNCHANGED <<name, secret, written, turns>>
  BY DEF Reactor, StartReactor, FindFiles, AddWatch, FileFound, TellEnds, TailReads, diskVars
<1>s. \A j \in Inode : OfGlob(j)' <=> watch'[j] # NoWatch /\ watch'[j].who = "glob"
  BY DEF OfGlob
<1>e. \A j \in Inode : Excused(j)' <=>
        (name[j] = watch'[j].path \/ Told(events', j) \/ (name[j] = "gone" /\ j \in OpenOf(written, tails')))
  BY <1>d DEF Excused, Open, OpenOf, Told
<1>y. ASSUME reactor' \in {"new", "idle", "watch", "tail", "dead"},
             adding' \subseteq Path, current' \in SUBSET Path, missing' \subseteq Path, files' \subseteq Path,
             tails' \subseteq Path \X Inode, watch' \in [Inode -> Watch \cup {NoWatch}], events' \in Seq(Event),
             \A j \in Inode : watch'[j] # NoWatch /\ watch'[j].who = "glob" =>
               name[j] = watch'[j].path \/ Told(events', j) \/ (name[j] = "gone" /\ j \in OpenOf(written, tails'))
      PROVE  GlobInv'
  <2>1. GlobTypeOK'
    BY <1>t, <1>d, <1>y DEF GlobTypeOK
  <2>2. \A j \in Inode : OfGlob(j)' => Excused(j)'
    BY <1>s, <1>e, <1>y
  <2>3. GlobIsTold'
    BY <2>2 DEF GlobIsTold, OfGlob, Excused, Told
  <2> QED BY <2>1, <2>3 DEF GlobInv
<1>o. \A j \in Inode : watch[j] # NoWatch /\ watch[j].who = "glob" =>
        name[j] = watch[j].path \/ Told(events, j) \/ (name[j] = "gone" /\ j \in OpenOf(written, tails))
  BY <1>k DEF OfGlob, Excused, Open
<1>1. CASE StartReactor
  BY <1>1, <1>t, <1>o, <1>y DEF StartReactor
<1>2. CASE FindFiles
  <2>1. /\ Continue(Existing \ files, files \ Existing) /\ UNCHANGED <<tails, watch, events>>
    BY <1>2 DEF FindFiles
  <2>2. Existing \ files \in SUBSET Path /\ files \ Existing \in SUBSET Path
    BY <1>t DEF Existing
  <2>3. /\ reactor' \in {"watch", "idle"} /\ adding' \subseteq Path /\ current' \in SUBSET Path
        /\ missing' \subseteq Path /\ files' \subseteq Path
    BY <1>k, <2>1, <2>2, ContinueType
  <2> QED BY <1>t, <1>o, <1>y, <2>1, <2>3
<1>3. CASE AddWatch
  <2>1. PICK p \in current :
          /\ IF FileAt(p) = {}
               THEN reactor' = "dead" /\ UNCHANGED <<files, watch>>
               ELSE /\ reactor' = "tail" /\ files' = files \cup {p}
                    /\ \E i \in FileAt(p) : watch' = WatchFile(i, [who |-> "glob", path |-> p])
          /\ UNCHANGED <<adding, current, missing, tails, events>>
    BY <1>3 DEF AddWatch
  <2>2. CASE FileAt(p) = {}
    BY <1>t, <1>o, <1>y, <2>1, <2>2
  <2>3. CASE FileAt(p) # {}
    <3>1. PICK i \in FileAt(p) : watch' = WatchFile(i, [who |-> "glob", path |-> p])
      BY <2>1, <2>3
    <3>2. p \in Path /\ i \in Inode /\ name[i] = p
      BY <1>t DEF FileAt
    <3>3. [who |-> "glob", path |-> p] \in Watch
      BY <3>2 DEF Watch
    <3>4. /\ watch' \in [Inode -> Watch \cup {NoWatch}]
          /\ \A j \in Inode : watch'[j] = watch[j] \/ (j = i /\ watch'[j] = [who |-> "glob", path |-> p])
      BY <1>k, <3>1, <3>2, <3>3, WatchType
    <3>5. \A j \in Inode : watch'[j] = [who |-> "glob", path |-> p] => watch'[j].path = p
      OBVIOUS
    <3>6. \A j \in Inode : watch'[j] # NoWatch /\ watch'[j].who = "glob" =>
            name[j] = watch'[j].path \/ Told(events, j) \/ (name[j] = "gone" /\ j \in OpenOf(written, tails))
      BY <1>o, <3>2, <3>4, <3>5
    <3> QED BY <1>t, <1>y, <2>1, <2>3, <3>2, <3>4, <3>6
  <2> QED BY <2>2, <2>3
<1>4. CASE FileFound
  <2>1. PICK p \in current :
          /\ IF FileAt(p) = {}
               THEN /\ reactor' = "dead"
                    /\ UNCHANGED <<adding, current, missing, files, tails, watch>>
               ELSE /\ Continue(adding \ {p}, missing)
                    /\ \E i \in FileAt(p) :
                         /\ watch' = WatchFile(i, [who |-> "tail", path |-> p])
                         /\ tails' = IF i \in secret THEN tails ELSE tails \cup {<<p, i>>}
          /\ UNCHANGED events
    BY <1>4 DEF FileFound
  <2>2. CASE FileAt(p) = {}
    BY <1>t, <1>o, <1>y, <2>1, <2>2
  <2>3. CASE FileAt(p) # {}
    <3>1. PICK i \in FileAt(p) :
            /\ watch' = WatchFile(i, [who |-> "tail", path |-> p])
            /\ tails' = IF i \in secret THEN tails ELSE tails \cup {<<p, i>>}
      BY <2>1, <2>3
    <3>2. p \in Path /\ i \in Inode /\ name[i] = p
      BY <1>t DEF FileAt
    <3>3. [who |-> "tail", path |-> p] \in Watch
      BY <3>2 DEF Watch
    <3>4. /\ watch' \in [Inode -> Watch \cup {NoWatch}]
          /\ \A j \in Inode : watch'[j] = watch[j] \/ (j = i /\ watch'[j] = [who |-> "tail", path |-> p])
      BY <1>k, <3>1, <3>2, <3>3, WatchType
    <3>5. \A j \in Inode : watch'[j] = [who |-> "tail", path |-> p] => watch'[j].who # "glob"
      OBVIOUS
    <3>6. tails \subseteq tails' /\ tails' \subseteq Path \X Inode
      BY <1>t, <3>1, <3>2
    <3>7. OpenOf(written, tails) \subseteq OpenOf(written, tails')
      BY <3>6 DEF OpenOf
    <3>8. \A j \in Inode : watch'[j] # NoWatch /\ watch'[j].who = "glob" =>
            name[j] = watch'[j].path \/ Told(events, j) \/ (name[j] = "gone" /\ j \in OpenOf(written, tails'))
      BY <1>o, <3>4, <3>5, <3>7
    <3>9. /\ reactor' \in {"watch", "idle"} /\ adding' \subseteq Path /\ current' \in SUBSET Path
          /\ missing' \subseteq Path /\ files' \subseteq Path
      <4>1. adding \ {p} \in SUBSET Path /\ missing \in SUBSET Path /\ Continue(adding \ {p}, missing)
        BY <1>t, <2>1, <2>3
      <4> QED BY <1>k, <4>1, ContinueType
    <3> QED BY <1>t, <1>y, <2>1, <3>4, <3>6, <3>8, <3>9
  <2> QED BY <2>2, <2>3
<1>5. CASE TellEnds
  <2> PICK i : i = Head(events).file
    OBVIOUS
  <2>1. /\ events # << >> /\ events' = Tail(events) \o Gone(Ended(written, tails'))
        /\ UNCHANGED <<adding, current, missing>>
    BY <1>5 DEF TellEnds
  <2>2. /\ i \in Inode /\ Tail(events) \in Seq(Event)
        /\ \A j : Told(events, j) => Told(Tail(events), j) \/ j = i
    <3>1. Head(events) \in Event
      BY <1>t, <2>1, ToldRest
    <3> QED BY <1>t, <2>1, <3>1, ToldRest DEF Event
  <2>3. \/ watch[i] = NoWatch /\ UNCHANGED <<reactor, files, watch, tails>>
        \/ /\ watch[i] # NoWatch /\ watch[i].who = "glob" /\ files' = files \ {watch[i].path}
           /\ watch' = [watch EXCEPT ![i] = NoWatch] /\ UNCHANGED <<reactor, tails>>
        \/ /\ watch[i] # NoWatch /\ watch[i].who = "tail" /\ files' = files
           /\ \/ watch' = watch /\ \E t \in tails : Reopen(t)
              \/ watch' = [watch EXCEPT ![i] = NoWatch] /\ UNCHANGED <<reactor, tails>>
    BY <1>5, <1>t, <2>2 DEF TellEnds, StopWatching, Unwatch, NoWatch
  <2>4. /\ reactor' \in {"new", "idle", "watch", "tail", "dead"}
        /\ tails' \subseteq Path \X Inode
        /\ \A k, j \in Open \ OpenOf(written, tails') : k = j
    <3>1. CASE UNCHANGED <<reactor, tails>>
      BY <1>t, <3>1 DEF Open, OpenOf
    <3>2. CASE \E t \in tails : Reopen(t)
      BY <1>t, <1>k, <3>2, ReopenLets
    <3> QED BY <2>3, <3>1, <3>2
  <2>5. /\ watch' \in [Inode -> Watch \cup {NoWatch}] /\ files' \subseteq Path
        /\ watch'[i] = NoWatch \/ watch'[i].who # "glob"
        /\ \A j \in Inode : watch'[j] = watch[j] \/ watch'[j] = NoWatch
    BY <1>t, <2>2, <2>3
  <2>6. /\ Gone(Ended(written, tails')) \in Seq(Event)
        /\ \A j \in Inode : j \in Open /\ j \notin OpenOf(written, tails') /\ name[j] = "gone" /\ watch[j] # NoWatch
                            => Told(Gone(Ended(written, tails')), j)
    BY <1>k, <2>4, EndsTold
  <2>7. /\ events' \in Seq(Event)
        /\ \A j : Told(events', j) <=> Told(Tail(events), j) \/ Told(Gone(Ended(written, tails')), j)
    BY <2>1, <2>2, <2>6, ToldMore
  <2>8. \A j \in Inode : watch'[j] # NoWatch /\ watch'[j].who = "glob" =>
          name[j] = watch'[j].path \/ Told(events', j) \/ (name[j] = "gone" /\ j \in OpenOf(written, tails'))
    BY <1>o, <2>2, <2>5, <2>6, <2>7 DEF Open
  <2> QED BY <1>t, <1>y, <2>1, <2>4, <2>5, <2>7, <2>8
<1>6. CASE \E t \in tails : TailReads(t)
  <2>1. PICK t \in tails : TailReads(t)
    BY <1>6
  <2>2. /\ Reopen(t) /\ events' = events \o Gone(Ended(written, tails'))
        /\ UNCHANGED <<adding, current, missing, files, watch>>
    BY <2>1 DEF TailReads
  <2>3. /\ reactor' \in {reactor, "dead"} /\ tails' \subseteq Path \X Inode
        /\ \A k, j \in Open \ OpenOf(written, tails') : k = j
    BY <1>k, <2>2, ReopenLets
  <2>4. /\ Gone(Ended(written, tails')) \in Seq(Event)
        /\ \A j \in Inode : j \in Open /\ j \notin OpenOf(written, tails') /\ name[j] = "gone" /\ watch[j] # NoWatch
                            => Told(Gone(Ended(written, tails')), j)
    BY <1>k, <2>3, EndsTold
  <2>5. /\ events' \in Seq(Event)
        /\ \A j : Told(events', j) <=> Told(events, j) \/ Told(Gone(Ended(written, tails')), j)
    BY <1>t, <2>2, <2>4, ToldMore
  <2>6. \A j \in Inode : watch'[j] # NoWatch /\ watch'[j].who = "glob" =>
          name[j] = watch'[j].path \/ Told(events', j) \/ (name[j] = "gone" /\ j \in OpenOf(written, tails'))
    BY <1>o, <2>2, <2>4, <2>5 DEF Open
  <2> QED BY <1>t, <1>y, <2>2, <2>3, <2>5, <2>6
<1> QED BY <1>1, <1>2, <1>3, <1>4, <1>5, <1>6 DEF Reactor

(* So do the files, whatever happens to them meanwhile.                      *)
LEMMA FilesStep == ASSUME GlobInv, Files PROVE GlobInv'
<1>t. /\ reactor \in {"new", "idle", "watch", "tail", "dead"}
      /\ adding \subseteq Path /\ current \in SUBSET Path
      /\ missing \subseteq Path /\ files \subseteq Path /\ tails \subseteq Path \X Inode
      /\ watch \in [Inode -> Watch \cup {NoWatch}]
      /\ events \in Seq(Event)
      /\ name \in [Inode -> Path \cup {"new", "outside", "gone"}]
      /\ \A i, j \in Inode : name[i] = name[j] /\ name[i] \in Path => i = j
      /\ secret \subseteq Inode /\ written \subseteq Inode /\ turns \in 0..MaxTurns
  BY DEF GlobInv, GlobTypeOK
<1>k. GlobTypeOK /\ \A j \in Inode : OfGlob(j) => Excused(j)
  BY IsTold DEF GlobInv
<1>d. UNCHANGED <<reactor, adding, current, missing, files, tails, watch>>
  BY DEF Files, Create, Unlink, Rename, Close, Turn
<1>o. \A j \in Inode : OfGlob(j) =>
        name[j] = watch[j].path \/ Told(events, j) \/ (name[j] = "gone" /\ j \in Open)
  BY <1>k DEF Excused
<1>y. ASSUME name' \in [Inode -> Path \cup {"new", "outside", "gone"}],
             \A i, j \in Inode : name'[i] = name'[j] /\ name'[i] \in Path => i = j,
             events' \in Seq(Event), secret' \subseteq Inode, written' \subseteq Inode, turns' \in 0..MaxTurns,
             \A j \in Inode : OfGlob(j) =>
               name'[j] = watch[j].path \/ Told(events', j) \/ (name'[j] = "gone" /\ j \in Open')
      PROVE  GlobInv'
  <2>1. GlobTypeOK'
    BY <1>t, <1>d, <1>y DEF GlobTypeOK
  <2>2. \A j \in Inode : OfGlob(j)' <=> OfGlob(j)
    BY <1>d DEF OfGlob
  <2>3. \A j \in Inode : Excused(j)' <=>
          (name'[j] = watch[j].path \/ Told(events', j) \/ (name'[j] = "gone" /\ j \in Open'))
    BY <1>d DEF Excused, Told
  <2>4. \A j \in Inode : OfGlob(j)' => Excused(j)'
    BY <1>y, <2>2, <2>3
  <2>5. GlobIsTold'
    BY <2>4 DEF GlobIsTold, OfGlob, Excused, Told
  <2> QED BY <2>1, <2>5 DEF GlobInv
<1>1. ASSUME NEW p \in Path, Create(p) PROVE GlobInv'
  <2>1. PICK i \in FileAt("new") :
          /\ FileAt(p) = {} /\ name' = [name EXCEPT ![i] = p]
          /\ secret' \in {secret, secret \cup {i}} /\ written' = written \cup {i}
          /\ UNCHANGED <<events, turns>>
    BY <1>1 DEF Create
  <2>2. i \in Inode /\ name[i] = "new"
    BY <2>1 DEF FileAt
  <2>3. /\ name' \in [Inode -> Path \cup {"new", "outside", "gone"}]
        /\ \A j \in Inode : name[j] # p
        /\ \A j \in Inode : name'[j] = IF j = i THEN p ELSE name[j]
    BY <1>t, <2>1, <2>2 DEF FileAt
  <2>4. \A k, j \in Inode : name'[k] = name'[j] /\ name'[k] \in Path => k = j
    BY <1>t, <2>3
  <2>5. Open \subseteq Open'
    BY <1>d, <2>1 DEF Open, OpenOf
  <2>6. \A j \in Inode : OfGlob(j) => watch[j].path \in Path
    BY <1>t DEF OfGlob, Watch
  <2>7. \A j \in Inode : OfGlob(j) =>
          name'[j] = watch[j].path \/ Told(events', j) \/ (name'[j] = "gone" /\ j \in Open')
    <3> SUFFICES ASSUME NEW j \in Inode, OfGlob(j)
                 PROVE  name'[j] = watch[j].path \/ Told(events', j) \/ (name'[j] = "gone" /\ j \in Open')
      OBVIOUS
    <3>1. events' = events
      BY <2>1
    <3>2. CASE j = i
      BY <1>o, <2>2, <2>6, <3>1, <3>2, GlobBounds
    <3>3. CASE j # i
      BY <1>o, <2>3, <2>5, <3>1, <3>3
    <3> QED BY <3>2, <3>3
  <2>8. written' \subseteq Inode /\ secret' \subseteq Inode
    BY <1>t, <2>1, <2>2
  <2> QED BY <1>t, <1>y, <2>1, <2>3, <2>4, <2>7, <2>8
<1>2. ASSUME NEW i \in Inode, Unlink(i) PROVE GlobInv'
  <2>1. /\ name[i] \in Path /\ name' = [name EXCEPT ![i] = "gone"]
        /\ events' = events \o Gone({i} \ Open)
        /\ turns < MaxTurns /\ turns' = turns + 1 /\ UNCHANGED <<secret, written>>
    BY <1>2 DEF Unlink, Turn
  <2>2. /\ Gone({i} \ Open) \in Seq(Event)
        /\ i \notin Open /\ watch[i] # NoWatch => Told(Gone({i} \ Open), i)
    <3>1. {i} \ Open \in SUBSET Inode /\ \A k, j \in {i} \ Open : k = j
      OBVIOUS
    <3> QED BY <1>k, <3>1, GoneTells
  <2>3. /\ events' \in Seq(Event)
        /\ \A j : Told(events', j) <=> Told(events, j) \/ Told(Gone({i} \ Open), j)
    BY <1>t, <2>1, <2>2, ToldMore
  <2>4. Open' = Open
    BY <1>d, <2>1 DEF Open, OpenOf
  <2>5. /\ name' \in [Inode -> Path \cup {"new", "outside", "gone"}]
        /\ \A j \in Inode : name'[j] = IF j = i THEN "gone" ELSE name[j]
    BY <1>t, <2>1
  <2>6. \A k, j \in Inode : name'[k] = name'[j] /\ name'[k] \in Path => k = j
    BY <1>t, <2>5, GlobBounds
  <2>7. \A j \in Inode : OfGlob(j) =>
          name'[j] = watch[j].path \/ Told(events', j) \/ (name'[j] = "gone" /\ j \in Open')
    BY <1>o, <2>2, <2>3, <2>4, <2>5 DEF OfGlob
  <2>8. turns' \in 0..MaxTurns
    BY <1>t, <2>1, GlobBounds
  <2> QED BY <1>t, <1>y, <2>1, <2>3, <2>5, <2>6, <2>7, <2>8
<1>3. ASSUME NEW i \in Inode, NEW to \in Path \cup {"outside"}, Rename(i, to) PROVE GlobInv'
  <2> DEFINE over == IF to \in Path THEN FileAt(to) ELSE {}
  <2>1. /\ name[i] \in Path \cup {"outside"} /\ to # name[i]
        /\ name' = [j \in Inode |-> IF j = i THEN to ELSE IF j \in over THEN "gone" ELSE name[j]]
        /\ events' = events \o Moved(i) \o Gone(over \ Open)
        /\ turns < MaxTurns /\ turns' = turns + 1 /\ UNCHANGED <<secret, written>>
    BY <1>3 DEF Rename, Turn
  <2>2. over \subseteq Inode /\ (\A k, j \in over : k = j) /\ (\A j \in Inode : j \in over <=> to \in Path /\ name[j] = to)
    BY <1>t DEF FileAt
  <2>3. /\ Gone(over \ Open) \in Seq(Event)
        /\ \A j \in over : j \notin Open /\ watch[j] # NoWatch => Told(Gone(over \ Open), j)
    <3>1. over \ Open \in SUBSET Inode /\ \A k, j \in over \ Open : k = j
      BY <2>2
    <3> HIDE DEF over
    <3> QED BY <1>k, <3>1, GoneTells
  <2>4. Moved(i) \in Seq(Event) /\ (watch[i] # NoWatch => Told(Moved(i), i))
    BY <1>k, Notes DEF Moved
  <2>5. events \o Moved(i) \in Seq(Event) /\ \A j : Told(events \o Moved(i), j) <=> Told(events, j) \/ Told(Moved(i), j)
    BY <1>t, <2>4, ToldMore
  <2>6. /\ events' \in Seq(Event)
        /\ \A j : Told(events', j) <=> Told(events, j) \/ Told(Moved(i), j) \/ Told(Gone(over \ Open), j)
    <3> HIDE DEF over
    <3> QED BY <2>1, <2>3, <2>5, ToldMore
  <2>7. Open' = Open
    BY <1>d, <2>1 DEF Open, OpenOf
  <2> HIDE DEF over
  <2>8. /\ name' \in [Inode -> Path \cup {"new", "outside", "gone"}]
        /\ \A j \in Inode : name'[j] = IF j = i THEN to ELSE IF j \in over THEN "gone" ELSE name[j]
    BY <1>t, <2>1
  <2>9. \A k, j \in Inode : name'[k] = name'[j] /\ name'[k] \in Path => k = j
    BY <1>t, <2>2, <2>8, GlobBounds
  <2>10. \A j \in Inode : OfGlob(j) =>
          name'[j] = watch[j].path \/ Told(events', j) \/ (name'[j] = "gone" /\ j \in Open')
    <3> SUFFICES ASSUME NEW j \in Inode, OfGlob(j)
                 PROVE  name'[j] = watch[j].path \/ Told(events', j) \/ (name'[j] = "gone" /\ j \in Open')
      OBVIOUS
    <3>1. watch[j] # NoWatch
      BY DEF OfGlob
    <3>2. CASE j = i
      BY <2>4, <2>6, <3>1, <3>2
    <3>3. CASE j # i /\ j \in over
      BY <2>3, <2>6, <2>7, <2>8, <3>1, <3>3
    <3>4. CASE j # i /\ j \notin over
      BY <1>o, <2>6, <2>7, <2>8, <3>4
    <3> QED BY <3>2, <3>3, <3>4
  <2>11. turns' \in 0..MaxTurns
    BY <1>t, <2>1, GlobBounds
  <2> QED BY <1>t, <1>y, <2>1, <2>6, <2>8, <2>9, <2>10, <2>11
<1>4. ASSUME NEW i \in Inode, Close(i) PROVE GlobInv'
  <2>1. /\ written' = written \ {i} /\ events' = events \o Gone(Ended(written', tails))
        /\ UNCHANGED <<name, secret, turns>>
    BY <1>4 DEF Close
  <2>2. \A k, j \in Open \ OpenOf(written', tails) : k = j
    BY <2>1 DEF Open, OpenOf
  <2>3. /\ Gone(Ended(written', tails)) \in Seq(Event)
        /\ \A j \in Inode : j \in Open /\ j \notin OpenOf(written', tails) /\ name[j] = "gone" /\ watch[j] # NoWatch
                            => Told(Gone(Ended(written', tails)), j)
    BY <1>k, <2>2, EndsTold
  <2>4. /\ events' \in Seq(Event)
        /\ \A j : Told(events', j) <=> Told(events, j) \/ Told(Gone(Ended(written', tails)), j)
    BY <1>t, <2>1, <2>3, ToldMore
  <2>5. Open' = OpenOf(written', tails)
    BY <1>d DEF Open, OpenOf
  <2>6. \A j \in Inode : OfGlob(j) =>
          name'[j] = watch[j].path \/ Told(events', j) \/ (name'[j] = "gone" /\ j \in Open')
    BY <1>o, <2>1, <2>3, <2>4, <2>5 DEF OfGlob
  <2> QED BY <1>t, <1>y, <2>1, <2>4, <2>6
<1> QED BY <1>1, <1>2, <1>3, <1>4 DEF Files

LEMMA GlobStep == GlobInv /\ [GlobNext]_globVars => GlobInv'
<1> SUFFICES ASSUME GlobInv, [GlobNext]_globVars PROVE GlobInv'
  OBVIOUS
<1>1. CASE Reactor
  BY <1>1, ReactorStep
<1>2. CASE Files
  BY <1>2, FilesStep
<1>3. CASE UNCHANGED globVars
  <2>1. GlobTypeOK'
    BY <1>3 DEF GlobInv, GlobTypeOK, globVars, diskVars
  <2>2. GlobIsTold'
    BY <1>3 DEF GlobInv, GlobIsTold, globVars, diskVars, Open, OpenOf
  <2> QED BY <2>1, <2>2 DEF GlobInv
<1> QED BY <1>1, <1>2, <1>3 DEF GlobNext

(* The variables of GlobWatch have their types; no two files have one path.  *)
THEOREM GlobTypeCorrect == GlobSpec => []GlobTypeOK
<1>1. GlobInv => GlobTypeOK
  BY DEF GlobInv
<1> QED BY <1>1, GlobInitial, GlobStep, PTL DEF GlobSpec

(* The glob takes a new file for the one it knows only while it is yet to    *)
(* hear of the old one, or somebody has that open.                           *)
THEOREM GlobIsToldAll == GlobSpec => []GlobIsTold
<1>1. GlobInv => GlobIsTold
  BY DEF GlobInv
<1> QED BY <1>1, GlobInitial, GlobStep, PTL DEF GlobSpec
=============================================================================
